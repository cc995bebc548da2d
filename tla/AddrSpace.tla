----------------------------- MODULE AddrSpace -----------------------------
(***************************************************************************)
(* User address spaces: kernel/src/mm/pmap.c (page tables, frame reference *)
(* counts, fork's copy, teardown, stack growth), the image builder of      *)
(* proc/elf.c, and mmap, munmap, brk, fork, execve and reaping in          *)
(* sys/syscall.c, over the page allocator's bitmap.                        *)
(*                                                                         *)
(* Virtual pages are numbers: the image, the brk area, the mmap area and   *)
(* the stack follow one another.  The three levels below the PML4 are one  *)
(* level of tables of PER_TABLE entries.  A page of 0 is the code's null   *)
(* entry; page 0 is never usable.  Each call runs without a switch, so it  *)
(* is one step, computed on a record m of the bitmap, the counts and the   *)
(* space being changed: m.ok says whether the caller goes on, m.oom that   *)
(* an allocation failed.                                                   *)
(***************************************************************************)
EXTENDS PageBitmap, FiniteSets

CONSTANTS
  Reserved,     \* pages that are not the user's: page 0, kernel, bitmap, refs
  Procs,        \* task slots for user processes
  FirstProc,    \* the one that holds init at the start
  PER_TABLE,    \* entries of a page table (512 in the code)
  ImagePages,   \* pages of a program's segments
  BrkPages,     \* BRK_LIMIT - brk_base
  MmapPages,    \* MMAP_AREA_END - MMAP_AREA_BASE
  GrowPages,    \* stack below the part exec maps: USER_STACK_MAX_SIZE
  USER_STACK_PAGES,
  MaxUnmap      \* bound on the length of one munmap

ASSUME AddrAssumption ==
  /\ {total_pages, PER_TABLE, ImagePages, USER_STACK_PAGES} \subseteq Nat \ {0}
  /\ {BrkPages, MmapPages, GrowPages, MaxUnmap} \subseteq Nat
  /\ 0 \in Reserved /\ Reserved \subseteq Pages
  /\ FirstProc \in Procs /\ IsFiniteSet(Procs)

NoPage == 0
brk_base == ImagePages
MMAP_AREA_BASE == brk_base + BrkPages
MMAP_AREA_END == MMAP_AREA_BASE + MmapPages
StackBase == MMAP_AREA_END + GrowPages
USER_STACK_TOP == StackBase + USER_STACK_PAGES

VAs == 0 .. USER_STACK_TOP - 1
TableOf(va) == va \div PER_TABLE
TableCount == TableOf(USER_STACK_TOP - 1) + 1
Tables == 0 .. TableCount - 1
FirstVa(t) ==
  IF t * PER_TABLE < USER_STACK_TOP THEN t * PER_TABLE ELSE USER_STACK_TOP

\* for (va = from; va < to; va++) m = body(m, va);
For(body(_, _), m, from, to) ==
  LET after[va \in from .. to] ==
        IF va = from THEN m ELSE body(after[va - 1], va - 1)
  IN IF from < to THEN after[to] ELSE m

Space == [root : Pages, tab : [Tables -> Pages], pte : [VAs -> Pages]]
NoSpace == [root |-> NoPage, tab |-> [t \in Tables |-> NoPage],
            pte |-> [va \in VAs |-> NoPage]]

VARIABLES
  bitmap,    \* the allocator's: pages that are not available
  refs,      \* per-frame reference counts
  space,     \* the page tables below task_t.pml4_phys; NoSpace in a free slot
  kstack,    \* task_t.kstack, one page
  brk_cur, mmap_top,
  shrunk,    \* history: some brk has lowered the break by a page
  oom        \* history: some allocation has failed

addrVars == <<bitmap, refs, space, kstack, brk_cur, mmap_top, shrunk, oom>>

-----------------------------------------------------------------------------
(* Frames.                                                                 *)

NextPage(m) ==
  LET clear == Pages \ m.bits
  IN IF clear = {} THEN NoPage ELSE CHOOSE p \in clear : \A q \in clear : p <= q

\* pmm_alloc(1).
Claim(m) ==
  [m EXCEPT !.bits = @ \cup {NextPage(m)}, !.oom = @ \/ NextPage(m) = NoPage]

FreePage(m, p) == [m EXCEPT !.bits = @ \ Freed(@, p, 1)]

\* Fault: the count is taken below zero.
frame_ref_decUnderflow(n) == n - 1

frame_ref_dec(n) == IF n > 0 THEN n - 1 ELSE 0

\* Fault: the frame is freed without dropping its count.
ReleaseFrameCounted(m, p) == FreePage(m, p)

ReleaseFrame(m, p) ==
  LET n == frame_ref_dec(m.refs[p])
      dropped == [m EXCEPT !.refs[p] = n]
  IN IF n = 0 THEN FreePage(dropped, p) ELSE dropped

-----------------------------------------------------------------------------
(* pmap.c.                                                                 *)

pmap_create(m) ==
  [Claim(m) EXCEPT !.space = [NoSpace EXCEPT !.root = NextPage(m)],
                   !.ok = NextPage(m) # NoPage]

\* When the table cannot be allocated the mapping is silently not made.
pmap_map(m, va, pa) ==
  LET t == TableOf(va)
      w == IF m.space.tab[t] # NoPage THEN m
           ELSE [Claim(m) EXCEPT !.space.tab[t] = NextPage(m)]
  IN IF w.space.tab[t] = NoPage THEN w ELSE [w EXCEPT !.space.pte[va] = pa]

\* A new frame at va: the loop body of mmap, brk, map_zeroed_range and of
\* stack growth.
MapNew(m, va) ==
  LET c == Claim(m)
  IN IF ~m.ok THEN m
     ELSE IF NextPage(m) = NoPage THEN [c EXCEPT !.ok = FALSE]
     ELSE pmap_map(c, va, NextPage(m))

map_zeroed_range(m, from, to) == For(MapNew, m, from, to)

\* Fault: the child's entry names the parent's frame.
CopyPageShared(parent, m, va) ==
  IF ~m.ok \/ parent.pte[va] = NoPage THEN m
  ELSE pmap_map([m EXCEPT !.refs[parent.pte[va]] = @ + 1], va, parent.pte[va])

CopyPage(parent, m, va) ==
  LET c == Claim(m)
      p == NextPage(m)
  IN IF ~m.ok \/ parent.pte[va] = NoPage THEN m
     ELSE IF p = NoPage THEN [c EXCEPT !.ok = FALSE]
     ELSE pmap_map([c EXCEPT !.refs[p] = @ + 1], va, p)

\* Giving up in the middle leaves what was built where it is.
pmap_fork(m, parent) ==
  For(LAMBDA n, va : CopyPage(parent, n, va), pmap_create(m), 0, USER_STACK_TOP)

ReleaseVa(m, va) ==
  IF m.space.pte[va] = NoPage THEN m ELSE ReleaseFrame(m, m.space.pte[va])

\* Fault: the page of the table itself is not freed.
DestroyTableEntries(m, t) ==
  IF m.space.tab[t] = NoPage THEN m ELSE For(ReleaseVa, m, FirstVa(t), FirstVa(t + 1))

DestroyTable(m, t) ==
  IF m.space.tab[t] = NoPage THEN m
  ELSE FreePage(For(ReleaseVa, m, FirstVa(t), FirstVa(t + 1)), m.space.tab[t])

pmap_destroy(m) ==
  [FreePage(For(DestroyTable, m, 0, TableCount), m.space.root)
     EXCEPT !.space = NoSpace]

UnmapVa(m, va) ==
  IF m.space.pte[va] = NoPage THEN m
  ELSE [ReleaseFrame(m, m.space.pte[va]) EXCEPT !.space.pte[va] = NoPage]

-----------------------------------------------------------------------------
(* elf.c.  A segment page whose table was missing is not noticed; the      *)
(* stack's top page is, when the arguments are copied to it.               *)

exec_build_image(m) ==
  LET created == pmap_create(m)
      image == map_zeroed_range(created, 0, ImagePages)
      stack == map_zeroed_range(image, StackBase, USER_STACK_TOP)
  IN IF ~created.ok THEN created
     ELSE IF ~image.ok THEN pmap_destroy(image)
     ELSE IF ~stack.ok \/ stack.space.pte[USER_STACK_TOP - 1] = NoPage
     THEN [pmap_destroy(stack) EXCEPT !.ok = FALSE]
     ELSE stack

-----------------------------------------------------------------------------
(* The calls.                                                              *)

Mem(sp) == [bits |-> bitmap, refs |-> refs, space |-> sp, ok |-> TRUE, oom |-> oom]

Commit(m) == bitmap' = m.bits /\ refs' = m.refs /\ oom' = m.oom

Live == {p \in Procs : space[p] # NoSpace}

\* sys_fork; without a slot or a kernel stack the child's space is destroyed.
sys_fork(p) ==
  LET m == pmap_fork(Mem(NoSpace), space[p])
      stack == Claim(m)
      spawned == m.ok /\ Live # Procs /\ NextPage(m) # NoPage
  IN /\ IF spawned
        THEN \E c \in Procs \ Live :
               /\ Commit(stack)
               /\ space' = [space EXCEPT ![c] = stack.space]
               /\ kstack' = [kstack EXCEPT ![c] = NextPage(m)]
               /\ brk_cur' = [brk_cur EXCEPT ![c] = brk_cur[p]]
               /\ mmap_top' = [mmap_top EXCEPT ![c] = mmap_top[p]]
        ELSE /\ Commit(IF ~m.ok THEN m
                       ELSE pmap_destroy(IF Live = Procs THEN m ELSE stack))
             /\ UNCHANGED <<space, kstack, brk_cur, mmap_top>>
     /\ UNCHANGED shrunk

\* The new image is complete before the old space is destroyed.
sys_execve(p) ==
  LET new == exec_build_image(Mem(NoSpace))
  IN /\ IF new.ok
        THEN /\ Commit(pmap_destroy([new EXCEPT !.space = space[p]]))
             /\ space' = [space EXCEPT ![p] = new.space]
             /\ brk_cur' = [brk_cur EXCEPT ![p] = brk_base]
             /\ mmap_top' = [mmap_top EXCEPT ![p] = MMAP_AREA_BASE]
        ELSE Commit(new) /\ UNCHANGED <<space, brk_cur, mmap_top>>
     /\ UNCHANGED <<kstack, shrunk>>

\* A dead process is reaped: kernel stack, then address space.  Between its
\* exit and this its memory does not change.
reap_task(p) ==
  /\ p # FirstProc
  /\ Commit(pmap_destroy(FreePage(Mem(space[p]), kstack[p])))
  /\ space' = [space EXCEPT ![p] = NoSpace]
  /\ kstack' = [kstack EXCEPT ![p] = NoPage]
  /\ UNCHANGED <<brk_cur, mmap_top, shrunk>>

\* On failure the pages already mapped stay and mmap_top does not move.
sys_mmap(p) ==
  \E len \in 1 .. MmapPages :
    LET base == mmap_top[p]
        m == map_zeroed_range(Mem(space[p]), base, base + len)
    IN /\ base + len <= MMAP_AREA_END
       /\ Commit(m)
       /\ space' = [space EXCEPT ![p] = m.space]
       /\ mmap_top' = [mmap_top EXCEPT ![p] = IF m.ok THEN base + len ELSE base]
       /\ UNCHANGED <<kstack, brk_cur, shrunk>>

sys_munmap(p) ==
  \E from \in VAs, len \in 1 .. MaxUnmap :
    LET m == For(UnmapVa, Mem(space[p]), from, from + len)
    IN /\ from + len <= USER_STACK_TOP
       /\ Commit(m)
       /\ space' = [space EXCEPT ![p] = m.space]
       /\ UNCHANGED <<kstack, brk_cur, mmap_top, shrunk>>

\* The break moves whether or not the frames were there.  Lowering it frees
\* the frames and leaves their entries in the table.
sys_brk(p) ==
  \E top \in brk_base .. MMAP_AREA_BASE :
    LET old == brk_cur[p]
        m == IF top > old THEN map_zeroed_range(Mem(space[p]), old, top)
             ELSE For(ReleaseVa, Mem(space[p]), top, old)
    IN /\ Commit(m)
       /\ space' = [space EXCEPT ![p] = m.space]
       /\ brk_cur' = [brk_cur EXCEPT ![p] = top]
       /\ shrunk' = (shrunk \/ top < old)
       /\ UNCHANGED <<kstack, mmap_top>>

\* A fault on an unmapped page of the stack area.
pmap_handle_fault(p) ==
  \E va \in MMAP_AREA_END .. USER_STACK_TOP - 1 :
    LET m == MapNew(Mem(space[p]), va)
    IN /\ space[p].pte[va] = NoPage
       /\ Commit(m)
       /\ space' = [space EXCEPT ![p] = m.space]
       /\ UNCHANGED <<kstack, brk_cur, mmap_top, shrunk>>

-----------------------------------------------------------------------------
\* Without memory for the table the boot goes on without one; not modelled.
frame_refs_init == [p \in Pages |-> 0]

\* main.c: init's image, then sched_spawn_user_task's slot and kernel stack.
\* Without the image the boot stops, without the stack there is no init.  That
\* rudod is there as well is a fork and an execve of init.
AddrInit ==
  LET empty == [bits |-> Reserved, refs |-> frame_refs_init, space |-> NoSpace,
                ok |-> TRUE, oom |-> FALSE]
      m == exec_build_image(empty)
      stack == IF m.ok THEN Claim(m) ELSE m
      spawned == m.ok /\ NextPage(m) # NoPage
  IN /\ bitmap = stack.bits /\ refs = stack.refs /\ oom = stack.oom
     /\ space = [p \in Procs |-> IF spawned /\ p = FirstProc THEN m.space ELSE NoSpace]
     /\ kstack = [p \in Procs |-> IF spawned /\ p = FirstProc THEN NextPage(m) ELSE NoPage]
     /\ brk_cur = [p \in Procs |-> brk_base]
     /\ mmap_top = [p \in Procs |-> MMAP_AREA_BASE]
     /\ shrunk = FALSE

AddrNext ==
  \E p \in Live :
    \/ sys_fork(p) \/ sys_execve(p) \/ reap_task(p)
    \/ sys_mmap(p) \/ sys_munmap(p) \/ sys_brk(p) \/ pmap_handle_fault(p)

AddrSpec == AddrInit /\ [][AddrNext]_addrVars

-----------------------------------------------------------------------------
AddrTypeOK ==
  /\ bitmap \subseteq Pages
  /\ refs \in [Pages -> Nat]
  /\ space \in [Procs -> Space]
  /\ kstack \in [Procs -> Pages]
  /\ brk_cur \in [Procs -> VAs] /\ mmap_top \in [Procs -> VAs]
  /\ shrunk \in BOOLEAN /\ oom \in BOOLEAN

\* The entries of the kernel's structures that name a page, and the pages.
Mapped == {x \in Procs \X VAs : space[x[1]].pte[x[2]] # NoPage}
TablesUsed == {x \in Procs \X Tables : space[x[1]].tab[x[2]] # NoPage}
Owned ==
  {space[x[1]].pte[x[2]] : x \in Mapped} \cup {space[x[1]].tab[x[2]] : x \in TablesUsed}
  \cup {space[p].root : p \in Live} \cup {kstack[p] : p \in Live}

\* pmap.c: "Eager private copy."  A page has one use at most: no two processes
\* or virtual pages share a frame, and no frame is also a page table or a
\* kernel stack.
EagerPrivateCopy ==
  Cardinality(Owned) =
    Cardinality(Mapped) + Cardinality(TablesUsed) + 2 * Cardinality(Live)

\* Private frames hold through fork, execve, mmap, munmap, stack growth,
\* reaping and every allocation failure, as long as no break is lowered, and
\* no page in use is available to the allocator.
PrivateFrames ==
  ~shrunk => EagerPrivateCopy /\ Owned \subseteq bitmap \ Reserved

\* Teardown is complete: unless an allocation has failed, every page that is
\* not available is in use by a live process (pmap_destroy, sys_munmap).
NoFrameLeak == ~oom /\ ~shrunk => bitmap = Reserved \cup Owned

\* Reference counts follow the frames: one that is available counts zero, so
\* the next owner of the frame, which does not set the count, can free it.
FreeFramesUncounted == ~shrunk => \A p \in Pages \ bitmap : refs[p] = 0
=============================================================================
