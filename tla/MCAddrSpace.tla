---------------------------- MODULE MCAddrSpace ----------------------------
(* AddrSpace on a small memory for TLC. *)
EXTENDS AddrSpace

\* A lowered break leaves entries for freed frames behind; what the hardware
\* makes of them afterwards is not in the model.
BreakNotLowered == ~shrunk

\* Page numbers up to renaming: which entries are mapped and with what count,
\* whether two of them name the same page, and how many pages are left.
UpToRenaming ==
  <<[p \in Procs |-> <<space[p].root = NoPage, [t \in Tables |-> space[p].tab[t] = NoPage],
                       [va \in VAs |-> IF space[p].pte[va] = NoPage THEN -1
                                       ELSE refs[space[p].pte[va]]]>>],
    Cardinality(Owned), Owned \subseteq bitmap, Owned \cap Reserved = {},
    Cardinality(bitmap), {refs[p] : p \in Pages \ bitmap},
    brk_cur, mmap_top, shrunk, oom>>
=============================================================================
