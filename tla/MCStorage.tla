------------------------------ MODULE MCStorage ------------------------------
(***************************************************************************)
(* Memory and files for TLC.  part says what takes its steps in a          *)
(* behaviour: the heap on a small page allocator whose page 0 is reserved  *)
(* and whose page 1 holds the bitmap ("heap"), the tree of vfs.c with /proc*)
(* ("vfs"), or ext2 on the disks and their partitions ("ext2").            *)
(***************************************************************************)
EXTENDS KHeap, Vfs, Ext2Image

UsablePages == 1 .. total_pages - 1

AllNames == STRING

\* The initrd has a directory and a file in it.
InitrdArchive ==
  <<[type |-> "dir", path |-> <<"bin">>, data |-> <<>>],
    [type |-> "file", path |-> <<"bin", "sh">>, data |-> <<"old">>]>>
EarlyDevices == <<"null">>
NoDevices == <<>>
Creatable == {<<"tmp", "a">>, <<"tmp">>}
Openable == Creatable \cup {<<"proc", "p1">>, <<"proc", "p1", "cmdline">>}

\* Files with holes among the direct, indirect and doubly indirect blocks.
PresentBlocks == {{0, 1, 3}, {1, 4, 6}, {0}}
LookedUp ==
  {<<>>, <<"bin">>, <<"f">>, <<"old">>, <<"f", "x">>, <<"bin", ".", "..", "f">>}
\* At most one block of the disk cannot be read, and not the pointer block of
\* the root: its entries would be zeros, and the walk over them never ends.
OneBlock ==
  LET blocks == {1, 2, 3, 4, 5, 8, 9, 10, 14, 17, 18, 20}
  IN {{}} \cup {{a} : a \in blocks} \cup {{a + 21} : a \in blocks}
TwoDisks == <<"sda", "sdb">>

VARIABLE part

vars == <<part, allVars, vfsVars, ext2Vars>>
Part(name) == part = name /\ part' = name

Init ==
  /\ HeapInit /\ VfsInit
  /\ \/ part = "ext2" /\ ImageInit
     \/ part \in {"heap", "vfs"} /\ Ext2Init /\ disk = [d \in {"sda", "sdb"} |-> SecondDisk]

HeapStep == Part("heap") /\ HeapNext /\ UNCHANGED <<vfsVars, ext2Vars>>
VfsStep == Part("vfs") /\ VfsNext /\ UNCHANGED <<allVars, ext2Vars>>
Ext2Step == Part("ext2") /\ Ext2Next /\ UNCHANGED <<allVars, vfsVars>>
Next == HeapStep \/ VfsStep \/ Ext2Step

Spec == Init /\ [][Next]_vars
==============================================================================
