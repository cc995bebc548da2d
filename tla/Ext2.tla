-------------------------------- MODULE Ext2 --------------------------------
(***************************************************************************)
(* The read-only ext2 driver of kernel/src/fs/ext2.c over what was mounted:*)
(* its read, list and exists calls.  A block is B units: a unit is a       *)
(* pointer, an inode, a group descriptor, a directory entry's header, its  *)
(* name, or a byte of a file.  Every kmalloc of the driver is for the block*)
(* it reads next, so a set of bad blocks also stands for memory that is    *)
(* short.                                                                  *)
(***************************************************************************)
EXTENDS Mount, FiniteSets, SequencesExt

CONSTANTS
  B,         \* units in a block; a pointer takes one, so also ptrs_per_block
  DIRECT,    \* the direct pointers of an inode, 12 in the code
  Calls      \* the paths used in calls

EXT2_ROOT_INO == 2

VARIABLE call  \* the last call and what it returned

ext2Vars == <<mountVars, call>>

NoCall == [op |-> "none", path |-> <<>>, bad |-> {}, ret |-> <<>>, ok |-> FALSE]
Zero == [byte |-> 0]

-----------------------------------------------------------------------------
(* Blocks and inodes.                                                      *)

\* <<>> or the units of the block.
Units(sectors) == IF sectors = <<>> THEN <<>> ELSE sectors[1].u
read_block(block, bad) == Units(partition_read_sectors(ext2.dev_name, block, bad))

\* The number at index i of a pointer block, or of whatever the block holds (a
\* missing pointer block is read as block 0); 0 if it could not be read.
Pointer(u, i) ==
  CASE u = <<>> -> 0
    [] u # <<>> /\ "ptr" \in DOMAIN u[i + 1] -> u[i + 1].ptr
    [] OTHER -> IF u[i + 1] = Zero THEN 0 ELSE 1
Indirect(block, i, bad) == Pointer(read_block(block, bad), i)
DoublyIndirect(next, i, bad) == IF next = 0 THEN 0 ELSE Indirect(next, i, bad)

read_inode(ino, bad) ==
  LET n == ino - 1
      group == n \div ext2.sb.ipg
      index == n % ext2.sb.ipg
      u == read_block(ext2.bgd[group + 1].inode_table + index \div B, bad) IN
  IF ino = 0 \/ group >= ext2.sb.groups \/ u = <<>> THEN <<>> ELSE <<u[(index % B) + 1]>>

\* Fault: the index is not reduced by the single-indirect range.
get_inode_blockOffByRange(inode, logical, bad) ==
  LET single == logical - DIRECT IN
  IF logical < DIRECT THEN inode.block[logical]
  ELSE IF single < B THEN Indirect(inode.block[DIRECT], single, bad)
  ELSE DoublyIndirect(Indirect(inode.block[DIRECT + 1], (single \div B) % B, bad), single % B, bad)

\* 0 is a hole, and also what a failed read of a pointer block yields.
get_inode_block(inode, logical, bad) ==
  LET single == logical - DIRECT
      double == single - B IN
  IF logical < DIRECT THEN inode.block[logical]
  ELSE IF single < B THEN Indirect(inode.block[DIRECT], single, bad)
  ELSE DoublyIndirect(Indirect(inode.block[DIRECT + 1], double \div B, bad), double % B, bad)

DataBlock(phys, bad) == IF phys = 0 THEN [k \in 1 .. B |-> Zero] ELSE read_block(phys, bad)

\* The units read, fewer than asked for at the end of the file or after an error.
RECURSIVE read_inode_data(_, _, _, _)
CopyFrom(u, inode, off, count, bad) ==
  LET in == off % B
      to_copy == Min({B - in, count, inode.size - off}) IN
  IF u = <<>> THEN <<>>
  ELSE SubSeq(u, in + 1, in + to_copy) \o read_inode_data(inode, off + to_copy, count - to_copy, bad)
read_inode_data(inode, off, count, bad) ==
  IF off >= inode.size \/ count = 0 THEN <<>>
  ELSE CopyFrom(DataBlock(get_inode_block(inode, off \div B, bad), bad), inode, off, count, bad)

-----------------------------------------------------------------------------
(* Directories.  An entry is its header, and its name where that was read. *)

RECURSIVE LookupFrom(_, _, _, _)

\* Fault: deleted entries are looked at.
MatchDeleted(ent, n, dir, off, name, bad) ==
  IF ent = <<>> \/ n = <<>> THEN 0
  ELSE IF n[1].name = name THEN ent[1].old
  ELSE LookupFrom(dir, off + ent[1].rec_len, name, bad)

Match(ent, n, dir, off, name, bad) ==
  IF ent = <<>> THEN 0
  ELSE IF ent[1].inode = 0 THEN LookupFrom(dir, off + ent[1].rec_len, name, bad)
  ELSE IF n = <<>> THEN 0
  ELSE IF n[1].name = name THEN ent[1].inode
  ELSE LookupFrom(dir, off + ent[1].rec_len, name, bad)

\* The entry of that name from the offset on; 0 if there is none, or a read of
\* the entry or of its name fails.
LookupFrom(dir, off, name, bad) ==
  Match(read_inode_data(dir, off, 1, bad), read_inode_data(dir, off + 1, 1, bad), dir, off, name, bad)

LookupIn(d, name, bad) ==
  IF d = <<>> \/ d[1].mode # "dir" THEN 0 ELSE LookupFrom(d[1], 0, name, bad)
dir_lookup(ino, name, bad) == LookupIn(read_inode(ino, bad), name, bad)

\* ".." always leads to the root.
resolve_path(path, bad) ==
  LET Step(ino, name) ==
        CASE ino = 0 \/ name = "." -> ino
          [] name = ".." -> IF read_inode(ino, bad) = <<>> THEN 0 ELSE EXT2_ROOT_INO
          [] OTHER -> dir_lookup(ino, name, bad)
  IN FoldLeft(Step, EXT2_ROOT_INO, path)

\* The live entries from the offset on, as far as they can be read; the name of
\* an entry is taken without a look at how much of it was read.
RECURSIVE EntriesFrom(_, _, _)
Listed(ent, n, dir, off, bad) ==
  IF ent = <<>> THEN <<>>
  ELSE (IF ent[1].inode = 0 THEN <<>>
        ELSE <<[inode |-> ent[1].inode, name |-> IF n = <<>> THEN "junk" ELSE n[1].name]>>)
       \o EntriesFrom(dir, off + ent[1].rec_len, bad)
EntriesFrom(dir, off, bad) ==
  Listed(read_inode_data(dir, off, 1, bad), read_inode_data(dir, off + 1, 1, bad), dir, off, bad)

-----------------------------------------------------------------------------
(* The calls.                                                              *)

\* A call changes nothing of the driver's, so one in a run is enough.
Answer(op, path, bad, ok, ret) ==
  /\ stage = "up" /\ call = NoCall
  /\ call' = [op |-> op, path |-> path, bad |-> bad, ok |-> ok, ret |-> ret]
  /\ UNCHANGED mountVars

ReadFound(inode, path, max_size, bad) ==
  LET ok == inode # <<>> /\ inode[1].mode # "dir" IN
  Answer("read", path, bad, ok,
         IF ok THEN read_inode_data(inode[1], 0, Min({inode[1].size, max_size}), bad) ELSE <<>>)
ext2_read_file(path, max_size, bad) ==
  ext2.mounted /\ ReadFound(read_inode(resolve_path(path, bad), bad), path, max_size, bad)

\* An empty list is an error: kmalloc refuses 0 bytes.
LiveEntries(inode, bad) ==
  IF inode # <<>> /\ inode[1].mode = "dir" THEN EntriesFrom(inode[1], 0, bad) ELSE <<>>
ListAnswered(entries, path, bad) == Answer("list", path, bad, entries # <<>>, entries)
ext2_list_dir(path, bad) ==
  ext2.mounted /\ ListAnswered(LiveEntries(read_inode(resolve_path(path, bad), bad), bad), path, bad)

ext2_exists(path, bad) ==
  Answer("exists", path, bad, ext2.mounted /\ resolve_path(path, bad) # 0, <<>>)

Ext2Init == MountInit /\ call = NoCall

Ext2Next ==
  \/ MountNext /\ UNCHANGED call
  \/ \E bad \in Faults :
       \/ \E path \in Calls : ext2_list_dir(path, bad) \/ ext2_exists(path, bad)
       \/ \E path \in Calls, max_size \in {1, B * (DIRECT + B + B * B)} : ext2_read_file(path, max_size, bad)
=============================================================================
