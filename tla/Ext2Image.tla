----------------------------- MODULE Ext2Image -----------------------------
(***************************************************************************)
(* The reference for Ext2: a file system stated as paths and contents, and *)
(* its image as mke2fs would lay it out, on a whole disk, in the first of  *)
(* its partitions, or one in each place.  The root holds a deleted entry,  *)
(* a directory and a sparse file; its own data takes direct and indirect   *)
(* blocks, and the inodes lie in two groups.  What the driver answers is   *)
(* compared with the paths and contents.  For B = 2 and DIRECT = 1.        *)
(***************************************************************************)
EXTENDS Ext2

CONSTANTS
  Presents,  \* the choices of blocks of the file that are no holes
  Sizes      \* and of its size

Blocks == 0 .. DIRECT + B + B * B - 1    \* the logical blocks of a file
Single == DIRECT .. DIRECT + B - 1       \* those behind the indirect block
Double(i) == {DIRECT + B + i * B + k : k \in 0 .. B - 1}

Ptr(n) == [ptr |-> n]
FileData(l) == [u |-> [k \in 1 .. B |-> [byte |-> l * B + k]]]
NoData == [u |-> [k \in 1 .. B |-> Zero]]
Entry(ino, old, name) ==
  [u |-> <<[inode |-> ino, old |-> old, rec_len |-> 2], [name |-> name]>>]
Inode(mode, size, b0, b1, b2) ==
  [mode |-> mode, size |-> size, block |-> [i \in 0 .. 2 |-> <<b0, b1, b2>>[i + 1]]]

\* The block at f if the file has a block in the range, else no pointer.
If(f, present, range) == IF present \cap range = {} THEN 0 ELSE f

\* The blocks of the file start at 10, its pointer blocks at 17.
FileBlock(present, l) == If(10 + l, present, {l})
Image(uuid, present, size) ==
  [b \in 0 .. 20 |->
     CASE b = 1 -> [u |-> <<[magic |-> EXT2_SUPER_MAGIC, uuid |-> uuid, first_data_block |-> 1, ipg |-> 2, groups |-> 2], Zero>>]
       [] b = 2 -> [u |-> <<[inode_table |-> 3], [inode_table |-> 4]>>]
       [] b = 3 -> [u |-> <<Zero, Inode("dir", 6, 5, 6, 0)>>]
       [] b = 4 -> [u |-> <<Inode("dir", 2, 9, 0, 0),
                            Inode("file", size, FileBlock(present, 0), If(17, present, Single),
                                  If(18, present, Double(0) \cup Double(1)))>>]
       [] b = 5 -> Entry(0, 4, "old")
       [] b = 6 -> [u |-> <<Ptr(7), Ptr(8)>>]
       [] b = 7 -> Entry(3, 3, "bin")
       [] b = 8 -> Entry(4, 4, "f")
       [] b = 9 -> Entry(3, 3, ".")
       [] b \in 10 .. 16 -> FileData(b - 10)
       [] b = 17 -> [u |-> <<Ptr(FileBlock(present, 1)), Ptr(FileBlock(present, 2))>>]
       [] b = 18 -> [u |-> [i \in 1 .. B |-> Ptr(If(18 + i, present, Double(i - 1)))]]
       [] b \in 19 .. 20 -> [u |-> [k \in 1 .. B |-> Ptr(FileBlock(present, 2 * b - 36 + k))]]
       [] OTHER -> NoData]

Table(first) == [table |-> [k \in DOMAIN first |-> [first |-> first[k], sectors |-> first[k]]]]
OnDisk(first, whole, image) ==
  [a \in 0 .. first + 20 |->
     IF a = 0 THEN IF first = 0 THEN NoData ELSE Table(<<first, first + 1>>)
     ELSE IF a >= first THEN image[a - first] ELSE whole[a]]
SecondDisk == [a \in 0 .. 3 |-> IF a = 0 THEN Table(<<0, 2>>) ELSE FileData(a)]

\* A file system that starts with a partition table has no file without its
\* pointer blocks: the driver would take the table for them.
ImageInit ==
  /\ Ext2Init
  /\ \E present \in Presents, size \in Sizes, first \in {0, 1, 21} :
     /\ first = 21 => present \cap Single # {}
     /\ disk = [d \in {"sda", "sdb"} |->
                 IF d = "sdb" THEN SecondDisk
                 ELSE OnDisk(first, Image(1, present, size), Image(2, present, size))]
  /\ TablesOnDisks

-----------------------------------------------------------------------------
(* The file system meant.                                                  *)

Shift == IF ext2.dev_name[2] = 0 THEN 0 ELSE disk["sda"][0].table[1].first
FileInode == disk["sda"][4 + Shift].u[2]
FileSize == FileInode.size
\* The blocks of the file that are no holes, by the pointers on the disk.
Held(l) ==
  LET At(b) == disk["sda"][b + Shift].u IN
  CASE l < DIRECT -> FileInode.block[0] # 0
    [] l \in Single -> FileInode.block[1] # 0 /\ At(17)[l].ptr # 0
    [] OTHER -> /\ FileInode.block[2] # 0
                /\ \E b \in 19 .. 20, k \in 1 .. B : At(b)[k].ptr = 10 + l
Meant == [k \in 1 .. FileSize |-> IF Held((k - 1) \div B) THEN [byte |-> k] ELSE Zero]
\* Whether a pointer block of the file fails in the call.
PointersLost == call.bad \cap {b + Shift : b \in 17 .. 20} # {}
Listings == [p \in {<<>>, <<"bin">>} |->
               IF p = <<>> THEN <<[inode |-> 3, name |-> "bin"], [inode |-> 4, name |-> "f"]>>
               ELSE <<[inode |-> 3, name |-> "."]>>]
Exists(path) == path \in {<<>>, <<"bin">>, <<"f">>, <<"bin", ".", "..", "f">>}

Ext2TypeOK ==
  /\ stage \in {"ahci", "none", "parts", "mount", "mount1", "up"}
  /\ Len(devices) <= BLOCKDEV_MAX /\ Len(parts) <= PART_MAX
  /\ ext2.mounted \in BOOLEAN /\ call.ok \in BOOLEAN

\* What ext2_read_file returns is the beginning of the file, holes read as
\* zeros, and all that was asked for unless a block could not be read.  The
\* blocks behind a pointer block that cannot be read are zeros as well.
\* Look-ups and listings never invent: no deleted entry comes back and nothing
\* exists or is listed that does not; without a failing block nothing is missed.
AnswersFaithful ==
  /\ call.op \in {"exists", "read"} /\ call.ok => Exists(call.path)
  /\ call.op = "read" /\ call.ok =>
       \A k \in DOMAIN call.ret :
         k <= FileSize /\ call.ret[k] \in {Meant[k]} \cup (IF PointersLost THEN {Zero} ELSE {})
  /\ call.op = "list" /\ call.ok => IsPrefix(call.ret, Listings[call.path])
  /\ call.bad = {} =>
       /\ call.op = "read" /\ call.ok => Len(call.ret) \in {1, FileSize}
       /\ call.op = "exists" /\ ext2.mounted => call.ok = Exists(call.path)
       /\ call.op = "list" /\ call.path \in DOMAIN Listings => call.ret = Listings[call.path]
=============================================================================
