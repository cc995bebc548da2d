------------------------------- MODULE Mount -------------------------------
(***************************************************************************)
(* The boot from the disks to the mounted file system: ahci_init's devices,*)
(* partition_init and ext2_mount of kernel/src/fs/ext2.c, in the order of  *)
(* kernel/src/main.c.  Each call meets a set of blocks, bad, that it cannot*)
(* read or has no memory for.                                              *)
(***************************************************************************)
EXTENDS Partition

CONSTANT Faults  \* the sets of blocks that may fail together

EXT2_SUPER_MAGIC == "EF53"

VARIABLES
  stage,   \* how far the boot has come
  ext2     \* the mount: dev_name, sb, bgd, mounted

mountVars == <<disk, devices, parts, stage, ext2>>

NoSuper == [magic |-> "none", uuid |-> 0, first_data_block |-> 0, ipg |-> 1, groups |-> 0]

\* The superblock is copied before its magic is looked at.
ext2_read_superblock(dev, bad) ==
  LET super == partition_read_sectors(dev, 1, bad) IN
  IF super = <<>> THEN [sb |-> ext2.sb, ok |-> FALSE]
  ELSE IF "magic" \in DOMAIN super[1].u[1] THEN [sb |-> super[1].u[1], ok |-> TRUE]
  ELSE [sb |-> NoSuper, ok |-> FALSE]

\* Fault: an old superblock passes for a new one.
ext2_mountStale(dev, bad) ==
  LET sb == ext2_read_superblock(dev, bad).sb
      ok == sb.magic = EXT2_SUPER_MAGIC
      bgd == partition_read_sectors(dev, sb.first_data_block + 1, bad) IN
  /\ ~ext2.mounted
  /\ ext2' = [dev_name |-> dev, sb |-> sb, mounted |-> ok /\ bgd # <<>>,
              bgd |-> IF ~ok THEN ext2.bgd ELSE IF bgd = <<>> THEN <<>> ELSE bgd[1].u]

\* A descriptor table that cannot be read is dropped again.
ext2_mount(dev, bad) ==
  LET super == ext2_read_superblock(dev, bad)
      bgd == partition_read_sectors(dev, super.sb.first_data_block + 1, bad) IN
  /\ ~ext2.mounted
  /\ ext2' = [dev_name |-> dev, sb |-> super.sb, mounted |-> super.ok /\ bgd # <<>>,
              bgd |-> IF ~super.ok THEN ext2.bgd ELSE IF bgd = <<>> THEN <<>> ELSE bgd[1].u]

-----------------------------------------------------------------------------
DiskNames == {Disks[i] : i \in DOMAIN Disks}

BootAhci ==
  /\ stage = "ahci"
  /\ \E found \in SUBSET DiskNames :
       /\ devices' = RegisterDisks(found)
       /\ stage' = IF found = {} THEN "none" ELSE "parts"
  /\ UNCHANGED <<disk, parts, ext2>>
BootPartitions ==
  /\ stage = "parts" /\ stage' = "mount"
  /\ \E lost \in SUBSET DiskNames : partition_init(lost)
  /\ UNCHANGED <<disk, ext2>>
\* sda first, then sda1; then two directories are listed.
BootMount(dev, bad) ==
  /\ stage = (IF dev[2] = 0 THEN "mount" ELSE "mount1")
  /\ ext2_mount(dev, bad)
  /\ stage' = IF dev[2] = 0 /\ ~ext2'.mounted THEN "mount1" ELSE "up"
  /\ UNCHANGED <<disk, devices, parts>>

MountInit ==
  /\ devices = <<>> /\ parts = <<>> /\ stage = "ahci"
  /\ ext2 = [dev_name |-> <<"none", 0>>, sb |-> NoSuper, bgd |-> <<>>, mounted |-> FALSE]

MountNext ==
  \/ BootAhci \/ BootPartitions
  \/ \E bad \in Faults, num \in 0 .. 1 : BootMount(<<"sda", num>>, bad)

\* A table that is on a disk is one of partitions.
TablesOnDisks ==
  \A d \in DiskNames : 0 \in DOMAIN disk[d] /\ "table" \in DOMAIN disk[d][0] =>
    disk[d][0].table \in Seq([first : Nat, sectors : Nat])

MountSpec == MountInit /\ TablesOnDisks /\ [][MountNext]_mountVars

\* What is mounted is one file system: superblock and group descriptors are
\* those of the device in dev_name, although a mount of the whole disk that
\* failed half-way has left its own behind.
MountConsistent ==
  ext2.mounted =>
    LET super == partition_read_sectors(ext2.dev_name, 1, {})
        bgd == partition_read_sectors(ext2.dev_name, ext2.sb.first_data_block + 1, {}) IN
    /\ super # <<>> /\ ext2.sb = super[1].u[1]
    /\ bgd # <<>> /\ ext2.bgd = bgd[1].u
=============================================================================
