----------------------------- MODULE Partition -----------------------------
(***************************************************************************)
(* Block devices by name, kernel/src/drivers/blockdev.c, and the MBR       *)
(* partitions on them, kernel/src/fs/partition.c.  A name is the disk and  *)
(* a number: <<"sda", 0>> is the disk, <<"sda", 1>> its first partition.   *)
(* The unit of addresses is one block of 1 KiB.  A read yields <<>> for -1 *)
(* and <<block>> otherwise; which reads fail is decided call by call.      *)
(***************************************************************************)
EXTENDS Naturals, Sequences

CONSTANTS
  Disks,          \* the disks the AHCI ports may hold, in the order of the ports
  BLOCKDEV_MAX,   \* size of devices[]
  PART_MAX        \* size of parts[], 32 in the code

\* ahci_init counts the disks it names.
ASSUME PartitionAssumption ==
  /\ Disks \in Seq(STRING) /\ \A i, j \in DOMAIN Disks : Disks[i] = Disks[j] => i = j
  /\ BLOCKDEV_MAX \in Nat /\ PART_MAX \in Nat

VARIABLES
  disk,     \* the content of each disk: its blocks by address
  devices,  \* what is registered: name, dev_id and the read callback
  parts     \* the partitions found: parent, num, offset

partVars == <<disk, devices, parts>>

Content(d, lba, bad) == IF lba \in DOMAIN disk[d] /\ lba \notin bad THEN <<disk[d][lba]>> ELSE <<>>

blockdev_register(devs, name, dev_id, read) ==
  IF Len(devs) >= BLOCKDEV_MAX THEN devs
  ELSE Append(devs, [name |-> name, dev_id |-> dev_id, read |-> read])

\* The first of these indices, 0 if there is none.
Earliest(S) == IF S = {} THEN 0 ELSE CHOOSE i \in S : \A j \in S : i <= j

blockdev_get(name) == Earliest({i \in DOMAIN devices : devices[i].name = name})

\* Where part_read_cb goes on reading: the parent, at the partition's offset.
part_read_cb(at) ==
  LET i == blockdev_get(at.name)
      id == devices[i].dev_id IN
  IF i # 0 /\ devices[i].read = "part_read_cb" /\ id <= Len(parts)
  THEN [name |-> parts[id].parent, lba |-> parts[id].offset + at.lba]
  ELSE at

\* Through the callbacks of the partitions down to a disk.
Underneath(name, lba) ==
  LET at[k \in 0 .. Len(parts)] ==
        IF k = 0 THEN [name |-> name, lba |-> lba] ELSE part_read_cb(at[k - 1])
  IN at[Len(parts)]

ReadAt(at, bad) ==
  LET i == blockdev_get(at.name) IN
  IF i # 0 /\ devices[i].read = "ahci_read_sectors" THEN Content(devices[i].dev_id, at.lba, bad)
  ELSE <<>>
blockdev_read(name, lba, bad) == ReadAt(Underneath(name, lba), bad)

part_name(p) == <<p.parent[1], p.num>>

\* By the table of partitions first, else as a device of that name.
partition_read_sectors(name, lba, bad) ==
  LET i == Earliest({k \in DOMAIN parts : part_name(parts[k]) = name}) IN
  blockdev_read(IF i = 0 THEN name ELSE parts[i].parent,
                IF i = 0 THEN lba ELSE parts[i].offset + lba, bad)

-----------------------------------------------------------------------------
\* A port of ahci_init, which registers a disk if it comes up, and all of them.
PortUp(devs, d, found) ==
  IF d \in found THEN blockdev_register(devs, <<d, 0>>, d, "ahci_read_sectors") ELSE devs
RegisterDisks(found) ==
  LET devs[k \in 0 .. Len(Disks)] == IF k = 0 THEN <<>> ELSE PortUp(devs[k - 1], Disks[k], found)
  IN devs[Len(Disks)]

\* Fault: the device gets its own number, not that of the partition.
AddPartitionOwnId(s, name, num, entry) ==
  IF entry.sectors = 0 \/ Len(s.parts) >= PART_MAX THEN s
  ELSE [devices |-> blockdev_register(s.devices, <<name[1], num>>, Len(s.devices), "part_read_cb"),
        parts |-> Append(s.parts, [parent |-> name, num |-> num, offset |-> entry.first])]

\* One entry of the table: the number of a partition counts the empty ones, its
\* dev_id does not, and a full devices[] is not noticed.
AddPartition(s, name, num, entry) ==
  IF entry.sectors = 0 \/ Len(s.parts) >= PART_MAX THEN s
  ELSE [devices |-> blockdev_register(s.devices, <<name[1], num>>, Len(s.parts) + 1, "part_read_cb"),
        parts |-> Append(s.parts, [parent |-> name, num |-> num, offset |-> entry.first])]

\* The entries of the table on the device of that name, one after the other.
AddTable(s, name, table) ==
  LET t[num \in 0 .. Len(table)] ==
        IF num = 0 THEN s ELSE AddPartition(t[num - 1], name, num, table[num])
  IN t[Len(table)]

\* One device; lost are those whose sector 0 cannot be read or for whose table
\* there is no memory.
ScanDevice(s, d, lost) ==
  LET mbr == blockdev_read(d.name, 0, {}) IN
  IF d.name[1] \in lost \/ mbr = <<>> \/ "table" \notin DOMAIN mbr[1] THEN s
  ELSE AddTable(s, d.name, mbr[1].table)

\* The devices registered so far, in order.
ScanDevices(lost) ==
  LET s[d \in 0 .. Len(devices)] ==
        IF d = 0 THEN [devices |-> devices, parts |-> <<>>]
        ELSE ScanDevice(s[d - 1], devices[d], lost)
  IN s[Len(devices)]
partition_init(lost) ==
  LET end == ScanDevices(lost) IN devices' = end.devices /\ parts' = end.parts

\* What is read at lba of a partition that is registered as a device, through
\* its callback and by its name, is what the disk has at lba from the first
\* block on that its table says.
AgreeAt(lba) ==
  \A i \in DOMAIN devices : devices[i].read = "part_read_cb" =>
    LET name == devices[i].name
        first == disk[name[1]][0].table[name[2]].first IN
    /\ blockdev_read(name, lba, {}) = Content(name[1], first + lba, {})
    /\ partition_read_sectors(name, lba, {}) = blockdev_read(name, lba, {})

\* A partition that is registered as a device reads the same blocks through its
\* callback, with dev_id as the index into parts[], as by its name: those of the
\* disk from the partition's own first block on, also when earlier entries were
\* empty, a disk before it was skipped, or a table is full.
PartitionsAgree == \A lba \in 0 .. 1 : AgreeAt(lba)
=============================================================================
