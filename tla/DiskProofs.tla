----------------------------- MODULE DiskProofs -----------------------------
(***************************************************************************)
(* Proofs about the disks: what the tables of block devices and partitions *)
(* hold after the boot, and what is mounted, for any disks, any contents of*)
(* them and any sizes of the tables.                                       *)
(***************************************************************************)
EXTENDS Mount, LoopProofs, SequenceTheorems

USE Zenon

DeviceType == [name : STRING \X Nat, dev_id : STRING \cup Nat,
               read : {"ahci_read_sectors", "part_read_cb"}]
PartType == [parent : STRING \X {0}, num : Nat \ {0}, offset : Nat]
EntryType == [first : Nat, sectors : Nat]

\* The two tables while partition_init fills them.
BothTables == [devices : Seq(DeviceType), parts : Seq(PartType)]

\* The device of a disk, that of a partition, and a partition of a disk that is
\* registered, as the table of the disk has it.
DiskDevice(d) == d.read = "ahci_read_sectors" /\ d.dev_id \in DiskNames /\ d.name = <<d.dev_id, 0>>
PartDevice(d, ps) ==
  d.read = "part_read_cb" /\ d.dev_id \in DOMAIN ps /\ d.name = part_name(ps[d.dev_id])
Described(p, devs) ==
  \E i \in DOMAIN devs : /\ DiskDevice(devs[i]) /\ p.parent = devs[i].name
                          /\ p.offset = disk[devs[i].dev_id][0].table[p.num].first

\* What is in the two tables, under names that differ.
TablesOK(devs, ps) ==
  /\ devs \in Seq(DeviceType) /\ ps \in Seq(PartType)
  /\ \A i \in DOMAIN devs : DiskDevice(devs[i]) \/ PartDevice(devs[i], ps)
  /\ \A i, j \in DOMAIN devs : devs[i].name = devs[j].name => i = j
  /\ \A k \in DOMAIN ps : Described(ps[k], devs)
  /\ \A k, l \in DOMAIN ps : part_name(ps[k]) = part_name(ps[l]) => k = l

\* Where a read arrives on its way to a disk.
Places == [name : STRING \X Nat, lba : Nat]

-----------------------------------------------------------------------------
(* The loops of the boot.                                                  *)

\* blockdev_register keeps a list of devices.
LEMMA Registered ==
  ASSUME NEW devs \in Seq(DeviceType), NEW name \in STRING \X Nat, NEW id \in STRING \cup Nat,
         NEW read \in {"ahci_read_sectors", "part_read_cb"}
  PROVE  blockdev_register(devs, name, id, read) \in Seq(DeviceType)
  <1>1. [name |-> name, dev_id |-> id, read |-> read] \in DeviceType
    BY DEF DeviceType
  <1>2. Append(devs, [name |-> name, dev_id |-> id, read |-> read]) \in Seq(DeviceType)
    BY <1>1, AppendProperties
  <1>3. QED
    BY <1>2 DEF blockdev_register

\* f has the lists of devices through which ahci_init goes, one for each port.
Registers(f, found) ==
  /\ f \in [0 .. Len(Disks) -> Seq(DeviceType)] /\ f[0] = <<>>
  /\ \A k \in 0 .. Len(Disks) - 1 : f[k + 1] = PortUp(f[k], Disks[k + 1], found)

\* RegisterDisks is the last of them.
LEMMA DisksRegistered ==
  ASSUME NEW found
  PROVE  \E f : Registers(f, found) /\ RegisterDisks(found) = f[Len(Disks)]
  <1> DEFINE n == Len(Disks)
             m == <<>>
             g == [j \in 0 .. n - 1 |-> [x \in Seq(DeviceType) |-> PortUp(x, Disks[j + 1], found)]]
             P(f) == f = [k \in 0 .. n |-> IF k = 0 THEN m ELSE PortUp(f[k - 1], Disks[k], found)]
             at == CHOOSE f : P(f)
  <1>1. n \in Nat /\ 0 \in Nat /\ 0 <= n
    BY SMT, PartitionAssumption
  <1>2. m \in Seq(DeviceType)
    BY EmptySeq
  <1>3. \A j \in 0 .. n - 1, x \in Seq(DeviceType) : PortUp(x, Disks[j + 1], found) \in Seq(DeviceType)
    <2>1. \A j \in 0 .. n - 1 : Disks[j + 1] \in STRING
      BY SMT, <1>1, PartitionAssumption
    <2>2. 0 \in Nat
      BY SMT
    <2> HIDE DEF n
    <2>3. QED
      BY <2>1, <2>2, Registered DEF PortUp
  <1>4. RegisterDisks(found) = at[n]
    BY DEF RegisterDisks
  <1> HIDE DEF n, m
  <1>5. PICK h \in [0 .. n -> Seq(DeviceType)] : Unrolls(h, g, m, 0, n)
    <2>1. g \in [0 .. n - 1 -> [Seq(DeviceType) -> Seq(DeviceType)]]
      BY <1>3
    <2> HIDE DEF g
    <2>2. QED
      BY <1>1, <1>2, <2>1, Unrolled
  <1>6. P(h)
    <2>1. ASSUME NEW k \in 0 .. n, k # 0 PROVE h[k] = PortUp(h[k - 1], Disks[k], found)
      <3>1. k - 1 \in 0 .. n - 1 /\ (k - 1) + 1 = k /\ k - 1 \in 0 .. n
        BY SMT, <1>1, <2>1
      <3>2. h[k] = g[k - 1][h[k - 1]] /\ h[k - 1] \in Seq(DeviceType)
        BY <1>5, <2>1, <3>1 DEF Unrolls
      <3>3. g[k - 1][h[k - 1]] = PortUp(h[k - 1], Disks[(k - 1) + 1], found)
        BY <3>1, <3>2
      <3>4. QED
        BY <3>1, <3>2, <3>3
    <2>2. 0 \in 0 .. n => h[0] = m
      BY <1>5 DEF Unrolls
    <2>3. h = [k \in 0 .. n |-> h[k]]
      OBVIOUS
    <2>4. QED
      BY <2>1, <2>2, <2>3
  <1> HIDE DEF P
  <1>7. P(at)
    BY <1>6
  <1> HIDE DEF at
  <1>8. at[0] = m /\ \A k \in 0 .. n - 1 : at[k + 1] = PortUp(at[k], Disks[k + 1], found)
    <2>1. 0 \in 0 .. n /\ \A k \in 0 .. n - 1 : k + 1 \in 0 .. n /\ k + 1 # 0 /\ (k + 1) - 1 = k
      BY SMT, <1>1
    <2>2. \A k \in 0 .. n : at[k] = IF k = 0 THEN m ELSE PortUp(at[k - 1], Disks[k], found)
      BY <1>7 DEF P
    <2>3. QED
      BY <2>1, <2>2
  <1>9. at \in [0 .. n -> Seq(DeviceType)]
    <2>1. at[0] \in Seq(DeviceType) /\ \A k \in 0 .. n - 1 : at[k] \in Seq(DeviceType) => at[k + 1] \in Seq(DeviceType)
      BY <1>2, <1>3, <1>8
    <2>2. \A k \in 0 .. n : at[k] \in Seq(DeviceType)
      BY <1>1, <2>1, StaysIn
    <2>3. at = [k \in 0 .. n |-> at[k]]
      BY <1>7 DEF P
    <2>4. QED
      BY <2>2, <2>3
  <1>10. QED
    BY <1>4, <1>8, <1>9 DEF n, m, Registers

\* An entry of a partition table adds to the two tables, or leaves them.
LEMMA AddTyped ==
  ASSUME NEW s \in BothTables, NEW name \in STRING \X {0}, NEW num \in Nat \ {0}, NEW entry \in EntryType
  PROVE  AddPartition(s, name, num, entry) \in BothTables
  <1>1. s.devices \in Seq(DeviceType) /\ s.parts \in Seq(PartType)
    BY DEF BothTables
  <1>2. Len(s.parts) + 1 \in STRING \cup Nat
    BY SMT, <1>1
  <1>3. name[1] \in STRING /\ num \in Nat /\ <<name[1], num>> \in STRING \X Nat
    OBVIOUS
  <1>4. [parent |-> name, num |-> num, offset |-> entry.first] \in PartType
    BY DEF PartType, EntryType
  <1>5. Append(s.parts, [parent |-> name, num |-> num, offset |-> entry.first]) \in Seq(PartType)
    BY <1>1, <1>4, AppendProperties
  <1>6. blockdev_register(s.devices, <<name[1], num>>, Len(s.parts) + 1, "part_read_cb") \in Seq(DeviceType)
    BY <1>1, <1>2, <1>3, Registered
  <1>7. QED
    BY <1>5, <1>6 DEF AddPartition, BothTables

\* f has the tables through which the loop over a partition table goes, one for
\* each entry.
Adds(f, s, name, table) ==
  /\ f \in [0 .. Len(table) -> BothTables] /\ f[0] = s
  /\ \A k \in 0 .. Len(table) - 1 : f[k + 1] = AddPartition(f[k], name, k + 1, table[k + 1])

\* AddTable is the last of them.
LEMMA TableAdded ==
  ASSUME NEW s \in BothTables, NEW name \in STRING \X {0}, NEW table \in Seq(EntryType)
  PROVE  \E f : Adds(f, s, name, table) /\ AddTable(s, name, table) = f[Len(table)]
  <1> DEFINE n == Len(table)
             m == s
             g == [j \in 0 .. n - 1 |-> [x \in BothTables |-> AddPartition(x, name, j + 1, table[j + 1])]]
             P(f) == f = [k \in 0 .. n |-> IF k = 0 THEN m ELSE AddPartition(f[k - 1], name, k, table[k])]
             at == CHOOSE f : P(f)
  <1>1. n \in Nat /\ 0 \in Nat /\ 0 <= n
    BY SMT
  <1>2. m \in BothTables
    OBVIOUS
  <1>3. \A j \in 0 .. n - 1, x \in BothTables : AddPartition(x, name, j + 1, table[j + 1]) \in BothTables
    <2>1. \A j \in 0 .. n - 1 : j + 1 \in Nat \ {0} /\ table[j + 1] \in EntryType
      BY SMT, <1>1
    <2> HIDE DEF n
    <2>2. QED
      BY <2>1, AddTyped
  <1>4. AddTable(s, name, table) = at[n]
    BY DEF AddTable
  <1> HIDE DEF n, m
  <1>5. PICK h \in [0 .. n -> BothTables] : Unrolls(h, g, m, 0, n)
    <2>1. g \in [0 .. n - 1 -> [BothTables -> BothTables]]
      BY <1>3
    <2> HIDE DEF g
    <2>2. QED
      BY <1>1, <1>2, <2>1, Unrolled
  <1>6. P(h)
    <2>1. ASSUME NEW k \in 0 .. n, k # 0 PROVE h[k] = AddPartition(h[k - 1], name, k, table[k])
      <3>1. k - 1 \in 0 .. n - 1 /\ (k - 1) + 1 = k /\ k - 1 \in 0 .. n
        BY SMT, <1>1, <2>1
      <3>2. h[k] = g[k - 1][h[k - 1]] /\ h[k - 1] \in BothTables
        BY <1>5, <2>1, <3>1 DEF Unrolls
      <3>3. g[k - 1][h[k - 1]] = AddPartition(h[k - 1], name, (k - 1) + 1, table[(k - 1) + 1])
        BY <3>1, <3>2
      <3>4. QED
        BY <3>1, <3>2, <3>3
    <2>2. 0 \in 0 .. n => h[0] = m
      BY <1>5 DEF Unrolls
    <2>3. h = [k \in 0 .. n |-> h[k]]
      OBVIOUS
    <2>4. QED
      BY <2>1, <2>2, <2>3
  <1> HIDE DEF P
  <1>7. P(at)
    BY <1>6
  <1> HIDE DEF at
  <1>8. at[0] = m /\ \A k \in 0 .. n - 1 : at[k + 1] = AddPartition(at[k], name, k + 1, table[k + 1])
    <2>1. 0 \in 0 .. n /\ \A k \in 0 .. n - 1 : k + 1 \in 0 .. n /\ k + 1 # 0 /\ (k + 1) - 1 = k
      BY SMT, <1>1
    <2>2. \A k \in 0 .. n : at[k] = IF k = 0 THEN m ELSE AddPartition(at[k - 1], name, k, table[k])
      BY <1>7 DEF P
    <2>3. QED
      BY <2>1, <2>2
  <1>9. at \in [0 .. n -> BothTables]
    <2>1. at[0] \in BothTables /\ \A k \in 0 .. n - 1 : at[k] \in BothTables => at[k + 1] \in BothTables
      BY <1>2, <1>3, <1>8
    <2>2. \A k \in 0 .. n : at[k] \in BothTables
      BY <1>1, <2>1, StaysIn
    <2>3. at = [k \in 0 .. n |-> at[k]]
      BY <1>7 DEF P
    <2>4. QED
      BY <2>2, <2>3
  <1>10. QED
    BY <1>4, <1>8, <1>9 DEF n, m, Adds

-----------------------------------------------------------------------------
(* Reads.                                                                  *)

\* The first of a set of indices is 0 or one of them, and the only one if there
\* is one only.
LEMMA EarliestIs ==
  ASSUME NEW S \in SUBSET (Nat \ {0})
  PROVE  /\ Earliest(S) = 0 <=> S = {}
         /\ Earliest(S) # 0 => Earliest(S) \in S
         /\ \A i \in S : S \subseteq {i} => Earliest(S) = i
  <1>1. CASE S = {}
    BY <1>1 DEF Earliest
  <1>2. CASE S # {}
    <2>1. S \in SUBSET Nat
      OBVIOUS
    <2>2. \E x \in S : \A y \in S : x <= y
      BY <1>2, <2>1, LeastNatural
    <2>3. Earliest(S) \in S
      BY <1>2, <2>2 DEF Earliest
    <2>4. QED
      BY <1>2, <2>3
  <1>3. QED
    BY <1>1, <1>2

\* blockdev_get finds a device of that name, if there is one.
LEMMA GetFinds ==
  ASSUME TablesOK(devices, parts), NEW name
  PROVE  /\ blockdev_get(name) # 0 =>
              blockdev_get(name) \in DOMAIN devices /\ devices[blockdev_get(name)].name = name
         /\ \A i \in DOMAIN devices : devices[i].name = name => blockdev_get(name) = i
  <1> DEFINE S == {i \in DOMAIN devices : devices[i].name = name}
  <1>1. DOMAIN devices \in SUBSET (Nat \ {0})
    BY SMT DEF TablesOK
  <1>2. S \in SUBSET (Nat \ {0}) /\ blockdev_get(name) = Earliest(S)
    BY <1>1 DEF blockdev_get
  <1>3. \A i : i \in S <=> i \in DOMAIN devices /\ devices[i].name = name
    OBVIOUS
  <1> HIDE DEF S
  <1>4. Earliest(S) # 0 => Earliest(S) \in S
    BY <1>2, EarliestIs
  <1>5. \A i \in S : S \subseteq {i} => Earliest(S) = i
    BY <1>2, EarliestIs
  <1>6. \A i \in S : S \subseteq {i}
    BY <1>3 DEF TablesOK
  <1>7. QED
    BY <1>2, <1>3, <1>4, <1>5, <1>6

\* A step to the parent leads from a place to a place.
LEMMA PlaceStep ==
  ASSUME TablesOK(devices, parts), NEW at \in Places
  PROVE  part_read_cb(at) \in Places
  <1> DEFINE i == blockdev_get(at.name)
             id == devices[i].dev_id
  <1>1. CASE i # 0 /\ devices[i].read = "part_read_cb" /\ id <= Len(parts)
    <2>1. id \in DOMAIN parts
      <3>1. i \in DOMAIN devices
        BY <1>1, GetFinds
      <3>2. DiskDevice(devices[i]) \/ PartDevice(devices[i], parts)
        BY <3>1 DEF TablesOK
      <3>3. QED
        BY <1>1, <3>2 DEF DiskDevice, PartDevice
    <2>2. parts[id] \in PartType
      BY SMT, <2>1 DEF TablesOK
    <2>3. parts[id].parent \in STRING \X {0} /\ parts[id].offset \in Nat /\ at.lba \in Nat
      BY <2>2 DEF PartType, Places
    <2>4. parts[id].parent \in STRING \X Nat /\ parts[id].offset + at.lba \in Nat
      <3>1. parts[id].offset + at.lba \in Nat /\ 0 \in Nat
        BY SMT, <2>3
      <3>2. QED
        BY <2>3, <3>1
    <2>5. [name |-> parts[id].parent, lba |-> parts[id].offset + at.lba] \in Places
      BY <2>4 DEF Places
    <2>6. QED
      BY <2>5 DEF part_read_cb
  <1>2. QED
    BY <1>1 DEF part_read_cb

\* f has the places through which a read goes from device to device.
Descends(f, name, lba) ==
  /\ f \in [0 .. Len(parts) -> Places] /\ f[0] = [name |-> name, lba |-> lba]
  /\ \A k \in 0 .. Len(parts) - 1 : f[k + 1] = part_read_cb(f[k])

\* Underneath is the last of them.
LEMMA PlacesRun ==
  ASSUME TablesOK(devices, parts), NEW name \in STRING \X Nat, NEW lba \in Nat
  PROVE  \E f : Descends(f, name, lba) /\ Underneath(name, lba) = f[Len(parts)]
  <1> DEFINE n == Len(parts)
             m == [name |-> name, lba |-> lba]
             g == [j \in 0 .. n - 1 |-> [x \in Places |-> part_read_cb(x)]]
             P(f) == f = [k \in 0 .. n |-> IF k = 0 THEN m ELSE part_read_cb(f[k - 1])]
             at == CHOOSE f : P(f)
  <1>1. n \in Nat /\ 0 \in Nat /\ 0 <= n
    BY SMT DEF TablesOK
  <1>2. m \in Places
    BY DEF Places
  <1>3. \A j \in 0 .. n - 1, x \in Places : part_read_cb(x) \in Places
    BY PlaceStep
  <1>4. Underneath(name, lba) = at[n]
    BY DEF Underneath
  <1> HIDE DEF n, m
  <1>5. PICK h \in [0 .. n -> Places] : Unrolls(h, g, m, 0, n)
    <2>1. g \in [0 .. n - 1 -> [Places -> Places]]
      BY <1>3
    <2> HIDE DEF g
    <2>2. QED
      BY <1>1, <1>2, <2>1, Unrolled
  <1>6. P(h)
    <2>1. ASSUME NEW k \in 0 .. n, k # 0 PROVE h[k] = part_read_cb(h[k - 1])
      <3>1. k - 1 \in 0 .. n - 1 /\ (k - 1) + 1 = k /\ k - 1 \in 0 .. n
        BY SMT, <1>1, <2>1
      <3>2. h[k] = g[k - 1][h[k - 1]] /\ h[k - 1] \in Places
        BY <1>5, <2>1, <3>1 DEF Unrolls
      <3>3. g[k - 1][h[k - 1]] = part_read_cb(h[k - 1])
        BY <3>1, <3>2
      <3>4. QED
        BY <3>1, <3>2, <3>3
    <2>2. 0 \in 0 .. n => h[0] = m
      BY <1>5 DEF Unrolls
    <2>3. h = [k \in 0 .. n |-> h[k]]
      OBVIOUS
    <2>4. QED
      BY <2>1, <2>2, <2>3
  <1> HIDE DEF P
  <1>7. P(at)
    BY <1>6
  <1> HIDE DEF at
  <1>8. at[0] = m /\ \A k \in 0 .. n - 1 : at[k + 1] = part_read_cb(at[k])
    <2>1. 0 \in 0 .. n /\ \A k \in 0 .. n - 1 : k + 1 \in 0 .. n /\ k + 1 # 0 /\ (k + 1) - 1 = k
      BY SMT, <1>1
    <2>2. \A k \in 0 .. n : at[k] = IF k = 0 THEN m ELSE part_read_cb(at[k - 1])
      BY <1>7 DEF P
    <2>3. QED
      BY <2>1, <2>2
  <1>9. at \in [0 .. n -> Places]
    <2>1. at[0] \in Places /\ \A k \in 0 .. n - 1 : at[k] \in Places => at[k + 1] \in Places
      BY <1>2, <1>3, <1>8
    <2>2. \A k \in 0 .. n : at[k] \in Places
      BY <1>1, <2>1, StaysIn
    <2>3. at = [k \in 0 .. n |-> at[k]]
      BY <1>7 DEF P
    <2>4. QED
      BY <2>2, <2>3
  <1>10. QED
    BY <1>4, <1>8, <1>9 DEF n, m, Descends

\* At the device of a disk a read has arrived.
LEMMA AtDisk ==
  ASSUME TablesOK(devices, parts), NEW i \in DOMAIN devices, DiskDevice(devices[i]), NEW lba \in Nat
  PROVE  LET at == [name |-> devices[i].name, lba |-> lba] IN
         /\ part_read_cb(at) = at
         /\ \A bad : ReadAt(at, bad) = Content(devices[i].dev_id, lba, bad)
  <1> DEFINE at == [name |-> devices[i].name, lba |-> lba]
  <1>1. blockdev_get(devices[i].name) = i
    BY GetFinds
  <1>2. i # 0
    BY SMT DEF TablesOK
  <1>3. devices[i].read = "ahci_read_sectors" /\ devices[i].read # "part_read_cb"
    BY DEF DiskDevice
  <1>4. at.name = devices[i].name /\ at.lba = lba
    OBVIOUS
  <1> HIDE DEF at
  <1>5. part_read_cb(at) = at /\ \A bad : ReadAt(at, bad) = Content(devices[i].dev_id, lba, bad)
    BY <1>1, <1>2, <1>3, <1>4 DEF part_read_cb, ReadAt
  <1>6. QED
    BY <1>5 DEF at

\* The callback of a disk's device reads the disk.
LEMMA DiskRead ==
  ASSUME TablesOK(devices, parts), NEW i \in DOMAIN devices, DiskDevice(devices[i]), NEW lba \in Nat
  PROVE  \A bad : blockdev_read(devices[i].name, lba, bad) = Content(devices[i].dev_id, lba, bad)
  <1> DEFINE name == devices[i].name
             at == [name |-> name, lba |-> lba]
             n == Len(parts)
  <1>1. devices[i] \in DeviceType /\ n \in Nat /\ 0 \in Nat /\ 0 <= n
    BY SMT DEF TablesOK
  <1>2. name \in STRING \X Nat
    BY <1>1 DEF DeviceType
  <1>3. part_read_cb(at) = at /\ \A bad : ReadAt(at, bad) = Content(devices[i].dev_id, lba, bad)
    BY AtDisk
  <1> HIDE DEF name
  <1>4. PICK f : Descends(f, name, lba) /\ Underneath(name, lba) = f[n]
    BY <1>2, PlacesRun
  <1> HIDE DEF at, n
  <1>5. \A k \in 0 .. n : f[k] \in {at}
    <2> DEFINE T == {at}
    <2>1. f[0] \in T /\ \A k \in 0 .. n - 1 : f[k] \in T => f[k + 1] \in T
      BY <1>3, <1>4 DEF Descends, at, n
    <2> HIDE DEF T
    <2>2. \A k \in 0 .. n : f[k] \in T
      BY <1>1, <2>1, StaysIn
    <2>3. QED
      BY <2>2 DEF T
  <1>6. n \in 0 .. n
    BY SMT, <1>1
  <1>7. Underneath(name, lba) = at
    BY <1>4, <1>5, <1>6
  <1>8. QED
    BY <1>3, <1>7 DEF blockdev_read, name

\* The callback of a partition's device reads the disk of the partition from the
\* partition's offset on.
LEMMA PartRead ==
  ASSUME TablesOK(devices, parts), NEW i \in DOMAIN devices, PartDevice(devices[i], parts),
         NEW d \in DOMAIN devices, DiskDevice(devices[d]),
         parts[devices[i].dev_id].parent = devices[d].name, NEW lba \in Nat
  PROVE  \A bad : blockdev_read(devices[i].name, lba, bad)
                    = Content(devices[d].dev_id, parts[devices[i].dev_id].offset + lba, bad)
  <1> DEFINE name == devices[i].name
             p == parts[devices[i].dev_id]
             at == [name |-> name, lba |-> lba]
             to == [name |-> devices[d].name, lba |-> p.offset + lba]
             n == Len(parts)
  <1>1. devices[i] \in DeviceType /\ devices[i].dev_id \in DOMAIN parts
    BY SMT DEF TablesOK, PartDevice
  <1>2. devices[i].dev_id \in 1 .. n /\ n \in Nat /\ n >= 1 /\ i # 0 /\ devices[i].dev_id <= n
    BY SMT, <1>1 DEF TablesOK
  <1>3. p \in PartType
    BY SMT, <1>1 DEF TablesOK
  <1>4. name \in STRING \X Nat /\ p.offset \in Nat
    BY <1>1, <1>3 DEF DeviceType, PartType
  <1>5. p.offset + lba \in Nat
    BY SMT, <1>4
  <1>6. part_read_cb(to) = to /\ \A bad : ReadAt(to, bad) = Content(devices[d].dev_id, p.offset + lba, bad)
    BY <1>5, AtDisk
  <1>7. part_read_cb(at) = to
    <2>1. blockdev_get(name) = i /\ devices[i].read = "part_read_cb"
      BY GetFinds DEF PartDevice
    <2>2. at.name = name /\ at.lba = lba
      OBVIOUS
    <2> HIDE DEF at, name
    <2>3. QED
      BY <1>2, <2>1, <2>2 DEF part_read_cb
  <1> HIDE DEF name
  <1>8. PICK f : Descends(f, name, lba) /\ Underneath(name, lba) = f[n]
    BY <1>4, PlacesRun
  <1> HIDE DEF at, to, n, p
  <1>9. \A k \in 1 .. n : f[k] \in {to}
    <2> DEFINE T == {to}
    <2>1. f[1] \in T
      <3>1. 0 \in 0 .. n - 1 /\ 0 + 1 = 1
        BY SMT, <1>2
      <3>2. QED
        BY <1>7, <1>8, <3>1 DEF Descends, at, n
    <2>2. \A k \in 1 .. n - 1 : f[k] \in T => f[k + 1] \in T
      <3>1. \A k \in 1 .. n - 1 : k \in 0 .. n - 1
        BY SMT, <1>2
      <3>2. QED
        BY <1>6, <1>8, <3>1 DEF Descends, n
    <2>3. 1 \in Nat /\ 1 <= n
      BY SMT, <1>2
    <2> HIDE DEF T
    <2>4. \A k \in 1 .. n : f[k] \in T
      BY <1>2, <2>1, <2>2, <2>3, StaysIn
    <2>5. QED
      BY <2>4 DEF T
  <1>10. n \in 1 .. n
    BY SMT, <1>2
  <1>11. Underneath(name, lba) = to
    BY <1>8, <1>9, <1>10
  <1>12. QED
    BY <1>6, <1>11 DEF blockdev_read, name, p

\* By its name a partition is read where its callback reads.
LEMMA NamedRead ==
  ASSUME TablesOK(devices, parts), NEW k \in DOMAIN parts, NEW lba, NEW bad
  PROVE  partition_read_sectors(part_name(parts[k]), lba, bad)
           = blockdev_read(parts[k].parent, parts[k].offset + lba, bad)
  <1> DEFINE name == part_name(parts[k])
             S == {j \in DOMAIN parts : part_name(parts[j]) = name}
  <1>1. DOMAIN parts \in SUBSET (Nat \ {0})
    BY SMT DEF TablesOK
  <1>2. S \in SUBSET (Nat \ {0}) /\ k \in S /\ S \subseteq {k}
    BY <1>1 DEF TablesOK
  <1>3. partition_read_sectors(name, lba, bad) =
          blockdev_read(IF Earliest(S) = 0 THEN name ELSE parts[Earliest(S)].parent,
                        IF Earliest(S) = 0 THEN lba ELSE parts[Earliest(S)].offset + lba, bad)
    BY DEF partition_read_sectors
  <1> HIDE DEF S
  <1>4. Earliest(S) = k
    BY <1>2, EarliestIs
  <1>5. k # 0
    BY <1>1
  <1>6. QED
    BY <1>3, <1>4, <1>5

\* What the tables hold makes partitions agree with their disks, at every block.
LEMMA TablesAgree ==
  ASSUME TablesOK(devices, parts), NEW lba \in Nat
  PROVE  AgreeAt(lba)
  <1> SUFFICES ASSUME NEW i \in DOMAIN devices, devices[i].read = "part_read_cb"
               PROVE  LET name == devices[i].name
                          first == disk[name[1]][0].table[name[2]].first IN
                      /\ blockdev_read(name, lba, {}) = Content(name[1], first + lba, {})
                      /\ partition_read_sectors(name, lba, {}) = blockdev_read(name, lba, {})
    BY DEF AgreeAt
  <1> DEFINE k == devices[i].dev_id
             p == parts[k]
  <1>1. PartDevice(devices[i], parts)
    BY DEF TablesOK, DiskDevice
  <1>2. k \in DOMAIN parts /\ devices[i].name = part_name(p)
    BY <1>1 DEF PartDevice
  <1>3. p \in PartType
    BY SMT, <1>2 DEF TablesOK
  <1>4. PICK d \in DOMAIN devices : /\ DiskDevice(devices[d]) /\ p.parent = devices[d].name
                                    /\ p.offset = disk[devices[d].dev_id][0].table[p.num].first
    BY <1>2 DEF TablesOK, Described
  <1> DEFINE id == devices[d].dev_id
  <1>5. p.parent = <<id, 0>>
    BY <1>4 DEF DiskDevice
  <1>6. p.parent[1] = id
    <2> HIDE DEF p, id
    <2>1. QED
      BY SMT, <1>5
  <1>7. devices[i].name[1] = id /\ devices[i].name[2] = p.num
    <2>1. devices[i].name = <<p.parent[1], p.num>>
      BY <1>2 DEF part_name
    <2> HIDE DEF p, id
    <2>2. QED
      BY SMT, <1>6, <2>1
  <1>8. p.offset \in Nat
    BY <1>3 DEF PartType
  <1>9. p.offset + lba \in Nat
    BY SMT, <1>8
  <1>10. blockdev_read(devices[i].name, lba, {}) = Content(id, p.offset + lba, {})
    <2>1. parts[devices[i].dev_id].parent = devices[d].name /\ DiskDevice(devices[d])
      BY <1>4
    <2>2. \A bad : blockdev_read(devices[i].name, lba, bad)
                    = Content(devices[d].dev_id, parts[devices[i].dev_id].offset + lba, bad)
      BY <1>1, <2>1, PartRead
    <2>3. QED
      BY <2>2
  <1>11. blockdev_read(devices[d].name, p.offset + lba, {}) = Content(id, p.offset + lba, {})
    BY <1>4, <1>9, DiskRead
  <1>12. partition_read_sectors(devices[i].name, lba, {}) = blockdev_read(p.parent, p.offset + lba, {})
    BY <1>2, NamedRead
  <1> HIDE DEF id, p, k
  <1>13. QED
    BY <1>4, <1>7, <1>10, <1>11, <1>12 DEF id

-----------------------------------------------------------------------------
(* How the tables are filled.                                              *)

\* What is appended is the last, and the others stay.
LEMMA Appended ==
  ASSUME NEW T, NEW s \in Seq(T), NEW e \in T
  PROVE  /\ Append(s, e) \in Seq(T) /\ Len(s) \in Nat /\ Len(s) + 1 \in DOMAIN Append(s, e)
         /\ Append(s, e)[Len(s) + 1] = e /\ Len(s) + 1 \notin DOMAIN s
         /\ \A i \in DOMAIN Append(s, e) : i \in DOMAIN s \/ i = Len(s) + 1
         /\ \A i \in DOMAIN s : i \in DOMAIN Append(s, e) /\ Append(s, e)[i] = s[i]
  <1>1. /\ Append(s, e) \in Seq(T) /\ Len(Append(s, e)) = Len(s) + 1
        /\ \A i \in 1 .. Len(s) : Append(s, e)[i] = s[i]
        /\ Append(s, e)[Len(s) + 1] = e
    BY SMT, AppendProperties
  <1>2. Len(s) \in Nat /\ DOMAIN s = 1 .. Len(s) /\ DOMAIN Append(s, e) = 1 .. Len(Append(s, e))
    BY SMT, <1>1
  <1>3. QED
    BY SMT, <1>1, <1>2

\* A list of devices of disks that differ.
DisksOK(devs) ==
  /\ devs \in Seq(DeviceType)
  /\ \A i \in DOMAIN devs : DiskDevice(devs[i])
  /\ \A i, j \in DOMAIN devs : devs[i].name = devs[j].name => i = j

\* A device of a disk that is in no entry so far.
LEMMA DiskAdded ==
  ASSUME NEW devs, DisksOK(devs), NEW d \in DiskNames, d \in STRING,
         \A i \in DOMAIN devs : devs[i].dev_id # d
  PROVE  LET e == [name |-> <<d, 0>>, dev_id |-> d, read |-> "ahci_read_sectors"] IN
         DisksOK(Append(devs, e)) /\ \A i \in DOMAIN Append(devs, e) : i \in DOMAIN devs \/ Append(devs, e)[i].dev_id = d
  <1> DEFINE e == [name |-> <<d, 0>>, dev_id |-> d, read |-> "ahci_read_sectors"]
             t == Append(devs, e)
             n == Len(devs) + 1
  <1>1. e \in DeviceType
    <2>1. 0 \in Nat
      BY SMT
    <2>2. QED
      BY <2>1 DEF DeviceType
  <1>2. DiskDevice(e) /\ e.dev_id = d /\ e.name = <<d, 0>>
    BY DEF DiskDevice
  <1> HIDE DEF e
  <1>3. /\ t \in Seq(DeviceType) /\ n \in DOMAIN t /\ t[n] = e
        /\ \A i \in DOMAIN t : i \in DOMAIN devs \/ i = n
        /\ \A i \in DOMAIN devs : i \in DOMAIN t /\ t[i] = devs[i]
    BY <1>1, Appended DEF DisksOK
  <1> HIDE DEF t, n
  <1>4. \A i \in DOMAIN t : DiskDevice(t[i])
    BY <1>2, <1>3 DEF DisksOK
  <1>5. \A i \in DOMAIN devs : devs[i].name # e.name
    <2>1. ASSUME NEW i \in DOMAIN devs PROVE devs[i].name # <<d, 0>>
      <3>1. devs[i].name = <<devs[i].dev_id, 0>>
        BY DEF DisksOK, DiskDevice
      <3>2. devs[i].dev_id # d
        OBVIOUS
      <3>3. QED
        BY SMT, <3>1, <3>2
    <2>2. QED
      BY <1>2, <2>1
  <1>6. \A i, j \in DOMAIN t : t[i].name = t[j].name => i = j
    BY ZenonT(40), <1>3, <1>5 DEF DisksOK
  <1>7. \A i \in DOMAIN t : i \in DOMAIN devs \/ t[i].dev_id = d
    BY <1>2, <1>3
  <1>8. QED
    BY <1>3, <1>4, <1>6, <1>7 DEF DisksOK, t, e

\* A list of devices whose disks are at the first k ports.
DisksUpTo(devs, k) ==
  DisksOK(devs) /\ \A i \in DOMAIN devs : \E j \in 1 .. k : devs[i].dev_id = Disks[j]

\* A port adds the device of its own disk, which no other has.
LEMMA PortAdds ==
  ASSUME NEW devs, NEW k \in 0 .. Len(Disks) - 1, DisksUpTo(devs, k), NEW found
  PROVE  DisksUpTo(PortUp(devs, Disks[k + 1], found), k + 1)
  <1> DEFINE d == Disks[k + 1]
             e == [name |-> <<d, 0>>, dev_id |-> d, read |-> "ahci_read_sectors"]
             t == Append(devs, e)
  <1>1. /\ k + 1 \in DOMAIN Disks /\ d \in STRING /\ \A j \in 1 .. k : j \in DOMAIN Disks /\ j # k + 1
        /\ \A j \in 1 .. k : j \in 1 .. k + 1
        /\ k + 1 \in 1 .. k + 1
    BY SMT, PartitionAssumption
  <1>2. \A j \in 1 .. k : Disks[j] # d
    BY <1>1, PartitionAssumption
  <1>3. d \in DiskNames
    BY <1>1 DEF DiskNames
  <1>4. DisksUpTo(devs, k + 1)
    BY <1>1 DEF DisksUpTo
  <1>5. DisksUpTo(t, k + 1)
    <2>1. \A i \in DOMAIN devs : devs[i].dev_id # d
      BY <1>2 DEF DisksUpTo
    <2>2. DisksOK(t) /\ \A i \in DOMAIN t : i \in DOMAIN devs \/ t[i].dev_id = d
      BY <1>1, <1>3, <2>1, DiskAdded DEF DisksUpTo
    <2>3. \A i \in DOMAIN devs : t[i] = devs[i]
      <3>1. e \in DeviceType
        <4>1. 0 \in Nat
          BY SMT
        <4>2. QED
          BY <1>1, <4>1 DEF DeviceType
      <3> HIDE DEF e
      <3>2. QED
        BY <3>1, Appended DEF DisksUpTo, DisksOK
    <2> HIDE DEF t, d
    <2>4. \A i \in DOMAIN t : \E j \in 1 .. k + 1 : t[i].dev_id = Disks[j]
      BY <1>4, <2>2, <2>3, <1>1 DEF DisksUpTo, d
    <2>5. QED
      BY <2>2, <2>4 DEF DisksUpTo
  <1>6. PortUp(devs, d, found) \in {t, devs}
    BY DEF PortUp, blockdev_register
  <1> HIDE DEF t
  <1>7. QED
    BY <1>4, <1>5, <1>6

\* After ahci_init the devices are those of disks, each under its own name.
LEMMA DisksFound ==
  ASSUME NEW found
  PROVE  DisksOK(RegisterDisks(found))
  <1> DEFINE n == Len(Disks)
  <1>1. n \in Nat /\ 0 \in Nat /\ 0 <= n /\ n \in 0 .. n
    BY SMT, PartitionAssumption
  <1>2. PICK f : Registers(f, found) /\ RegisterDisks(found) = f[n]
    BY DisksRegistered
  <1> DEFINE G == {k \in 0 .. n : DisksUpTo(f[k], k)}
  <1>3. 0 \in G
    <2>1. f[0] = <<>> /\ 0 \in 0 .. n
      BY SMT, <1>1, <1>2 DEF Registers
    <2>2. <<>> \in Seq(DeviceType) /\ DOMAIN <<>> = {}
      BY SMT
    <2>3. DisksUpTo(<<>>, 0)
      BY <2>2 DEF DisksUpTo, DisksOK
    <2>4. QED
      BY <2>1, <2>3
  <1>4. ASSUME NEW k \in 0 .. n - 1, k \in G PROVE k + 1 \in G
    <2>1. DisksUpTo(PortUp(f[k], Disks[k + 1], found), k + 1)
      BY <1>4, PortAdds
    <2>2. f[k + 1] = PortUp(f[k], Disks[k + 1], found)
      BY <1>2 DEF Registers
    <2>3. k + 1 \in 0 .. n
      BY SMT, <1>1
    <2>4. QED
      BY <2>1, <2>2, <2>3
  <1>5. \A k \in 0 .. n : k \in G
    <2> HIDE DEF G, n
    <2>1. QED
      BY <1>1, <1>3, <1>4, LoopInduction
  <1>6. DisksUpTo(f[n], n)
    BY <1>1, <1>5
  <1>7. QED
    BY <1>2, <1>6 DEF DisksUpTo

\* A partition with a name of its own may join the table, and its device the
\* other one.
LEMMA PartFits ==
  ASSUME NEW devs, NEW ps, TablesOK(devs, ps), NEW q \in PartType, Described(q, devs),
         \A k \in DOMAIN ps : part_name(ps[k]) # part_name(q)
  PROVE  LET e == [name |-> part_name(q), dev_id |-> Len(ps) + 1, read |-> "part_read_cb"] IN
         TablesOK(devs, Append(ps, q)) /\ TablesOK(Append(devs, e), Append(ps, q))
  <1> DEFINE e == [name |-> part_name(q), dev_id |-> Len(ps) + 1, read |-> "part_read_cb"]
             n == Len(ps) + 1
             t == Append(ps, q)
             l == Len(devs) + 1
             u == Append(devs, e)
  <1>1. /\ t \in Seq(PartType) /\ n \in DOMAIN t /\ t[n] = q /\ n \in Nat
        /\ \A k \in DOMAIN t : k \in DOMAIN ps \/ k = n
        /\ \A k \in DOMAIN ps : k \in DOMAIN t /\ t[k] = ps[k]
    <2>1. Len(ps) + 1 \in Nat
      BY SMT DEF TablesOK
    <2>2. QED
      BY <2>1, Appended DEF TablesOK
  <1>2. part_name(q) = <<q.parent[1], q.num>> /\ q.parent[1] \in STRING /\ q.num \in Nat \ {0}
    BY DEF part_name, PartType
  <1>3. e \in DeviceType
    <2>1. part_name(q) \in STRING \X Nat
      BY SMT, <1>2
    <2>2. n \in STRING \cup Nat
      BY <1>1
    <2>3. QED
      BY <2>1, <2>2 DEF DeviceType
  <1>4. e.name = part_name(q) /\ e.dev_id = n /\ e.read = "part_read_cb"
    OBVIOUS
  <1> HIDE DEF e
  <1>5. /\ u \in Seq(DeviceType) /\ u[l] = e
        /\ \A i \in DOMAIN u : i \in DOMAIN devs \/ i = l
        /\ \A i \in DOMAIN devs : i \in DOMAIN u /\ u[i] = devs[i]
    BY <1>3, Appended DEF TablesOK
  <1> HIDE DEF t, n, u, l
  <1>6. \A i \in DOMAIN devs : DiskDevice(devs[i]) \/ PartDevice(devs[i], t)
    BY <1>1 DEF TablesOK, PartDevice
  <1>7. \A k \in DOMAIN t : Described(t[k], devs)
    BY <1>1 DEF TablesOK
  <1>8. \A k, j \in DOMAIN t : part_name(t[k]) = part_name(t[j]) => k = j
    BY <1>1 DEF TablesOK
  <1>9. TablesOK(devs, t)
    BY <1>1, <1>6, <1>7, <1>8 DEF TablesOK
  <1>10. \A i \in DOMAIN u : DiskDevice(u[i]) \/ PartDevice(u[i], t)
    BY <1>1, <1>4, <1>5, <1>6 DEF PartDevice
  <1>11. \A i \in DOMAIN devs : devs[i].name # e.name
    <2>1. ASSUME NEW i \in DOMAIN devs, DiskDevice(devs[i]) PROVE devs[i].name # e.name
      <3>1. devs[i].name = <<devs[i].dev_id, 0>>
        BY <2>1 DEF DiskDevice
      <3>2. QED
        BY SMT, <1>2, <1>4, <3>1
    <2>2. ASSUME NEW i \in DOMAIN devs, PartDevice(devs[i], ps) PROVE devs[i].name # e.name
      BY <1>4, <2>2 DEF PartDevice
    <2>3. QED
      BY <2>1, <2>2 DEF TablesOK
  <1>12. \A i, j \in DOMAIN u : u[i].name = u[j].name => i = j
    BY ZenonT(40), <1>5, <1>11 DEF TablesOK
  <1>13. ASSUME NEW k \in DOMAIN t PROVE Described(t[k], u)
    <2>1. PICK i \in DOMAIN devs : /\ DiskDevice(devs[i]) /\ t[k].parent = devs[i].name
                                  /\ t[k].offset = disk[devs[i].dev_id][0].table[t[k].num].first
      BY <1>7 DEF Described
    <2>2. i \in DOMAIN u /\ u[i] = devs[i]
      BY <1>5
    <2>3. QED
      BY <2>1, <2>2 DEF Described
  <1>14. TablesOK(u, t)
    BY <1>1, <1>5, <1>8, <1>10, <1>12, <1>13 DEF TablesOK
  <1>15. QED
    BY <1>9, <1>14 DEF u, t, e, n

\* partition_init has come to entry m of the n-th of the devices D, which were
\* there before: the partitions are those of the disks so far.
Scanned(s, D, n, m) ==
  /\ TablesOK(s.devices, s.parts)
  /\ \A i \in DOMAIN D : i \in DOMAIN s.devices /\ s.devices[i] = D[i]
  /\ \A k \in DOMAIN s.parts : \E i \in DOMAIN D :
       s.parts[k].parent = D[i].name /\ (i < n \/ (i = n /\ s.parts[k].num <= m))

\* One entry of the table, which is a partition or not.
LEMMA EntryAdded ==
  ASSUME NEW D, DisksOK(D), NEW n \in DOMAIN D, NEW m \in Nat,
         NEW s \in BothTables, Scanned(s, D, n, m),
         NEW entry \in EntryType, entry.first = disk[D[n].dev_id][0].table[m + 1].first
  PROVE  Scanned(AddPartition(s, D[n].name, m + 1, entry), D, n, m + 1)
  <1> DEFINE q == [parent |-> D[n].name, num |-> m + 1, offset |-> entry.first]
             e == [name |-> part_name(q), dev_id |-> Len(s.parts) + 1, read |-> "part_read_cb"]
             id == D[n].dev_id
  <1>1. \A i \in DOMAIN D : i \in Nat
    BY SMT DEF DisksOK
  <1>2. D[n] \in DeviceType /\ DiskDevice(D[n])
    BY SMT DEF DisksOK
  <1>3. D[n].name = <<id, 0>> /\ D[n].name \in STRING \X {0} /\ D[n].name[1] = id
    <2>1. D[n].name \in STRING \X Nat /\ D[n].name = <<id, 0>>
      BY <1>2 DEF DeviceType, DiskDevice
    <2> HIDE DEF id
    <2>2. QED
      BY SMT, <2>1
  <1>4. m + 1 \in Nat \ {0}
    BY SMT
  <1>5. q \in PartType
    BY <1>3, <1>4 DEF PartType, EntryType
  <1>6. q.parent = D[n].name /\ q.num = m + 1 /\ q.offset = entry.first
    OBVIOUS
  <1>7. part_name(q) = <<D[n].name[1], m + 1>>
    BY DEF part_name
  <1> HIDE DEF q
  <1>8. Described(q, s.devices)
    <2>1. n \in DOMAIN s.devices /\ s.devices[n] = D[n]
      BY DEF Scanned
    <2>2. QED
      BY <1>2, <1>6, <2>1 DEF Described
  <1>9. ASSUME NEW k \in DOMAIN s.parts PROVE part_name(s.parts[k]) # part_name(q)
    <2>1. PICK i \in DOMAIN D : s.parts[k].parent = D[i].name /\ (i < n \/ (i = n /\ s.parts[k].num <= m))
      BY DEF Scanned
    <2>2. part_name(s.parts[k]) = <<D[i].dev_id, s.parts[k].num>>
      <3>1. D[i].name = <<D[i].dev_id, 0>>
        BY DEF DisksOK, DiskDevice
      <3>2. D[i].name[1] = D[i].dev_id
        BY SMT, <3>1
      <3>3. QED
        BY <2>1, <3>2 DEF part_name
    <2>3. D[i].dev_id = id => i = n
      <3>1. D[i].name = <<D[i].dev_id, 0>>
        BY DEF DisksOK, DiskDevice
      <3>2. D[i].dev_id = id => D[i].name = D[n].name
        BY <1>3, <3>1
      <3>3. QED
        BY <3>2 DEF DisksOK
    <2>4. s.parts[k].num \in Nat
      <3>1. s.parts[k] \in PartType
        BY SMT DEF Scanned, TablesOK
      <3>2. QED
        BY <3>1 DEF PartType
    <2>5. i = n => s.parts[k].num # m + 1
      <3>1. i = n => s.parts[k].num <= m
        BY SMT, <1>1, <2>1
      <3>2. QED
        BY SMT, <2>4, <3>1
    <2>6. part_name(q) = <<id, m + 1>>
      BY <1>3, <1>7
    <2> HIDE DEF id
    <2>7. D[i].dev_id = id /\ s.parts[k].num = m + 1 => FALSE
      BY <2>3, <2>5
    <2>8. <<D[i].dev_id, s.parts[k].num>> # <<id, m + 1>>
      BY SMT, <2>7
    <2>9. QED
      BY <2>2, <2>6, <2>8
  <1>10. TablesOK(s.devices, Append(s.parts, q)) /\ TablesOK(Append(s.devices, e), Append(s.parts, q))
    BY <1>5, <1>8, <1>9, PartFits DEF Scanned
  <1>11. Scanned(s, D, n, m + 1)
    <2>1. \A k \in DOMAIN s.parts : s.parts[k].num <= m => s.parts[k].num <= m + 1
      <3>1. \A k \in DOMAIN s.parts : s.parts[k] \in PartType
        BY SMT DEF Scanned, TablesOK
      <3>2. \A k \in DOMAIN s.parts : s.parts[k].num \in Nat
        BY <3>1 DEF PartType
      <3>3. QED
        BY SMT, <3>2
    <2>2. QED
      BY <2>1 DEF Scanned
  <1>12. ASSUME NEW r \in BothTables, r.devices \in {s.devices, Append(s.devices, e)},
                r.parts = Append(s.parts, q)
         PROVE  Scanned(r, D, n, m + 1)
    <2>1. TablesOK(r.devices, r.parts)
      BY <1>10, <1>12
    <2>2. s.devices \in Seq(DeviceType) /\ s.parts \in Seq(PartType)
      BY DEF BothTables
    <2>3. e \in DeviceType
      <3>1. Len(s.parts) + 1 \in STRING \cup Nat
        BY SMT, <2>2
      <3>2. part_name(q) \in STRING \X Nat
        BY SMT, <1>3, <1>4, <1>7
      <3>3. QED
        BY <3>1, <3>2 DEF DeviceType
    <2> HIDE DEF e
    <2>4. \A i \in DOMAIN s.devices : i \in DOMAIN r.devices /\ r.devices[i] = s.devices[i]
      <3>1. \A i \in DOMAIN s.devices :
              i \in DOMAIN Append(s.devices, e) /\ Append(s.devices, e)[i] = s.devices[i]
        BY <2>2, <2>3, Appended
      <3>2. QED
        BY <1>12, <3>1
    <2>5. \A i \in DOMAIN D : i \in DOMAIN r.devices /\ r.devices[i] = D[i]
      BY <2>4 DEF Scanned
    <2>6. ASSUME NEW k \in DOMAIN r.parts
          PROVE  \E i \in DOMAIN D :
                   r.parts[k].parent = D[i].name /\ (i < n \/ (i = n /\ r.parts[k].num <= m + 1))
      <3>1. (k \in DOMAIN s.parts /\ r.parts[k] = s.parts[k]) \/ r.parts[k] = q
        <4> DEFINE t == Append(s.parts, q)
        <4>1. /\ t[Len(s.parts) + 1] = q
              /\ \A j \in DOMAIN t : j \in DOMAIN s.parts \/ j = Len(s.parts) + 1
              /\ \A j \in DOMAIN s.parts : t[j] = s.parts[j]
          BY ZenonT(40), <1>5, <2>2, Appended
        <4> HIDE DEF t
        <4>2. r.parts = t
          BY <1>12 DEF t
        <4>3. QED
          BY <4>1, <4>2
      <3>2. CASE k \in DOMAIN s.parts /\ r.parts[k] = s.parts[k]
        BY <1>11, <3>2 DEF Scanned
      <3>3. CASE r.parts[k] = q
        <4>1. m + 1 <= m + 1
          BY SMT
        <4>2. QED
          BY <1>6, <3>3, <4>1
      <3>4. QED
        BY <3>1, <3>2, <3>3
    <2>7. QED
      BY <2>1, <2>5, <2>6 DEF Scanned
  <1> DEFINE r == AddPartition(s, D[n].name, m + 1, entry)
  <1>13. r \in BothTables
    BY <1>3, <1>4, AddTyped
  <1>14. r = s \/ (r.devices \in {s.devices, Append(s.devices, e)} /\ r.parts = Append(s.parts, q))
    BY <1>7 DEF AddPartition, blockdev_register, q
  <1> HIDE DEF r, e
  <1>15. QED
    BY <1>11, <1>12, <1>13, <1>14 DEF r

\* All entries of the table of a disk.
LEMMA TableScanned ==
  ASSUME NEW D, DisksOK(D), NEW n \in DOMAIN D, NEW s \in BothTables, Scanned(s, D, n, 0),
         NEW table \in Seq(EntryType), table = disk[D[n].dev_id][0].table
  PROVE  Scanned(AddTable(s, D[n].name, table), D, n, Len(table))
  <1> DEFINE name == D[n].name
             b == Len(table)
  <1>1. b \in Nat /\ 0 \in Nat /\ 0 <= b /\ b \in 0 .. b /\ 0 \in 0 .. b
    BY SMT
  <1>2. name \in STRING \X {0}
    <2>1. D[n] \in DeviceType /\ DiskDevice(D[n])
      BY SMT DEF DisksOK
    <2>2. name \in STRING \X Nat /\ name = <<D[n].dev_id, 0>>
      BY <2>1 DEF DeviceType, DiskDevice
    <2> HIDE DEF name
    <2>3. QED
      BY SMT, <2>2
  <1>3. PICK f : Adds(f, s, name, table) /\ AddTable(s, name, table) = f[b]
    BY <1>2, TableAdded
  <1> DEFINE G == {m \in 0 .. b : Scanned(f[m], D, n, m)}
  <1>4. 0 \in G
    BY <1>1, <1>3 DEF Adds
  <1>5. ASSUME NEW m \in 0 .. b - 1, m \in G PROVE m + 1 \in G
    <2>1. m \in Nat /\ m + 1 \in 0 .. b /\ m \in 0 .. b /\ table[m + 1] \in EntryType
      BY SMT, <1>1
    <2>2. f[m] \in BothTables /\ f[m + 1] = AddPartition(f[m], name, m + 1, table[m + 1])
      BY <1>3, <2>1 DEF Adds
    <2>3. Scanned(f[m], D, n, m)
      BY <1>5
    <2>4. table[m + 1].first = disk[D[n].dev_id][0].table[m + 1].first
      OBVIOUS
    <2>5. Scanned(AddPartition(f[m], D[n].name, m + 1, table[m + 1]), D, n, m + 1)
      BY <2>1, <2>2, <2>3, <2>4, EntryAdded
    <2>6. QED
      BY <2>1, <2>2, <2>5
  <1>6. \A m \in 0 .. b : m \in G
    <2> HIDE DEF G, b
    <2>1. QED
      BY <1>1, <1>4, <1>5, LoopInduction
  <1>7. Scanned(f[b], D, n, b)
    BY <1>1, <1>6
  <1>8. QED
    BY <1>3, <1>7

\* Before partition_init there are disks and no partitions.
Fresh == DisksOK(devices) /\ parts = <<>> /\ TablesOnDisks

\* Such tables are in order.
LEMMA FreshTables == Fresh => TablesOK(devices, parts)
  <1>1. <<>> \in Seq(PartType) /\ DOMAIN <<>> = {}
    BY SMT
  <1>2. QED
    BY <1>1 DEF Fresh, DisksOK, TablesOK

\* What partition_init reads is sector 0 of the disk; its table is one of entries.
LEMMA SectorRead ==
  ASSUME Fresh, NEW n \in DOMAIN devices
  PROVE  LET mbr == blockdev_read(devices[n].name, 0, {}) IN
         mbr # <<>> /\ "table" \in DOMAIN mbr[1] =>
           /\ mbr[1].table = disk[devices[n].dev_id][0].table
           /\ mbr[1].table \in Seq(EntryType)
  <1> DEFINE id == devices[n].dev_id
             mbr == blockdev_read(devices[n].name, 0, {})
  <1>1. DiskDevice(devices[n])
    BY DEF Fresh, DisksOK
  <1>2. 0 \in Nat
    BY SMT
  <1>3. mbr = Content(id, 0, {})
    BY <1>1, <1>2, FreshTables, DiskRead
  <1> HIDE DEF mbr
  <1>4. ASSUME mbr # <<>>, "table" \in DOMAIN mbr[1]
        PROVE  mbr[1].table = disk[id][0].table /\ mbr[1].table \in Seq(EntryType)
    <2>1. 0 \in DOMAIN disk[id] /\ mbr = <<disk[id][0]>>
      BY <1>3, <1>4 DEF Content
    <2>2. mbr[1] = disk[id][0]
      BY <2>1
    <2>3. id \in DiskNames
      BY <1>1 DEF DiskDevice
    <2>4. disk[id][0].table \in Seq([first : Nat, sectors : Nat])
      BY <1>4, <2>1, <2>2, <2>3 DEF Fresh, TablesOnDisks
    <2>5. QED
      BY <2>2, <2>4 DEF EntryType
  <1>5. QED
    BY <1>4 DEF mbr

\* The scan of a device keeps the types of the tables.
LEMMA ScanTyped ==
  ASSUME Fresh, NEW n \in DOMAIN devices, NEW s \in BothTables, NEW lost
  PROVE  ScanDevice(s, devices[n], lost) \in BothTables
  <1> DEFINE mbr == blockdev_read(devices[n].name, 0, {})
             name == devices[n].name
  <1>1. mbr # <<>> /\ "table" \in DOMAIN mbr[1] => mbr[1].table \in Seq(EntryType)
    BY SectorRead
  <1>2. name \in STRING \X {0}
    <2>1. devices[n] \in DeviceType /\ DiskDevice(devices[n])
      BY SMT DEF Fresh, DisksOK
    <2>2. name \in STRING \X Nat /\ name = <<devices[n].dev_id, 0>>
      BY <2>1 DEF DeviceType, DiskDevice
    <2> HIDE DEF name
    <2>3. QED
      BY SMT, <2>2
  <1>3. ScanDevice(s, devices[n], lost) =
          IF name[1] \in lost \/ mbr = <<>> \/ "table" \notin DOMAIN mbr[1] THEN s
          ELSE AddTable(s, name, mbr[1].table)
    BY DEF ScanDevice
  <1> HIDE DEF mbr, name
  <1>4. ASSUME mbr[1].table \in Seq(EntryType) PROVE AddTable(s, name, mbr[1].table) \in BothTables
    <2> DEFINE table == mbr[1].table
    <2>1. table \in Seq(EntryType)
      BY <1>4
    <2> HIDE DEF table
    <2>2. PICK f : Adds(f, s, name, table) /\ AddTable(s, name, table) = f[Len(table)]
      BY <1>2, <2>1, TableAdded
    <2>3. Len(table) \in 0 .. Len(table)
      BY SMT, <2>1
    <2>4. f[Len(table)] \in BothTables
      BY <2>2, <2>3 DEF Adds
    <2>5. QED
      BY <2>2, <2>4 DEF table
  <1>5. QED
    BY <1>1, <1>3, <1>4

\* A device is scanned to the end of its table, or left out.
LEMMA DeviceScanned ==
  ASSUME Fresh, NEW n \in DOMAIN devices, NEW s \in BothTables, NEW lost, Scanned(s, devices, n, 0)
  PROVE  Scanned(ScanDevice(s, devices[n], lost), devices, n + 1, 0)
  <1> DEFINE mbr == blockdev_read(devices[n].name, 0, {})
             name == devices[n].name
  <1>1. mbr # <<>> /\ "table" \in DOMAIN mbr[1] =>
          mbr[1].table = disk[devices[n].dev_id][0].table /\ mbr[1].table \in Seq(EntryType)
    BY SectorRead
  <1>2. ScanDevice(s, devices[n], lost) =
          IF name[1] \in lost \/ mbr = <<>> \/ "table" \notin DOMAIN mbr[1] THEN s
          ELSE AddTable(s, name, mbr[1].table)
    BY DEF ScanDevice
  <1>3. DisksOK(devices) /\ \A i \in DOMAIN devices : i < n \/ i = n => i < n + 1
    BY SMT DEF Fresh, DisksOK
  <1>4. ASSUME NEW r, NEW m, Scanned(r, devices, n, m) PROVE Scanned(r, devices, n + 1, 0)
    BY <1>3, <1>4 DEF Scanned
  <1> HIDE DEF mbr
  <1>5. ASSUME mbr[1].table = disk[devices[n].dev_id][0].table, mbr[1].table \in Seq(EntryType)
        PROVE  Scanned(AddTable(s, name, mbr[1].table), devices, n + 1, 0)
    <2> DEFINE table == mbr[1].table
    <2>1. table \in Seq(EntryType) /\ table = disk[devices[n].dev_id][0].table
      BY <1>5
    <2> HIDE DEF table
    <2>2. Scanned(AddTable(s, devices[n].name, table), devices, n, Len(table))
      BY <1>3, <2>1, TableScanned
    <2>3. QED
      BY <1>4, <2>2 DEF table
  <1>6. QED
    BY <1>1, <1>2, <1>4, <1>5

\* f has the tables through which partition_init goes, one for each device.
Scans(f, lost) ==
  /\ f \in [0 .. Len(devices) -> BothTables] /\ f[0] = [devices |-> devices, parts |-> <<>>]
  /\ \A k \in 0 .. Len(devices) - 1 : f[k + 1] = ScanDevice(f[k], devices[k + 1], lost)

\* ScanDevices is the last of them.
LEMMA DevicesRun ==
  ASSUME Fresh, NEW lost
  PROVE  \E f : Scans(f, lost) /\ ScanDevices(lost) = f[Len(devices)]
  <1> DEFINE n == Len(devices)
             m == [devices |-> devices, parts |-> <<>>]
             g == [j \in 0 .. n - 1 |-> [x \in BothTables |-> ScanDevice(x, devices[j + 1], lost)]]
             P(f) == f = [k \in 0 .. n |-> IF k = 0 THEN m ELSE ScanDevice(f[k - 1], devices[k], lost)]
             at == CHOOSE f : P(f)
  <1>1. n \in Nat /\ 0 \in Nat /\ 0 <= n
    BY SMT DEF Fresh, DisksOK
  <1>2. m \in BothTables
    BY EmptySeq DEF BothTables, Fresh, DisksOK
  <1>3. \A j \in 0 .. n - 1, x \in BothTables : ScanDevice(x, devices[j + 1], lost) \in BothTables
    <2>1. \A j \in 0 .. n - 1 : j + 1 \in DOMAIN devices
      BY SMT, <1>1 DEF Fresh, DisksOK
    <2> HIDE DEF n
    <2>2. QED
      BY <2>1, ScanTyped
  <1>4. ScanDevices(lost) = at[n]
    BY DEF ScanDevices
  <1> HIDE DEF n, m
  <1>5. PICK h \in [0 .. n -> BothTables] : Unrolls(h, g, m, 0, n)
    <2>1. g \in [0 .. n - 1 -> [BothTables -> BothTables]]
      BY <1>3
    <2> HIDE DEF g
    <2>2. QED
      BY <1>1, <1>2, <2>1, Unrolled
  <1>6. P(h)
    <2>1. ASSUME NEW k \in 0 .. n, k # 0 PROVE h[k] = ScanDevice(h[k - 1], devices[k], lost)
      <3>1. k - 1 \in 0 .. n - 1 /\ (k - 1) + 1 = k /\ k - 1 \in 0 .. n
        BY SMT, <1>1, <2>1
      <3>2. h[k] = g[k - 1][h[k - 1]] /\ h[k - 1] \in BothTables
        BY <1>5, <2>1, <3>1 DEF Unrolls
      <3>3. g[k - 1][h[k - 1]] = ScanDevice(h[k - 1], devices[(k - 1) + 1], lost)
        BY <3>1, <3>2
      <3>4. QED
        BY <3>1, <3>2, <3>3
    <2>2. 0 \in 0 .. n => h[0] = m
      BY <1>5 DEF Unrolls
    <2>3. h = [k \in 0 .. n |-> h[k]]
      OBVIOUS
    <2>4. QED
      BY <2>1, <2>2, <2>3
  <1> HIDE DEF P
  <1>7. P(at)
    BY <1>6
  <1> HIDE DEF at
  <1>8. at[0] = m /\ \A k \in 0 .. n - 1 : at[k + 1] = ScanDevice(at[k], devices[k + 1], lost)
    <2>1. 0 \in 0 .. n /\ \A k \in 0 .. n - 1 : k + 1 \in 0 .. n /\ k + 1 # 0 /\ (k + 1) - 1 = k
      BY SMT, <1>1
    <2>2. \A k \in 0 .. n : at[k] = IF k = 0 THEN m ELSE ScanDevice(at[k - 1], devices[k], lost)
      BY <1>7 DEF P
    <2>3. QED
      BY <2>1, <2>2
  <1>9. at \in [0 .. n -> BothTables]
    <2>1. at[0] \in BothTables /\ \A k \in 0 .. n - 1 : at[k] \in BothTables => at[k + 1] \in BothTables
      BY <1>2, <1>3, <1>8
    <2>2. \A k \in 0 .. n : at[k] \in BothTables
      BY <1>1, <2>1, StaysIn
    <2>3. at = [k \in 0 .. n |-> at[k]]
      BY <1>7 DEF P
    <2>4. QED
      BY <2>2, <2>3
  <1>10. QED
    BY <1>4, <1>8, <1>9 DEF n, m, Scans

\* After partition_init the two tables are in order.
LEMMA PartitionsFound ==
  ASSUME Fresh, NEW lost
  PROVE  TablesOK(ScanDevices(lost).devices, ScanDevices(lost).parts)
  <1> DEFINE n == Len(devices)
  <1>1. n \in Nat /\ 0 \in Nat /\ 0 <= n /\ n \in 0 .. n /\ 0 \in 0 .. n
    BY SMT DEF Fresh, DisksOK
  <1>2. PICK f : Scans(f, lost) /\ ScanDevices(lost) = f[n]
    BY DevicesRun
  <1> DEFINE G == {k \in 0 .. n : Scanned(f[k], devices, k + 1, 0)}
  <1>3. 0 \in G
    <2> DEFINE s == [devices |-> devices, parts |-> <<>>]
    <2>1. f[0] = s
      BY <1>2 DEF Scans
    <2>2. s.devices = devices /\ s.parts = <<>> /\ DOMAIN <<>> = {}
      BY SMT
    <2> HIDE DEF s
    <2>3. TablesOK(s.devices, s.parts)
      BY <2>2, FreshTables DEF Fresh
    <2>4. Scanned(s, devices, 0 + 1, 0)
      BY <2>2, <2>3 DEF Scanned
    <2>5. QED
      BY <1>1, <2>1, <2>4
  <1>4. ASSUME NEW k \in 0 .. n - 1, k \in G PROVE k + 1 \in G
    <2>1. k + 1 \in DOMAIN devices /\ k + 1 \in 0 .. n /\ k \in 0 .. n
      BY SMT, <1>1 DEF Fresh, DisksOK
    <2>2. f[k] \in BothTables /\ f[k + 1] = ScanDevice(f[k], devices[k + 1], lost)
      BY <1>2, <2>1 DEF Scans
    <2>3. Scanned(ScanDevice(f[k], devices[k + 1], lost), devices, (k + 1) + 1, 0)
      BY <1>4, <2>1, <2>2, DeviceScanned
    <2>4. QED
      BY <2>1, <2>2, <2>3
  <1>5. \A k \in 0 .. n : k \in G
    <2> HIDE DEF G, n
    <2>1. QED
      BY <1>1, <1>3, <1>4, LoopInduction
  <1>6. Scanned(f[n], devices, n + 1, 0)
    BY <1>1, <1>5
  <1>7. QED
    BY <1>2, <1>6 DEF Scanned

-----------------------------------------------------------------------------
(* The mount.                                                              *)

\* The operators of reading, of tables that are given.
GetOf(devs, name) == Earliest({i \in DOMAIN devs : devs[i].name = name})
CallbackOf(devs, ps, at) ==
  LET i == GetOf(devs, at.name)
      id == devs[i].dev_id IN
  IF i # 0 /\ devs[i].read = "part_read_cb" /\ id <= Len(ps)
  THEN [name |-> ps[id].parent, lba |-> ps[id].offset + at.lba]
  ELSE at
UnderneathOf(devs, ps, name, lba) ==
  LET at[k \in 0 .. Len(ps)] ==
        IF k = 0 THEN [name |-> name, lba |-> lba] ELSE CallbackOf(devs, ps, at[k - 1])
  IN at[Len(ps)]
ContentOf(dk, d, lba, bad) == IF lba \in DOMAIN dk[d] /\ lba \notin bad THEN <<dk[d][lba]>> ELSE <<>>
ReadOf(dk, devs, ps, name, lba, bad) ==
  LET at == UnderneathOf(devs, ps, name, lba)
      i == GetOf(devs, at.name) IN
  IF i # 0 /\ devs[i].read = "ahci_read_sectors" THEN ContentOf(dk, devs[i].dev_id, at.lba, bad)
  ELSE <<>>
SectorsOf(dk, devs, ps, name, lba, bad) ==
  LET i == Earliest({k \in DOMAIN ps : part_name(ps[k]) = name}) IN
  ReadOf(dk, devs, ps, IF i = 0 THEN name ELSE ps[i].parent, IF i = 0 THEN lba ELSE ps[i].offset + lba, bad)

MountIn(dk, devs, ps, m) ==
  m.mounted =>
    LET super == SectorsOf(dk, devs, ps, m.dev_name, 1, {})
        bgd == SectorsOf(dk, devs, ps, m.dev_name, m.sb.first_data_block + 1, {}) IN
    /\ super # <<>> /\ m.sb = super[1].u[1]
    /\ bgd # <<>> /\ m.bgd = bgd[1].u

\* They are those of the module.
LEMMA SectorsSame ==
  ASSUME NEW name, NEW lba, NEW bad
  PROVE  partition_read_sectors(name, lba, bad) = SectorsOf(disk, devices, parts, name, lba, bad)
  BY DEF partition_read_sectors, blockdev_read, ReadAt, Underneath, part_read_cb, blockdev_get, Content,
         SectorsOf, ReadOf, UnderneathOf, CallbackOf, GetOf, ContentOf

\* So is what is said of the mount, in this state and in the next.
LEMMA MountsSame ==
  /\ MountConsistent = MountIn(disk, devices, parts, ext2)
  /\ MountConsistent' = MountIn(disk', devices', parts', ext2')
  BY DEF MountConsistent, MountIn, partition_read_sectors, blockdev_read, ReadAt, Underneath, part_read_cb,
         blockdev_get, Content, SectorsOf, ReadOf, UnderneathOf, CallbackOf, GetOf, ContentOf

\* A read that succeeds although some blocks fail yields what is on the disk.
LEMMA GoodRead ==
  ASSUME NEW name, NEW lba, NEW bad, partition_read_sectors(name, lba, bad) # <<>>
  PROVE  partition_read_sectors(name, lba, {}) = partition_read_sectors(name, lba, bad)
  <1>1. \A d, l : Content(d, l, bad) # <<>> => Content(d, l, {}) = Content(d, l, bad)
    BY DEF Content
  <1>2. ASSUME NEW at PROVE ReadAt(at, bad) # <<>> => ReadAt(at, {}) = ReadAt(at, bad)
    <2>1. CASE blockdev_get(at.name) # 0 /\ devices[blockdev_get(at.name)].read = "ahci_read_sectors"
      <3>1. \A b : ReadAt(at, b) = Content(devices[blockdev_get(at.name)].dev_id, at.lba, b)
        BY <2>1 DEF ReadAt
      <3>2. QED
        BY <1>1, <3>1
    <2>2. CASE ~(blockdev_get(at.name) # 0 /\ devices[blockdev_get(at.name)].read = "ahci_read_sectors")
      BY <2>2 DEF ReadAt
    <2>3. QED
      BY <2>1, <2>2
  <1> DEFINE i == Earliest({k \in DOMAIN parts : part_name(parts[k]) = name})
             at == Underneath(IF i = 0 THEN name ELSE parts[i].parent,
                              IF i = 0 THEN lba ELSE parts[i].offset + lba)
  <1>3. \A b : partition_read_sectors(name, lba, b) = ReadAt(at, b)
    BY DEF partition_read_sectors, blockdev_read
  <1> HIDE DEF at
  <1>4. QED
    BY <1>2, <1>3

DiskInv ==
  /\ TablesOnDisks /\ TablesOK(devices, parts)
  /\ stage \in {"ahci", "parts"} => Fresh
  /\ ext2.mounted => stage = "up"
  /\ MountConsistent

-----------------------------------------------------------------------------
\* The boot begins without devices.
LEMMA DiskStarts == MountInit /\ TablesOnDisks => DiskInv
  <1> SUFFICES ASSUME MountInit, TablesOnDisks PROVE DiskInv
    OBVIOUS
  <1>1. <<>> \in Seq(DeviceType) /\ DOMAIN <<>> = {}
    BY SMT
  <1>2. Fresh
    BY <1>1 DEF MountInit, Fresh, DisksOK
  <1>3. ext2.mounted = FALSE
    BY DEF MountInit
  <1>4. QED
    BY <1>2, <1>3, FreshTables DEF DiskInv, MountConsistent

\* What is on the disks and in the tables stays while they do.
LEMMA TablesStay ==
  /\ TablesOnDisks /\ disk' = disk => TablesOnDisks'
  /\ TablesOK(devices, parts) /\ UNCHANGED <<disk, devices, parts>> => TablesOK(devices, parts)'
  <1>1. ASSUME TablesOnDisks, disk' = disk PROVE TablesOnDisks'
    BY <1>1 DEF TablesOnDisks
  <1>2. ASSUME TablesOK(devices, parts), UNCHANGED <<disk, devices, parts>>
        PROVE  TablesOK(devices, parts)'
    BY <1>2 DEF TablesOK, Described, PartDevice
  <1>3. QED
    BY <1>1, <1>2

\* ahci_init registers the disks.
LEMMA AhciKeeps == DiskInv /\ BootAhci => DiskInv'
  <1> SUFFICES ASSUME DiskInv, BootAhci PROVE DiskInv'
    OBVIOUS
  <1>1. PICK found : devices' = RegisterDisks(found)
    BY DEF BootAhci
  <1>2. DisksOK(devices)'
    BY <1>1, DisksFound
  <1>3. TablesOnDisks'
    BY TablesStay DEF DiskInv, BootAhci
  <1>4. parts' = <<>>
    BY DEF DiskInv, BootAhci, Fresh
  <1>5. Fresh'
    BY <1>2, <1>3, <1>4 DEF Fresh
  <1>6. TablesOK(devices, parts)'
    BY <1>5, FreshTables, PTL
  <1>7. ~ext2.mounted'
    BY DEF DiskInv, BootAhci
  <1>8. QED
    BY <1>3, <1>5, <1>6, <1>7 DEF DiskInv, MountConsistent

\* partition_init adds the partitions.
LEMMA PartitionsKeep == DiskInv /\ BootPartitions => DiskInv'
  <1> SUFFICES ASSUME DiskInv, BootPartitions PROVE DiskInv'
    OBVIOUS
  <1>1. PICK lost : devices' = ScanDevices(lost).devices /\ parts' = ScanDevices(lost).parts
    BY DEF BootPartitions, partition_init
  <1>2. Fresh
    BY DEF DiskInv, BootPartitions
  <1>3. TablesOK(ScanDevices(lost).devices, ScanDevices(lost).parts)
    BY <1>2, PartitionsFound
  <1>4. disk' = disk
    BY DEF BootPartitions
  <1>5. TablesOK(devices', parts')
    BY <1>1, <1>3
  <1>6. TablesOK(devices, parts)'
    BY <1>4, <1>5 DEF TablesOK, Described, PartDevice
  <1>7. TablesOnDisks'
    BY <1>4, TablesStay DEF DiskInv
  <1>8. ~ext2.mounted' /\ stage' = "mount"
    BY DEF DiskInv, BootPartitions
  <1>9. QED
    BY <1>6, <1>7, <1>8 DEF DiskInv, MountConsistent

\* A mount takes superblock and group descriptors from the device it names.
LEMMA MountKeeps ==
  ASSUME DiskInv, NEW dev, NEW bad, BootMount(dev, bad)
  PROVE  DiskInv'
  <1>1. UNCHANGED <<disk, devices, parts>>
    BY DEF BootMount
  <1>2. TablesOnDisks' /\ TablesOK(devices, parts)'
    BY <1>1, TablesStay DEF DiskInv
  <1>3. stage' \in {"mount1", "up"} /\ (ext2'.mounted => stage' = "up")
    BY DEF BootMount
  <1>4. ASSUME ext2'.mounted PROVE MountConsistent'
    <2> DEFINE s == partition_read_sectors(dev, 1, bad)
               sb == ext2_read_superblock(dev, bad).sb
               b == partition_read_sectors(dev, sb.first_data_block + 1, bad)
    <2>1. ext2' = [dev_name |-> dev, sb |-> sb, mounted |-> ext2_read_superblock(dev, bad).ok /\ b # <<>>,
                   bgd |-> IF ~ext2_read_superblock(dev, bad).ok THEN ext2.bgd
                           ELSE IF b = <<>> THEN <<>> ELSE b[1].u]
      BY DEF BootMount, ext2_mount
    <2>2. ext2_read_superblock(dev, bad).ok => s # <<>> /\ sb = s[1].u[1]
      BY DEF ext2_read_superblock
    <2> HIDE DEF s, sb, b
    <2>3. ext2_read_superblock(dev, bad).ok /\ b # <<>>
      BY <1>4, <2>1
    <2>4. ext2'.dev_name = dev /\ ext2'.sb = sb /\ ext2'.bgd = b[1].u
      BY <2>1, <2>3
    <2>5. s # <<>> /\ sb = s[1].u[1]
      BY <2>2, <2>3
    <2>6. partition_read_sectors(dev, 1, {}) = s
      BY <2>5, GoodRead DEF s
    <2>7. partition_read_sectors(dev, sb.first_data_block + 1, {}) = b
      BY <2>3, GoodRead DEF b
    <2>8. SectorsOf(disk', devices', parts', dev, 1, {}) = s
      BY <1>1, <2>6, SectorsSame
    <2>9. SectorsOf(disk', devices', parts', dev, sb.first_data_block + 1, {}) = b
      BY <1>1, <2>7, SectorsSame
    <2>10. MountIn(disk', devices', parts', ext2')
      BY <2>3, <2>4, <2>5, <2>8, <2>9 DEF MountIn
    <2>11. QED
      BY <2>10, MountsSame
  <1>5. MountConsistent'
    BY <1>4 DEF MountConsistent
  <1>6. QED
    BY <1>2, <1>3, <1>5 DEF DiskInv

\* Every step of the boot keeps the invariant.
LEMMA DiskStep == DiskInv /\ [MountNext]_mountVars => DiskInv'
  <1> SUFFICES ASSUME DiskInv, [MountNext]_mountVars PROVE DiskInv'
    OBVIOUS
  <1>1. CASE BootAhci
    BY <1>1, AhciKeeps
  <1>2. CASE BootPartitions
    BY <1>2, PartitionsKeep
  <1>3. ASSUME NEW bad \in Faults, NEW num \in 0 .. 1, BootMount(<<"sda", num>>, bad) PROVE DiskInv'
    BY <1>3, MountKeeps
  <1>4. CASE UNCHANGED mountVars
    <2>1. UNCHANGED <<disk, devices, parts>> /\ stage' = stage /\ ext2' = ext2
      BY <1>4 DEF mountVars
    <2>2. TablesOnDisks' /\ TablesOK(devices, parts)'
      BY <2>1, TablesStay DEF DiskInv
    <2>3. Fresh => Fresh'
      BY <2>1, <2>2 DEF Fresh, DisksOK
    <2>4. MountConsistent'
      BY <2>1, MountsSame DEF DiskInv
    <2>5. QED
      BY <2>1, <2>2, <2>3, <2>4 DEF DiskInv
  <1>5. QED
    BY <1>1, <1>2, <1>3, <1>4 DEF MountNext

\* The invariant of the boot, from no device to the mount.
THEOREM DiskInvariant == MountSpec => []DiskInv
  BY DiskStarts, DiskStep, PTL DEF MountSpec

\* At every block, a partition that is registered as a device reads through its
\* callback, with dev_id as the index into parts[], as by its name: what the disk
\* has from the partition's first block on.  This is for any disks, contents and
\* sizes of the tables, whatever cannot be read or does not fit.
THEOREM PartitionsRead == MountSpec => [](PartitionsAgree /\ \A lba \in Nat : AgreeAt(lba))
  <1>1. DiskInv => PartitionsAgree /\ \A lba \in Nat : AgreeAt(lba)
    <2>1. ASSUME DiskInv PROVE \A lba \in Nat : AgreeAt(lba)
      BY <2>1, TablesAgree DEF DiskInv
    <2>2. \A lba \in 0 .. 1 : lba \in Nat
      BY SMT
    <2>3. QED
      BY <2>1, <2>2 DEF PartitionsAgree
  <1>2. QED
    BY <1>1, DiskInvariant, PTL

\* What ext2_mount leaves as mounted is one file system, although the mount of the
\* whole disk may have failed before: superblock and group descriptors are those
\* on the device in dev_name, for any contents of the disks and any failing blocks.
THEOREM MountIsOne == MountSpec => []MountConsistent
  <1>1. DiskInv => MountConsistent
    BY DEF DiskInv
  <1>2. QED
    BY <1>1, DiskInvariant, PTL
=============================================================================
