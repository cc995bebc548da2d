----------------------------- MODULE FileProofs -----------------------------
(***************************************************************************)
(* Proofs about the files: the tree of vfs.c with /proc mounted on it.     *)
(***************************************************************************)
EXTENDS Vfs, LoopProofs, SequenceTheorems

USE Zenon

-----------------------------------------------------------------------------
(* The inductive invariant of the tree.                                    *)

NodeType == [name : Names, type : {"dir", "file", "chardev", "procfs"}, parent : Nat,
             data : Seq({"old", "new"})]

\* The parent of a node is older, and no two children of one have one name.
Shape(t) ==
  /\ t \in Seq(NodeType) /\ t # <<>> /\ t[Root] = Node("/", "dir", 0)
  /\ \A i \in DOMAIN t : i # Root => t[i].parent \in 1 .. i - 1
  /\ \A i, j \in DOMAIN t : t[i].parent = t[j].parent /\ t[i].name = t[j].name => i = j

\* /proc is mounted in the root, and there are no nodes of the tree below it.
ProcAlone(t) ==
  \A i \in DOMAIN t :
    /\ t[i].type = "procfs" => t[i].parent = Root /\ t[i].name = "proc"
    /\ i # Root => t[t[i].parent].type # "procfs"

TreeOK(t) == Shape(t) /\ ProcAlone(t)

\* The paths of the nodes of t.
PathsIn(t) ==
  LET p[i \in DOMAIN t] == IF i = Root THEN <<>> ELSE Append(p[t[i].parent], t[i].name) IN p

\* q leads to a directory on the way to p, or to p.
LeadsTo(q, p) == \E n \in 0 .. Len(p) : q = SubSeq(p, 1, n)

PoolNode == [pid : Pids \cup {NoPid}, kind : Kinds]

\* The first nodes of the pool are the mount's, the others those of processes.
Mounted(p) ==
  /\ p \in Seq(PoolNode) /\ Len(p) \in 3 .. PROCFS_POOL
  /\ \A k \in 1 .. 3 : p[k] = procfs_mount[k]
  /\ \A k \in 4 .. Len(p) : p[k].pid \in Pids /\ p[k].kind \in {"status", "cmdline"}

\* The node n of the pool is what the first k components of path lead to.
Means(n, path, k) ==
  LET names == {path[i] : i \in 1 .. k} IN
  \/ n.pid = NoPid /\ k = 2 /\ path[1] = "proc" /\ path[2] = n.kind
  \/ n.pid \in Pids \cap names /\ n.kind = IF "cmdline" \in names THEN "cmdline" ELSE "status"

\* The nodes lie on the ways to the entries of Plan before k.
Placed(t, k) ==
  \A i \in DOMAIN t : i # Root => \E j \in 1 .. k - 1 : LeadsTo(PathsIn(t)[i], Place(Plan[j]))

FileType == [fs : {"none", "tree", "proc"}, node : Nat, pos : Nat]

\* What the open file f, opened by path, is to the tree t and the pool p.
FileOK(f, path, t, p) ==
  /\ f.fs = "tree" => f.node \in DOMAIN t /\ f.pos <= Len(t[f.node].data)
  /\ f.fs = "proc" => f.node \in DOMAIN p /\ Means(p[f.node], path, Len(path))

\* While the kernel boots, boot is what is left of Plan.
BootOK ==
  boot # <<>> =>
    /\ \E k \in 1 .. Len(Plan) : boot = SubSeq(Plan, k, Len(Plan)) /\ Placed(tree, k)
    /\ \A fd \in Fds : files[fd] = NoFile

PoolOK == Mounted(pool) \/ (pool = <<>> /\ \A i \in DOMAIN tree : tree[i].type # "procfs")

VfsInv ==
  /\ TreeOK(tree) /\ PoolOK /\ tasks \subseteq Pids /\ BootOK
  /\ files \in [Fds -> FileType] /\ opened \in [Fds -> Seq(Names)]
  /\ \A fd \in Fds : FileOK(files[fd], opened[fd], tree, pool)

-----------------------------------------------------------------------------
(* Paths.                                                                  *)

\* What PathsIn(t) satisfies.
PathEqs(p, t, k) ==
  p = [i \in 1 .. k |-> IF i = Root THEN <<>> ELSE Append(p[t[i].parent], t[i].name)]

\* The indices and the fields of a tree.
LEMMA Nodes ==
  ASSUME NEW t, Shape(t)
  PROVE  /\ Len(t) \in Nat /\ Len(t) >= 1 /\ DOMAIN t = 1 .. Len(t) /\ Root \in DOMAIN t
         /\ \A i \in DOMAIN t : t[i] \in NodeType /\ t[i].name \in Names /\ t[i].parent \in Nat
         /\ \A i \in DOMAIN t : i # Root =>
              t[i].parent \in 1 .. i - 1 /\ t[i].parent \in DOMAIN t /\ t[i].parent # 0
         /\ \A i \in DOMAIN t : i \in Nat /\ i # 0 /\ (t[i].parent = 0 <=> i = Root)
  <1>1. Len(t) \in Nat /\ Len(t) >= 1 /\ DOMAIN t = 1 .. Len(t)
    BY SMT DEF Shape
  <1>2. \A i \in DOMAIN t : t[i] \in NodeType
    BY SMT DEF Shape
  <1>3. \A i \in DOMAIN t : t[i].name \in Names /\ t[i].parent \in Nat
    BY <1>2 DEF NodeType
  <1>4. \A i \in DOMAIN t : i # Root => t[i].parent \in 1 .. i - 1
    BY DEF Shape
  <1>5. Root \in DOMAIN t /\ \A i \in DOMAIN t : i # Root => t[i].parent \in DOMAIN t /\ t[i].parent # 0
    BY SMT, <1>1, <1>3, <1>4 DEF Root
  <1>6. t[Root].parent = 0
    <2>1. t[Root] = Node("/", "dir", 0)
      BY DEF Shape
    <2>2. QED
      BY SMT, <2>1 DEF Node
  <1>7. \A i \in DOMAIN t : i \in Nat /\ i # 0
    BY SMT, <1>1
  <1>8. \A i \in DOMAIN t : t[i].parent = 0 <=> i = Root
    BY <1>5, <1>6
  <1>9. Root \in DOMAIN t /\ \A i \in DOMAIN t : i # Root =>
              t[i].parent \in 1 .. i - 1 /\ t[i].parent \in DOMAIN t /\ t[i].parent # 0
    BY <1>4, <1>5
  <1>10. \A i \in DOMAIN t : i \in Nat /\ i # 0 /\ (t[i].parent = 0 <=> i = Root)
    BY <1>7, <1>8
  <1>11. \A i \in DOMAIN t : t[i] \in NodeType /\ t[i].name \in Names /\ t[i].parent \in Nat
    BY <1>2, <1>3
  <1>12. QED
    BY <1>1, <1>9, <1>10, <1>11

\* There are such paths.
LEMMA PathsExist ==
  ASSUME NEW t, Shape(t)
  PROVE  \E p \in [1 .. Len(t) -> Seq(Names)] : PathEqs(p, t, Len(t))
  <1> DEFINE G == {k \in 1 .. Len(t) : \E p \in [1 .. k -> Seq(Names)] : PathEqs(p, t, k)}
  <1>1. Len(t) \in Nat /\ 1 \in Nat /\ Len(t) >= 1 /\ DOMAIN t = 1 .. Len(t)
    BY SMT, Nodes
  <1>2. 1 \in G
    <2> DEFINE p == [i \in 1 .. 1 |-> <<>>]
    <2>1. \A i \in 1 .. 1 : i = Root
      BY SMT DEF Root
    <2>2. <<>> \in Seq(Names)
      BY SMT
    <2>3. p \in [1 .. 1 -> Seq(Names)] /\ PathEqs(p, t, 1)
      BY <2>1, <2>2 DEF PathEqs
    <2>4. 1 \in 1 .. Len(t)
      BY SMT, <1>1
    <2> HIDE DEF p
    <2>5. QED
      BY <2>3, <2>4
  <1>3. ASSUME NEW k \in 1 .. Len(t) - 1, k \in G PROVE k + 1 \in G
    <2>1. PICK p \in [1 .. k -> Seq(Names)] : PathEqs(p, t, k)
      BY <1>3
    <2>2. /\ k + 1 \in 1 .. Len(t) /\ k + 1 # Root /\ k + 1 \notin 1 .. k
          /\ \A i \in 1 .. k + 1 : i = k + 1 \/ i \in 1 .. k
          /\ \A i \in 1 .. k : i \in 1 .. k + 1 /\ i \in 1 .. Len(t) /\ 1 .. i - 1 \subseteq 1 .. k
          /\ (k + 1) - 1 = k /\ k + 1 \in 1 .. k + 1
      BY SMT, <1>1 DEF Root
    <2>3. t[k + 1].parent \in 1 .. k /\ t[k + 1].name \in Names
      BY <1>1, <2>2, Nodes
    <2>4. \A i \in 1 .. k : i # Root => t[i].parent \in 1 .. k
      BY <1>1, <2>2, Nodes
    <2> DEFINE q == [i \in 1 .. k + 1 |-> IF i = k + 1 THEN Append(p[t[k + 1].parent], t[k + 1].name) ELSE p[i]]
    <2>5. q \in [1 .. k + 1 -> Seq(Names)]
      <3>1. Append(p[t[k + 1].parent], t[k + 1].name) \in Seq(Names)
        BY SMT, <2>3
      <3>2. QED
        BY <2>2, <3>1
    <2>6. ASSUME NEW i \in 1 .. k + 1
          PROVE  q[i] = IF i = Root THEN <<>> ELSE Append(q[t[i].parent], t[i].name)
      <3>1. CASE i = k + 1
        <4>1. q[t[i].parent] = p[t[i].parent]
          BY <2>2, <2>3, <3>1
        <4>2. QED
          BY <2>2, <3>1, <4>1
      <3>2. CASE i \in 1 .. k
        <4>1. q[i] = p[i]
          BY <2>2, <3>2
        <4>2. p[i] = IF i = Root THEN <<>> ELSE Append(p[t[i].parent], t[i].name)
          BY <2>1, <3>2 DEF PathEqs
        <4>3. i # Root => q[t[i].parent] = p[t[i].parent]
          BY <2>2, <2>4, <3>2
        <4>4. QED
          BY <4>1, <4>2, <4>3
      <3>3. QED
        BY <2>2, <3>1, <3>2
    <2>7. q = [i \in 1 .. k + 1 |-> q[i]]
      OBVIOUS
    <2> HIDE DEF q
    <2>8. PathEqs(q, t, k + 1)
      BY <2>6, <2>7 DEF PathEqs
    <2>9. QED
      BY <2>2, <2>5, <2>8
  <1>4. Len(t) \in G
    <2> HIDE DEF G
    <2>1. \A k \in 1 .. Len(t) : k \in G
      BY <1>1, <1>2, <1>3, LoopInduction
    <2>2. Len(t) \in 1 .. Len(t)
      BY SMT, <1>1
    <2>3. QED
      BY <2>1, <2>2
  <1>5. QED
    BY <1>4

\* The paths of a tree: sequences of names, the root's empty, a node's its
\* parent's and its own name.
LEMMA PathFacts ==
  ASSUME NEW t, Shape(t)
  PROVE  /\ PathsIn(t) \in [DOMAIN t -> Seq(Names)] /\ PathsIn(t)[Root] = <<>>
         /\ \A i \in DOMAIN t : i # Root =>
              PathsIn(t)[i] = Append(PathsIn(t)[t[i].parent], t[i].name)
  <1> DEFINE P(f) == f = [i \in DOMAIN t |-> IF i = Root THEN <<>> ELSE Append(f[t[i].parent], t[i].name)]
             p == CHOOSE f : P(f)
  <1>1. DOMAIN t = 1 .. Len(t) /\ Root \in DOMAIN t /\ Len(t) \in Nat /\ Len(t) >= 1
    BY Nodes
  <1>2. \E f : P(f)
    <2>1. PICK f : PathEqs(f, t, Len(t))
      BY PathsExist
    <2>2. P(f)
      BY <1>1, <2>1 DEF PathEqs
    <2>3. QED
      BY <2>2
  <1>3. P(p)
    BY <1>2
  <1>4. PathsIn(t) = p
    BY DEF PathsIn
  <1> HIDE DEF p
  <1>5. /\ p[Root] = <<>> /\ p = [i \in DOMAIN t |-> p[i]]
        /\ \A i \in DOMAIN t : i # Root => p[i] = Append(p[t[i].parent], t[i].name)
    BY <1>1, <1>3
  <1> HIDE DEF P
  <1> DEFINE G == {k \in 1 .. Len(t) : \A i \in 1 .. k : p[i] \in Seq(Names)}
  <1>6. 1 \in G
    <2>1. \A i \in 1 .. 1 : i = Root
      BY SMT DEF Root
    <2>2. <<>> \in Seq(Names) /\ 1 \in 1 .. Len(t)
      BY SMT, <1>1
    <2>3. QED
      BY <1>5, <2>1, <2>2
  <1>7. ASSUME NEW k \in 1 .. Len(t) - 1, k \in G PROVE k + 1 \in G
    <2>1. /\ k + 1 \in 1 .. Len(t) /\ k + 1 # Root /\ (k + 1) - 1 = k
          /\ \A i \in 1 .. k + 1 : i = k + 1 \/ i \in 1 .. k
      BY SMT, <1>1 DEF Root
    <2>2. t[k + 1].parent \in 1 .. k /\ t[k + 1].name \in Names
      BY <1>1, <2>1, Nodes
    <2>3. p[t[k + 1].parent] \in Seq(Names)
      BY <1>7, <2>2
    <2>4. Append(p[t[k + 1].parent], t[k + 1].name) \in Seq(Names)
      BY SMT, <2>2, <2>3
    <2>5. p[k + 1] \in Seq(Names)
      BY <1>1, <1>5, <2>1, <2>4
    <2>6. QED
      BY <1>7, <2>1, <2>5
  <1>8. \A k \in 1 .. Len(t) : k \in G
    <2> HIDE DEF G
    <2>1. 1 \in Nat
      BY SMT
    <2>2. QED
      BY <1>1, <1>6, <1>7, <2>1, LoopInduction
  <1>9. \A i \in DOMAIN t : p[i] \in Seq(Names)
    <2>1. \A k \in 1 .. Len(t) : k \in 1 .. k
      BY SMT
    <2>2. QED
      BY <1>1, <1>8, <2>1
  <1>10. QED
    BY <1>4, <1>5, <1>9

\* t is a part of u: its nodes are in u, by the same names in the same places.
PartOf(t, u) ==
  /\ DOMAIN t \subseteq DOMAIN u
  /\ \A i \in DOMAIN t : u[i].name = t[i].name /\ u[i].parent = t[i].parent

\* A node keeps its path when the tree grows.
LEMMA PathsKept ==
  ASSUME NEW t, NEW u, Shape(t), Shape(u), PartOf(t, u)
  PROVE  \A i \in DOMAIN t : PathsIn(u)[i] = PathsIn(t)[i]
  <1> DEFINE G == {k \in 1 .. Len(t) : \A i \in 1 .. k : PathsIn(u)[i] = PathsIn(t)[i]}
  <1>1. DOMAIN t = 1 .. Len(t) /\ Len(t) \in Nat /\ Len(t) >= 1
    BY Nodes
  <1>2. 1 \in G
    <2>1. \A i \in 1 .. 1 : i = Root
      BY SMT DEF Root
    <2>2. 1 \in 1 .. Len(t)
      BY SMT, <1>1
    <2>3. PathsIn(u)[Root] = PathsIn(t)[Root]
      BY PathFacts
    <2>4. QED
      BY <2>1, <2>2, <2>3
  <1>3. ASSUME NEW k \in 1 .. Len(t) - 1, k \in G PROVE k + 1 \in G
    <2>1. /\ k + 1 \in 1 .. Len(t) /\ k + 1 # Root /\ (k + 1) - 1 = k
          /\ \A i \in 1 .. k + 1 : i = k + 1 \/ i \in 1 .. k
      BY SMT, <1>1 DEF Root
    <2>2. t[k + 1].parent \in 1 .. k /\ k + 1 \in DOMAIN t /\ k + 1 \in DOMAIN u
      BY <1>1, <2>1, Nodes DEF PartOf
    <2>3. u[k + 1].parent = t[k + 1].parent /\ u[k + 1].name = t[k + 1].name
      BY <2>2 DEF PartOf
    <2>4. PathsIn(t)[k + 1] = Append(PathsIn(t)[t[k + 1].parent], t[k + 1].name)
      BY <2>1, <2>2, PathFacts
    <2>5. PathsIn(u)[k + 1] = Append(PathsIn(u)[u[k + 1].parent], u[k + 1].name)
      BY <2>1, <2>2, PathFacts
    <2>6. PathsIn(u)[t[k + 1].parent] = PathsIn(t)[t[k + 1].parent]
      BY <1>3, <2>2
    <2>7. PathsIn(u)[k + 1] = PathsIn(t)[k + 1]
      BY <2>3, <2>4, <2>5, <2>6
    <2>8. QED
      BY <1>3, <2>1, <2>7
  <1>4. \A k \in 1 .. Len(t) : k \in G
    <2> HIDE DEF G
    <2>1. 1 \in Nat
      BY SMT
    <2>2. QED
      BY <1>1, <1>2, <1>3, <2>1, LoopInduction
  <1>5. \A k \in 1 .. Len(t) : k \in 1 .. k
    BY SMT
  <1>6. QED
    BY <1>1, <1>4, <1>5

\* The look-up of a name in a directory finds the child there is, or 0.
LEMMA FoundFacts ==
  ASSUME NEW t, Shape(t), NEW dir, NEW name
  PROVE  /\ Found(t, dir, name) \in 0 .. Len(t)
         /\ Found(t, dir, name) = 0 <=> Children(t, dir, name) = {}
         /\ Found(t, dir, name) # 0 =>
              /\ Found(t, dir, name) \in DOMAIN t /\ t[Found(t, dir, name)].parent = dir
              /\ t[Found(t, dir, name)].name = name
         /\ \A i \in DOMAIN t : t[i].parent = dir /\ t[i].name = name => Found(t, dir, name) = i
  <1>1. DOMAIN t = 1 .. Len(t) /\ Len(t) \in Nat /\ \A i \in DOMAIN t : i \in Nat /\ i # 0
    BY Nodes
  <1>2. 0 \in 0 .. Len(t) /\ \A i \in DOMAIN t : i \in 0 .. Len(t)
    BY SMT, <1>1
  <1>3. CASE Children(t, dir, name) = {}
    <2>1. Found(t, dir, name) = 0
      BY <1>3 DEF Found
    <2>2. \A i \in DOMAIN t : ~(t[i].parent = dir /\ t[i].name = name)
      BY <1>3 DEF Children
    <2>3. QED
      BY <1>2, <1>3, <2>1, <2>2
  <1>4. CASE Children(t, dir, name) # {}
    <2>1. PICK c : c \in Children(t, dir, name)
      BY <1>4
    <2>2. c \in DOMAIN t /\ t[c].parent = dir /\ t[c].name = name
      BY <2>1 DEF Children
    <2>3. \A i \in DOMAIN t : t[i].parent = dir /\ t[i].name = name => i = c
      BY <2>2 DEF Shape
    <2>4. Children(t, dir, name) = {c}
      BY <2>1, <2>3 DEF Children
    <2>5. c >= c /\ c # 0
      BY SMT, <1>1, <2>2
    <2>6. Max({c}) = c
      BY <2>5 DEF Max
    <2>7. Found(t, dir, name) = c
      BY <1>4, <2>4, <2>6 DEF Found
    <2>8. QED
      BY <1>2, <1>4, <2>2, <2>3, <2>5, <2>7
  <1>5. QED
    BY <1>3, <1>4

\* A node is added to a directory that has no child of that name.
LEMMA NodeAdded ==
  ASSUME NEW t, Shape(t), NEW n \in NodeType, n.parent \in DOMAIN t,
         Children(t, n.parent, n.name) = {}
  PROVE  LET u == Append(t, n) IN
         /\ Shape(u) /\ PartOf(t, u) /\ \A i \in DOMAIN t : u[i] = t[i]
         /\ Len(u) = Len(t) + 1 /\ Len(u) \in DOMAIN u /\ u[Len(u)] = n
         /\ \A i \in DOMAIN u : i = Len(u) \/ i \in DOMAIN t
         /\ \A i \in DOMAIN t : PathsIn(u)[i] = PathsIn(t)[i]
         /\ PathsIn(u)[Len(u)] = Append(PathsIn(t)[n.parent], n.name)
  <1> DEFINE u == Append(t, n)
  <1>1. DOMAIN t = 1 .. Len(t) /\ Len(t) \in Nat /\ Len(t) >= 1 /\ Root \in DOMAIN t /\ t \in Seq(NodeType)
    BY Nodes DEF Shape
  <1>2. /\ u \in Seq(NodeType) /\ u # <<>> /\ Len(u) = Len(t) + 1 /\ u[Len(u)] = n
        /\ \A i \in DOMAIN t : u[i] = t[i]
        /\ DOMAIN u = 1 .. Len(t) + 1
    BY SMT, <1>1
  <1> HIDE DEF u
  <1>3. /\ Len(u) \in DOMAIN u /\ DOMAIN t \subseteq DOMAIN u
        /\ \A i \in DOMAIN u : i = Len(u) \/ i \in DOMAIN t
        /\ Len(u) # Root /\ ~(Len(u) \in DOMAIN t)
    BY SMT, <1>1, <1>2 DEF Root
  <1>4. PartOf(t, u)
    BY <1>2, <1>3 DEF PartOf
  <1>5. u[Root] = Node("/", "dir", 0)
    BY <1>1, <1>2 DEF Shape
  <1>6. ASSUME NEW i \in DOMAIN u, i # Root PROVE u[i].parent \in 1 .. i - 1
    <2>1. CASE i = Len(u)
      <3>1. n.parent \in 1 .. Len(u) - 1
        BY SMT, <1>1, <1>2
      <3>2. QED
        BY <1>2, <2>1, <3>1
    <2>2. CASE i \in DOMAIN t
      <3>1. t[i].parent \in 1 .. i - 1
        BY <1>6, <2>2 DEF Shape
      <3>2. QED
        BY <1>2, <2>2, <3>1
    <2>3. QED
      BY <1>3, <2>1, <2>2
  <1>7. ASSUME NEW i \in DOMAIN u, NEW j \in DOMAIN u, u[i].parent = u[j].parent, u[i].name = u[j].name
        PROVE  i = j
    <2>1. \A k \in DOMAIN t : ~(u[k].parent = n.parent /\ u[k].name = n.name)
      BY <1>2 DEF Children
    <2>2. CASE i \in DOMAIN t /\ j \in DOMAIN t
      BY <1>2, <1>7, <2>2 DEF Shape
    <2>3. CASE i = Len(u) \/ j = Len(u)
      BY <1>2, <1>3, <1>7, <2>1, <2>3
    <2>4. QED
      BY <1>3, <2>2, <2>3
  <1>8. Shape(u)
    BY <1>2, <1>5, <1>6, <1>7 DEF Shape
  <1>9. \A i \in DOMAIN t : PathsIn(u)[i] = PathsIn(t)[i]
    BY <1>4, <1>8, PathsKept
  <1>10. PathsIn(u)[Len(u)] = Append(PathsIn(u)[n.parent], n.name)
    BY <1>2, <1>3, <1>8, PathFacts
  <1>11. PathsIn(u)[Len(u)] = Append(PathsIn(t)[n.parent], n.name)
    BY <1>9, <1>10
  <1>12. QED
    BY <1>2, <1>3, <1>4, <1>8, <1>9, <1>11 DEF u

\* Nor does a node get below /proc, or /proc below another directory.
LEMMA ProcStaysAlone ==
  ASSUME NEW t, TreeOK(t), NEW n \in NodeType, n.parent \in DOMAIN t,
         Children(t, n.parent, n.name) = {}, t[n.parent].type # "procfs",
         n.type = "procfs" => n.parent = Root /\ n.name = "proc"
  PROVE  TreeOK(Append(t, n))
  <1> DEFINE u == Append(t, n)
  <1>1. /\ Shape(u) /\ \A i \in DOMAIN t : u[i] = t[i]
        /\ u[Len(u)] = n /\ \A i \in DOMAIN u : i = Len(u) \/ i \in DOMAIN t
    BY NodeAdded DEF TreeOK
  <1>2. \A i \in DOMAIN t : i # Root => t[i].parent \in DOMAIN t
    BY Nodes DEF TreeOK
  <1> HIDE DEF u
  <1>3. ASSUME NEW i \in DOMAIN u
        PROVE  /\ u[i].type = "procfs" => u[i].parent = Root /\ u[i].name = "proc"
               /\ i # Root => u[u[i].parent].type # "procfs"
    <2>1. CASE i = Len(u)
      BY <1>1, <2>1
    <2>2. CASE i \in DOMAIN t
      BY <1>1, <1>2, <2>2 DEF TreeOK, ProcAlone
    <2>3. QED
      BY <1>1, <2>1, <2>2
  <1>4. QED
    BY <1>1, <1>3 DEF TreeOK, ProcAlone, u

\* The path of /proc.
LEMMA ProcPath ==
  ASSUME NEW t, TreeOK(t), NEW i \in DOMAIN t, t[i].type = "procfs"
  PROVE  PathsIn(t)[i] = <<"proc">>
  <1>1. t[i].parent = Root /\ t[i].name = "proc"
    BY DEF TreeOK, ProcAlone
  <1>2. t[Root].type = "dir"
    <2>1. t[Root] = Node("/", "dir", 0)
      BY DEF TreeOK, Shape
    <2>2. QED
      BY SMT, <2>1 DEF Node
  <1>3. i # Root
    BY <1>2
  <1>4. PathsIn(t)[i] = Append(<<>>, "proc")
    BY <1>1, <1>3, PathFacts DEF TreeOK
  <1>5. QED
    BY SMT, <1>4

-----------------------------------------------------------------------------
(* vfs_ensure_path.                                                        *)

DirStates == {s \in [tree : Seq(NodeType), node : Nat, mem : Nat] : Shape(s.tree) /\ s.node \in 0 .. Len(s.tree)}

\* What a component does to the state of vfs_ensure_path.
LEMMA DirStep ==
  ASSUME NEW s \in DirStates, NEW name \in Names
  PROVE  LET r == vfs_get_or_create_dir(s, name)
             n == Node(name, "dir", s.node) IN
         \/ s.node = 0 /\ r = s
         \/ /\ s.node \in DOMAIN s.tree /\ Found(s.tree, s.node, name) # 0
            /\ r = [s EXCEPT !.node = Found(s.tree, s.node, name)]
         \/ s.node \in DOMAIN s.tree /\ r = [s EXCEPT !.node = 0]
         \/ /\ s.node \in DOMAIN s.tree /\ s.mem # 0
            /\ n \in NodeType /\ n.parent = s.node /\ n.name = name /\ n.type = "dir"
            /\ Children(s.tree, n.parent, n.name) = {}
            /\ r = [tree |-> Append(s.tree, n), node |-> Len(s.tree) + 1, mem |-> s.mem - 1]
  <1> DEFINE r == vfs_get_or_create_dir(s, name)
             n == Node(name, "dir", s.node)
  <1>1. s.tree \in Seq(NodeType) /\ s.node \in Nat /\ Shape(s.tree) /\ s.node \in 0 .. Len(s.tree)
    BY DEF DirStates
  <1>2. s.node # 0 => s.node \in DOMAIN s.tree
    BY SMT, <1>1
  <1>3. n \in NodeType /\ n.parent = s.node /\ n.name = name /\ n.type = "dir"
    <2>1. <<>> \in Seq({"old", "new"})
      BY SMT
    <2>2. QED
      BY SMT, <1>1, <2>1 DEF Node, NodeType
  <1>4. Found(s.tree, s.node, name) = 0 => Children(s.tree, s.node, name) = {}
    BY <1>1, FoundFacts
  <1> HIDE DEF n
  <1>5. CASE s.node = 0
    BY <1>5 DEF vfs_get_or_create_dir
  <1>6. CASE s.node # 0 /\ Found(s.tree, s.node, name) # 0
    BY <1>2, <1>6 DEF vfs_get_or_create_dir
  <1>7. CASE s.node # 0 /\ Found(s.tree, s.node, name) = 0 /\ s.mem = 0
    BY <1>2, <1>7 DEF vfs_get_or_create_dir
  <1>8. CASE s.node # 0 /\ Found(s.tree, s.node, name) = 0 /\ s.mem # 0
    <2>1. r = [tree |-> Append(s.tree, n), node |-> Len(s.tree) + 1, mem |-> s.mem - 1]
      BY <1>8 DEF vfs_get_or_create_dir, n
    <2>2. QED
      BY <1>2, <1>3, <1>4, <1>8, <2>1 DEF n
  <1>9. QED
    BY <1>5, <1>6, <1>7, <1>8

\* The state stays one.
LEMMA DirTyped ==
  ASSUME NEW s \in DirStates, NEW name \in Names
  PROVE  vfs_get_or_create_dir(s, name) \in DirStates
  <1> DEFINE r == vfs_get_or_create_dir(s, name)
             n == Node(name, "dir", s.node)
  <1>1. /\ s \in [tree : Seq(NodeType), node : Nat, mem : Nat]
        /\ s.tree \in Seq(NodeType) /\ s.node \in Nat /\ s.mem \in Nat
        /\ Shape(s.tree) /\ s.node \in 0 .. Len(s.tree)
    BY DEF DirStates
  <1>2. \/ r = s
        \/ r = [s EXCEPT !.node = Found(s.tree, s.node, name)]
        \/ r = [s EXCEPT !.node = 0]
        \/ /\ s.node \in DOMAIN s.tree /\ s.mem # 0
           /\ n \in NodeType /\ n.parent = s.node /\ n.name = name
           /\ Children(s.tree, n.parent, n.name) = {}
           /\ r = [tree |-> Append(s.tree, n), node |-> Len(s.tree) + 1, mem |-> s.mem - 1]
    BY DirStep
  <1> HIDE DEF r, n
  <1>3. CASE r = s
    BY <1>3 DEF r
  <1>4. ASSUME NEW i \in 0 .. Len(s.tree), r = [s EXCEPT !.node = i] PROVE r \in DirStates
    <2>1. r \in [tree : Seq(NodeType), node : Nat, mem : Nat] /\ r.tree = s.tree /\ r.node = i
      BY SMT, <1>1, <1>4
    <2>2. QED
      BY <1>1, <2>1 DEF DirStates
  <1>5. Found(s.tree, s.node, name) \in 0 .. Len(s.tree) /\ 0 \in 0 .. Len(s.tree)
    <2>1. Found(s.tree, s.node, name) \in 0 .. Len(s.tree) /\ Len(s.tree) \in Nat
      BY <1>1, FoundFacts, Nodes
    <2>2. QED
      BY SMT, <2>1
  <1>6. CASE /\ s.node \in DOMAIN s.tree /\ s.mem # 0
             /\ n \in NodeType /\ n.parent = s.node /\ n.name = name
             /\ Children(s.tree, n.parent, n.name) = {}
             /\ r = [tree |-> Append(s.tree, n), node |-> Len(s.tree) + 1, mem |-> s.mem - 1]
    <2>1. Shape(Append(s.tree, n)) /\ Len(Append(s.tree, n)) = Len(s.tree) + 1
      BY <1>1, <1>6, NodeAdded
    <2>2. Append(s.tree, n) \in Seq(NodeType) /\ Len(s.tree) \in Nat
      BY <1>1, <2>1, Nodes DEF Shape
    <2>3. s.mem - 1 \in Nat /\ Len(s.tree) + 1 \in Nat /\ Len(s.tree) + 1 \in 0 .. Len(s.tree) + 1
      BY SMT, <1>1, <1>6, <2>2
    <2>4. r \in [tree : Seq(NodeType), node : Nat, mem : Nat]
      BY <1>6, <2>2, <2>3
    <2>5. r.tree = Append(s.tree, n) /\ r.node = Len(s.tree) + 1
      BY <1>6
    <2>6. QED
      BY <2>1, <2>3, <2>4, <2>5 DEF DirStates, r
  <1>7. QED
    BY <1>2, <1>3, <1>4, <1>5, <1>6 DEF r

\* vfs_ensure_path goes through states f[0], f[1], ..., one for each component.
LEMMA EnsureRuns ==
  ASSUME Shape(tree), NEW path \in Seq(Names), NEW mem \in Nat
  PROVE  \E f :
         /\ f[0] = [tree |-> tree, node |-> Root, mem |-> mem]
         /\ \A k \in 0 .. Len(path) - 1 : f[k + 1] = vfs_get_or_create_dir(f[k], path[k + 1])
         /\ vfs_ensure_path(path, mem) = f[Len(path)]
  <1> DEFINE n == Len(path)
             m == [tree |-> tree, node |-> Root, mem |-> mem]
             g == [j \in 0 .. n - 1 |-> [s \in DirStates |-> vfs_get_or_create_dir(s, path[j + 1])]]
             P(f) == f = [k \in 0 .. n |-> IF k = 0 THEN m ELSE vfs_get_or_create_dir(f[k - 1], path[k])]
             at == CHOOSE f : P(f)
  <1>1. n \in Nat /\ 0 \in Nat /\ 0 <= n /\ \A i \in 1 .. n : path[i] \in Names
    BY SMT
  <1>2. m \in DirStates
    <2>1. Root \in Nat /\ Root \in 0 .. Len(tree) /\ tree \in Seq(NodeType)
      <3>1. Len(tree) \in Nat /\ Len(tree) >= 1
        BY Nodes
      <3>2. QED
        BY SMT, <3>1 DEF Root, Shape
    <2>2. QED
      BY <2>1 DEF DirStates
  <1>3. g \in [0 .. n - 1 -> [DirStates -> DirStates]]
    <2> HIDE DEF n
    <2>1. \A j \in 0 .. n - 1 : j + 1 \in 1 .. n
      BY SMT, <1>1
    <2>2. \A j \in 0 .. n - 1 : path[j + 1] \in Names
      BY <1>1, <2>1
    <2>3. QED
      BY <2>2, DirTyped
  <1>4. vfs_ensure_path(path, mem) = at[n]
    BY DEF vfs_ensure_path
  <1> HIDE DEF n, m
  <1>5. PICK h \in [0 .. n -> DirStates] : Unrolls(h, g, m, 0, n)
    <2> HIDE DEF g
    <2>1. QED
      BY <1>1, <1>2, <1>3, Unrolled
  <1>6. ASSUME NEW k \in 0 .. n
        PROVE  h[k] = IF k = 0 THEN m ELSE vfs_get_or_create_dir(h[k - 1], path[k])
    <2>1. CASE k = 0
      BY <1>5, <2>1 DEF Unrolls
    <2>2. CASE k # 0
      <3>1. k - 1 \in 0 .. n - 1 /\ (k - 1) + 1 = k /\ k - 1 \in 0 .. n
        BY SMT, <1>1, <2>2
      <3>2. h[k] = g[k - 1][h[k - 1]]
        BY <1>5, <2>2 DEF Unrolls
      <3>3. h[k - 1] \in DirStates
        BY <3>1
      <3>4. g[k - 1][h[k - 1]] = vfs_get_or_create_dir(h[k - 1], path[(k - 1) + 1])
        BY <3>1, <3>3
      <3>5. QED
        BY <2>2, <3>1, <3>2, <3>4
    <2>3. QED
      BY <2>1, <2>2
  <1>7. P(h)
    <2>1. h = [k \in 0 .. n |-> h[k]]
      OBVIOUS
    <2>2. QED
      BY <1>6, <2>1
  <1> HIDE DEF P
  <1>8. P(at)
    BY <1>7
  <1> HIDE DEF at
  <1>9. \A k \in 0 .. n : at[k] = IF k = 0 THEN m ELSE vfs_get_or_create_dir(at[k - 1], path[k])
    BY <1>8 DEF P
  <1>10. at[0] = m /\ \A k \in 0 .. n - 1 : at[k + 1] = vfs_get_or_create_dir(at[k], path[k + 1])
    <2>1. 0 \in 0 .. n
      BY SMT, <1>1
    <2>2. \A k \in 0 .. n - 1 : k + 1 \in 0 .. n /\ k + 1 # 0 /\ (k + 1) - 1 = k
      BY SMT, <1>1
    <2>3. QED
      BY <1>9, <2>1, <2>2
  <1>11. QED
    BY <1>4, <1>10 DEF m, n

\* The prefixes of a path.
LEMMA PathPrefixes ==
  ASSUME NEW path \in Seq(Names)
  PROVE  /\ SubSeq(path, 1, 0) = <<>> /\ SubSeq(path, 1, Len(path)) = path
         /\ \A k \in 0 .. Len(path) - 1 : SubSeq(path, 1, k + 1) = Append(SubSeq(path, 1, k), path[k + 1])
         /\ \A k \in 0 .. Len(path) : Len(SubSeq(path, 1, k)) = k /\ SubSeq(path, 1, k) \in Seq(Names)
         /\ \A k \in 0 .. Len(path) : SubSeq(path, 1, k) = <<"proc">> => k = 1 /\ path[1] = "proc"
  <1>1. SubSeq(path, 1, 0) = <<>> /\ SubSeq(path, 1, Len(path)) = path
    BY SMT
  <1>2. ASSUME NEW k \in 0 .. Len(path) - 1
        PROVE  SubSeq(path, 1, k + 1) = Append(SubSeq(path, 1, k), path[k + 1])
    BY SMT
  <1>3. ASSUME NEW k \in 0 .. Len(path) PROVE Len(SubSeq(path, 1, k)) = k /\ SubSeq(path, 1, k) \in Seq(Names)
    BY SMT
  <1>4. ASSUME NEW k \in 0 .. Len(path), SubSeq(path, 1, k) = <<"proc">> PROVE k = 1 /\ path[1] = "proc"
    <2>1. Len(<<"proc">>) = 1 /\ <<"proc">>[1] = "proc"
      BY SMT
    <2>2. k = 1
      BY <1>3, <1>4, <2>1
    <2>3. SubSeq(path, 1, k)[1] = path[1]
      BY SMT, <2>2
    <2>4. QED
      BY <1>4, <2>1, <2>2, <2>3
  <1>5. QED
    BY <1>1, <1>2, <1>3, <1>4

\* The tree u has the nodes of t, and further ones on the way to path only.
Grows(t, u, path) ==
  /\ \A i \in DOMAIN t : i \in DOMAIN u /\ u[i] = t[i]
  /\ \A i \in DOMAIN u : i \in DOMAIN t \/ LeadsTo(PathsIn(u)[i], path)

\* vfs_ensure_path leads to the node of its path, or fails; the nodes it adds
\* on the way, whether or not it fails later, are those of its path.
LEMMA EnsureFacts ==
  ASSUME TreeOK(tree), NEW path \in Seq(Names), NEW mem \in Nat, path = <<>> \/ path[1] # "proc"
  PROVE  LET s == vfs_ensure_path(path, mem) IN
         /\ s \in DirStates /\ TreeOK(s.tree) /\ Grows(tree, s.tree, path)
         /\ s.node # 0 => /\ s.node \in DOMAIN s.tree /\ PathsIn(s.tree)[s.node] = path
                          /\ s.tree[s.node].type # "procfs"
  <1> DEFINE Inv(s, k) ==
               /\ s \in DirStates /\ TreeOK(s.tree) /\ Grows(tree, s.tree, path)
               /\ s.node # 0 => PathsIn(s.tree)[s.node] = SubSeq(path, 1, k)
  <1>1. PICK f : /\ f[0] = [tree |-> tree, node |-> Root, mem |-> mem]
                 /\ \A k \in 0 .. Len(path) - 1 : f[k + 1] = vfs_get_or_create_dir(f[k], path[k + 1])
                 /\ vfs_ensure_path(path, mem) = f[Len(path)]
    BY EnsureRuns DEF TreeOK
  <1>2. Len(path) \in Nat /\ DOMAIN path = 1 .. Len(path) /\ \A i \in 1 .. Len(path) : path[i] \in Names
    BY SMT
  <1>3. Inv(f[0], 0)
    <2> DEFINE s == [tree |-> tree, node |-> Root, mem |-> mem]
    <2>1. s \in DirStates
      <3>1. Len(tree) \in Nat /\ Len(tree) >= 1
        BY Nodes DEF TreeOK
      <3>2. Root \in Nat /\ Root \in 0 .. Len(tree) /\ tree \in Seq(NodeType)
        BY SMT, <3>1 DEF Root, Shape, TreeOK
      <3>3. QED
        BY <3>2 DEF DirStates, TreeOK
    <2>2. s.tree = tree /\ s.node = Root
      OBVIOUS
    <2>3. PathsIn(tree)[Root] = SubSeq(path, 1, 0)
      BY PathFacts, PathPrefixes DEF TreeOK
    <2>4. Grows(tree, tree, path)
      BY DEF Grows
    <2> HIDE DEF s
    <2>5. Inv(s, 0)
      BY <2>1, <2>2, <2>3, <2>4
    <2>6. QED
      BY <1>1, <2>5 DEF s
  <1>4. ASSUME NEW k \in 0 .. Len(path) - 1, Inv(f[k], k) PROVE Inv(f[k + 1], k + 1)
    <2> DEFINE s == f[k]
               r == f[k + 1]
               name == path[k + 1]
               n == Node(name, "dir", s.node)
    <2>1. k \in Nat /\ k \in 0 .. Len(path) /\ k + 1 \in 0 .. Len(path) /\ k + 1 \in 1 .. Len(path)
      BY SMT, <1>2
    <2>2. name \in Names /\ r = vfs_get_or_create_dir(s, name)
      BY <1>1, <1>2, <2>1
    <2>3. /\ s \in DirStates /\ TreeOK(s.tree) /\ Grows(tree, s.tree, path) /\ Shape(s.tree)
          /\ s.node # 0 => PathsIn(s.tree)[s.node] = SubSeq(path, 1, k)
      BY <1>4 DEF TreeOK
    <2>4. s \in [tree : Seq(NodeType), node : Nat, mem : Nat]
      BY <2>3 DEF DirStates
    <2>5. SubSeq(path, 1, k + 1) = Append(SubSeq(path, 1, k), name)
      BY PathPrefixes
    <2>6. r \in DirStates
      BY <2>2, <2>3, DirTyped
    <2>7. \/ s.node = 0 /\ r = s
          \/ /\ s.node \in DOMAIN s.tree /\ Found(s.tree, s.node, name) # 0
             /\ r = [s EXCEPT !.node = Found(s.tree, s.node, name)]
          \/ s.node \in DOMAIN s.tree /\ r = [s EXCEPT !.node = 0]
          \/ /\ s.node \in DOMAIN s.tree /\ s.mem # 0
             /\ n \in NodeType /\ n.parent = s.node /\ n.name = name /\ n.type = "dir"
             /\ Children(s.tree, n.parent, n.name) = {}
             /\ r = [tree |-> Append(s.tree, n), node |-> Len(s.tree) + 1, mem |-> s.mem - 1]
      BY <2>2, <2>3, DirStep
    <2> HIDE DEF s, r, n, name
    <2>8. CASE s.node = 0 /\ r = s
      BY <2>3, <2>8 DEF s, r
    <2>9. CASE /\ s.node \in DOMAIN s.tree /\ Found(s.tree, s.node, name) # 0
               /\ r = [s EXCEPT !.node = Found(s.tree, s.node, name)]
      <3> DEFINE c == Found(s.tree, s.node, name)
      <3>1. r.tree = s.tree /\ r.node = c
        BY SMT, <2>4, <2>9
      <3>2. c \in DOMAIN s.tree /\ s.tree[c].parent = s.node /\ s.tree[c].name = name
        <4>1. Shape(s.tree) /\ c # 0
          BY <2>3, <2>9
        <4>2. c # 0 => c \in DOMAIN s.tree /\ s.tree[c].parent = s.node /\ s.tree[c].name = name
          <5> HIDE DEF c
          <5>1. \A dir, x : Found(s.tree, dir, x) # 0 =>
                  /\ Found(s.tree, dir, x) \in DOMAIN s.tree /\ s.tree[Found(s.tree, dir, x)].parent = dir
                  /\ s.tree[Found(s.tree, dir, x)].name = x
            BY <4>1, FoundFacts
          <5>2. QED
            BY <5>1 DEF c
        <4>3. QED
          BY <4>1, <4>2
      <3>3. s.node # 0 /\ c # Root
        BY <2>3, <2>9, <3>2, Nodes
      <3>4. PathsIn(s.tree)[c] = Append(PathsIn(s.tree)[s.node], name)
        BY <2>3, <3>2, <3>3, PathFacts
      <3> HIDE DEF c
      <3>5. PathsIn(r.tree)[r.node] = SubSeq(path, 1, k + 1)
        BY <2>3, <2>5, <3>1, <3>3, <3>4
      <3>6. QED
        BY <2>3, <2>6, <3>1, <3>5 DEF r
    <2>10. CASE s.node \in DOMAIN s.tree /\ r = [s EXCEPT !.node = 0]
      <3>1. r.tree = s.tree /\ r.node = 0
        BY SMT, <2>4, <2>10
      <3>2. QED
        BY <2>3, <2>6, <3>1 DEF r
    <2>11. CASE /\ s.node \in DOMAIN s.tree /\ s.mem # 0
                /\ n \in NodeType /\ n.parent = s.node /\ n.name = name /\ n.type = "dir"
                /\ Children(s.tree, n.parent, n.name) = {}
                /\ r = [tree |-> Append(s.tree, n), node |-> Len(s.tree) + 1, mem |-> s.mem - 1]
      <3> DEFINE u == Append(s.tree, n)
      <3>1. r.tree = u /\ r.node = Len(s.tree) + 1
        BY <2>11
      <3>2. s.node # 0
        BY <2>3, <2>11, Nodes
      <3>3. s.tree[s.node].type # "procfs"
        <4>1. SUFFICES ASSUME s.tree[s.node].type = "procfs" PROVE FALSE
          OBVIOUS
        <4>2. SubSeq(path, 1, k) = <<"proc">>
          BY <2>3, <2>11, <3>2, <4>1, ProcPath
        <4>3. path[1] = "proc" /\ k = 1
          BY <2>1, <4>2, PathPrefixes
        <4>4. path # <<>>
          BY SMT, <2>1
        <4>5. QED
          BY <4>3, <4>4
      <3>4. TreeOK(u)
        <4>1. "dir" # "procfs"
          OBVIOUS
        <4>2. QED
          BY <2>3, <2>11, <3>3, <4>1, ProcStaysAlone
      <3>5. /\ \A i \in DOMAIN s.tree : u[i] = s.tree[i]
            /\ Len(u) = Len(s.tree) + 1 /\ DOMAIN s.tree \subseteq DOMAIN u
            /\ \A i \in DOMAIN u : i = Len(u) \/ i \in DOMAIN s.tree
            /\ \A i \in DOMAIN s.tree : PathsIn(u)[i] = PathsIn(s.tree)[i]
            /\ PathsIn(u)[Len(u)] = Append(PathsIn(s.tree)[n.parent], n.name)
        <4>1. Shape(s.tree) /\ n \in NodeType /\ n.parent \in DOMAIN s.tree /\ Children(s.tree, n.parent, n.name) = {}
          BY <2>3, <2>11
        <4>2. /\ PartOf(s.tree, u) /\ \A i \in DOMAIN s.tree : u[i] = s.tree[i]
              /\ Len(u) = Len(s.tree) + 1
              /\ \A i \in DOMAIN u : i = Len(u) \/ i \in DOMAIN s.tree
              /\ \A i \in DOMAIN s.tree : PathsIn(u)[i] = PathsIn(s.tree)[i]
              /\ PathsIn(u)[Len(u)] = Append(PathsIn(s.tree)[n.parent], n.name)
          <5> DEFINE t == s.tree
          <5>1. Shape(t) /\ n \in NodeType /\ n.parent \in DOMAIN t /\ Children(t, n.parent, n.name) = {}
            BY <4>1
          <5> HIDE DEF t, n
          <5>2. /\ PartOf(t, Append(t, n)) /\ \A i \in DOMAIN t : Append(t, n)[i] = t[i]
                /\ Len(Append(t, n)) = Len(t) + 1
                /\ \A i \in DOMAIN Append(t, n) : i = Len(Append(t, n)) \/ i \in DOMAIN t
                /\ \A i \in DOMAIN t : PathsIn(Append(t, n))[i] = PathsIn(t)[i]
                /\ PathsIn(Append(t, n))[Len(Append(t, n))] = Append(PathsIn(t)[n.parent], n.name)
            BY <5>1, NodeAdded
          <5>3. QED
            BY <5>2 DEF t, n
        <4>3. DOMAIN s.tree \subseteq DOMAIN u
          BY <4>2 DEF PartOf
        <4> HIDE DEF u
        <4>4. QED
          BY <4>2, <4>3
      <3> HIDE DEF u
      <3>6. PathsIn(u)[Len(u)] = SubSeq(path, 1, k + 1)
        BY <2>3, <2>5, <2>11, <3>2, <3>5
      <3>7. Grows(tree, u, path)
        <4>1. LeadsTo(PathsIn(u)[Len(u)], path)
          BY <2>1, <3>6 DEF LeadsTo
        <4>2. QED
          BY <2>3, <3>5, <4>1 DEF Grows
      <3>8. QED
        BY <2>6, <3>1, <3>4, <3>5, <3>6, <3>7 DEF r
    <2>12. QED
      BY <2>7, <2>8, <2>9, <2>10, <2>11
  <1>5. Inv(f[Len(path)], Len(path))
    <2> DEFINE G == {k \in 0 .. Len(path) : Inv(f[k], k)}
    <2>1. 0 \in G /\ \A k \in 0 .. Len(path) - 1 : k \in G => k + 1 \in G
      <3>1. \A k \in 0 .. Len(path) - 1 : k + 1 \in 0 .. Len(path)
        BY SMT, <1>2
      <3>2. 0 \in 0 .. Len(path)
        BY SMT, <1>2
      <3> HIDE DEF Inv
      <3>3. QED
        BY <1>3, <1>4, <3>1, <3>2
    <2>2. 0 \in Nat /\ Len(path) \in 0 .. Len(path)
      BY SMT, <1>2
    <2> HIDE DEF G
    <2>3. \A k \in 0 .. Len(path) : k \in G
      BY <1>2, <2>1, <2>2, LoopInduction
    <2>4. QED
      BY <2>2, <2>3 DEF G
  <1> DEFINE s == vfs_ensure_path(path, mem)
  <1>6. /\ s \in DirStates /\ TreeOK(s.tree) /\ Grows(tree, s.tree, path)
        /\ s.node # 0 => PathsIn(s.tree)[s.node] = path
    BY <1>1, <1>5, PathPrefixes
  <1> HIDE DEF s
  <1>7. s.node # 0 => s.node \in DOMAIN s.tree
    <2>1. s.node \in 0 .. Len(s.tree) /\ DOMAIN s.tree = 1 .. Len(s.tree) /\ Len(s.tree) \in Nat
      BY <1>6, Nodes DEF DirStates, TreeOK
    <2>2. QED
      BY SMT, <2>1
  <1>8. ASSUME s.node # 0, s.tree[s.node].type = "procfs" PROVE FALSE
    <2>1. path = <<"proc">>
      BY <1>6, <1>7, <1>8, ProcPath
    <2>2. QED
      BY SMT, <2>1
  <1>9. QED
    BY <1>6, <1>7, <1>8 DEF s

-----------------------------------------------------------------------------
(* /proc.                                                                  *)

Static == {"meminfo", "uptime", "stat"}

\* The nodes of the mount.
LEMMA MountNodes ==
  ASSUME NEW p, Mounted(p)
  PROVE  /\ p \in Seq(PoolNode) /\ Len(p) \in Nat /\ Len(p) >= 3 /\ DOMAIN p = 1 .. Len(p)
         /\ \A k \in 1 .. 3 : k \in DOMAIN p /\ p[k].pid = NoPid /\ p[k].kind \in Static
         /\ \A k \in DOMAIN p : p[k].kind \in {"status", "cmdline"} <=> k \notin 1 .. 3
         /\ \A k \in DOMAIN p : k \notin 1 .. 3 => p[k].pid \in Pids
         /\ \A c \in Static : \E k \in 1 .. 3 : p[k].kind = c
  <1>1. p \in Seq(PoolNode) /\ Len(p) \in Nat /\ Len(p) >= 3 /\ DOMAIN p = 1 .. Len(p)
    BY SMT, ProcfsAssumption DEF Mounted
  <1>2. 1 \in 1 .. 3 /\ 2 \in 1 .. 3 /\ 3 \in 1 .. 3 /\ \A k \in 1 .. 3 : k = 1 \/ k = 2 \/ k = 3
    BY SMT
  <1>3. \A k \in 1 .. 3 : p[k] = [pid |-> NoPid, kind |-> <<"meminfo", "uptime", "stat">>[k]]
    BY DEF Mounted, procfs_mount
  <1>4. p[1].kind = "meminfo" /\ p[2].kind = "uptime" /\ p[3].kind = "stat"
    <2>1. <<"meminfo", "uptime", "stat">>[1] = "meminfo" /\ <<"meminfo", "uptime", "stat">>[2] = "uptime"
            /\ <<"meminfo", "uptime", "stat">>[3] = "stat"
      BY SMT
    <2>2. \A k \in 1 .. 3 : p[k].kind = <<"meminfo", "uptime", "stat">>[k]
      BY SMT, <1>3
    <2>3. QED
      BY <1>2, <2>1, <2>2
  <1>5. \A k \in 1 .. 3 : p[k].pid = NoPid
    BY SMT, <1>3
  <1>6. \A k \in 1 .. 3 : k \in DOMAIN p
    BY SMT, <1>1
  <1>7. \A k \in 1 .. 3 : p[k].kind \in Static
    BY <1>2, <1>4 DEF Static
  <1>8. \A k \in DOMAIN p : k \notin 1 .. 3 => k \in 4 .. Len(p)
    BY SMT, <1>1
  <1>9. \A k \in DOMAIN p : k \notin 1 .. 3 => p[k].pid \in Pids /\ p[k].kind \in {"status", "cmdline"}
    BY <1>8 DEF Mounted
  <1>10. \A k \in 1 .. 3 : ~(p[k].kind \in {"status", "cmdline"})
    BY <1>2, <1>4
  <1>11. \A c \in Static : \E k \in 1 .. 3 : p[k].kind = c
    BY <1>2, <1>4 DEF Static
  <1>12. \A k \in DOMAIN p : p[k].kind \in {"status", "cmdline"} <=> k \notin 1 .. 3
    BY <1>9, <1>10
  <1>13. QED
    BY <1>1, <1>5, <1>6, <1>7, <1>9, <1>11, <1>12

\* The outcomes r of a look-up of c below the node dir of p: none, a node of
\* the mount, a new node for a process, or one of the files of a process.
ProcOutcome(r, p, dir, c) ==
  \/ r = Failed(p)
  \/ r.pool = p /\ dir = 0 /\ r.node \in 1 .. 3 /\ p[r.node].kind = c
  \/ /\ c \in Pids /\ dir \in 0 .. 3 /\ Len(p) < PROCFS_POOL
     /\ r.pool = Append(p, [pid |-> c, kind |-> "status"]) /\ r.node = Len(p) + 1
  \/ /\ dir \in DOMAIN p /\ dir \notin 1 .. 3 /\ r.node = dir /\ c = "cmdline"
     /\ r.pool = [p EXCEPT ![dir].kind = "cmdline"]
  \/ dir \in DOMAIN p /\ dir \notin 1 .. 3 /\ r.node = dir /\ c = "status" /\ r.pool = p

\* procfs_resolve has one of them.
LEMMA ProcStep ==
  ASSUME NEW p, Mounted(p), NEW dir \in 0 .. Len(p), NEW c, tasks \subseteq Pids
  PROVE  ProcOutcome(procfs_resolve(p, dir, c), p, dir, c)
  <1> DEFINE r == procfs_resolve(p, dir, c)
  <1>1. Len(p) \in Nat /\ Len(p) >= 3 /\ DOMAIN p = 1 .. Len(p)
        /\ \A k \in DOMAIN p : p[k].kind \in {"status", "cmdline"} <=> k \notin 1 .. 3
    BY MountNodes
  <1>2. (dir # 0 => dir \in DOMAIN p) /\ (dir \in 1 .. 3 \/ dir = 0 => dir \in 0 .. 3) /\ ~(0 \in 1 .. 3)
    BY SMT, <1>1
  <1>3. CASE dir # 0 /\ p[dir].kind \in {"status", "cmdline"}
    <2>1. dir \in DOMAIN p /\ dir \notin 1 .. 3
      BY <1>1, <1>2, <1>3
    <2>2. CASE c = "cmdline"
      <3>1. r = [pool |-> [p EXCEPT ![dir].kind = "cmdline"], node |-> dir]
        BY <1>3, <2>2 DEF procfs_resolve
      <3>2. r.pool = [p EXCEPT ![dir].kind = "cmdline"] /\ r.node = dir
        BY SMT, <3>1
      <3>3. QED
        BY <2>1, <2>2, <3>2 DEF ProcOutcome
    <2>3. CASE c = "status"
      <3>1. r = [pool |-> p, node |-> dir]
        BY <1>3, <2>3 DEF procfs_resolve
      <3>2. r.pool = p /\ r.node = dir
        BY SMT, <3>1
      <3>3. QED
        BY <2>1, <2>3, <3>2 DEF ProcOutcome
    <2>4. CASE c # "cmdline" /\ c # "status"
      BY <1>3, <2>4 DEF procfs_resolve, ProcOutcome
    <2>5. QED
      BY <2>2, <2>3, <2>4
  <1>4. CASE ~(dir # 0 /\ p[dir].kind \in {"status", "cmdline"})
    <2>1. dir \in 0 .. 3
      BY <1>1, <1>2, <1>4
    <2> c \in Static => ~(c \in tasks)
      BY ProcfsAssumption DEF Static, Kinds
    <2>2. CASE c \in Static /\ dir = 0
      <3> DEFINE i == CHOOSE k \in 1 .. 3 : p[k].kind = c
      <3>1. i \in 1 .. 3 /\ p[i].kind = c
        BY <2>2, MountNodes
      <3>2. r = [pool |-> p, node |-> i]
        BY <1>4, <2>2 DEF procfs_resolve, Static
      <3> HIDE DEF i
      <3>3. r.pool = p /\ r.node = i
        BY SMT, <3>2
      <3>4. QED
        BY <2>2, <3>1, <3>3 DEF ProcOutcome
    <2>3. CASE c \in Static /\ dir # 0
      BY <1>4, <2>3 DEF procfs_resolve, Static, ProcOutcome
    <2>4. CASE ~(c \in Static) /\ c \in tasks
      <3>1. r = make_node(p, c, "status")
        BY <1>4, <2>4 DEF procfs_resolve, Static
      <3>2. CASE Len(p) >= PROCFS_POOL
        BY <3>1, <3>2 DEF make_node, ProcOutcome
      <3>3. CASE ~(Len(p) >= PROCFS_POOL)
        <4>1. r = [pool |-> Append(p, [pid |-> c, kind |-> "status"]), node |-> Len(p) + 1]
          BY <3>1, <3>3 DEF make_node
        <4>2. r.pool = Append(p, [pid |-> c, kind |-> "status"]) /\ r.node = Len(p) + 1
          BY SMT, <4>1
        <4>3. Len(p) < PROCFS_POOL
          BY SMT, <1>1, <3>3, ProcfsAssumption
        <4>4. QED
          BY <2>1, <2>4, <4>2, <4>3 DEF ProcOutcome
      <3>4. QED
        BY <3>2, <3>3
    <2>5. CASE ~(c \in Static) /\ ~(c \in tasks)
      BY <1>4, <2>5 DEF procfs_resolve, Static, ProcOutcome
    <2>6. QED
      BY <2>2, <2>3, <2>4, <2>5
  <1>5. QED
    BY <1>3, <1>4

\* The pool stays as the mount left it but for the nodes of processes, and of
\* the nodes there were only dir may change, and that if it is a process's.
ProcKept(r, p, dir) ==
  /\ Mounted(r.pool) /\ r.node \in Nat /\ (r.node # 0 => r.node \in DOMAIN r.pool)
  /\ \A j \in DOMAIN p : j \in DOMAIN r.pool /\ (j # dir \/ j \in 1 .. 3 => r.pool[j] = p[j])

\* procfs_resolve keeps it so.
LEMMA ProcKeeps ==
  ASSUME NEW p, Mounted(p), NEW dir \in 0 .. Len(p), NEW c, NEW r, ProcOutcome(r, p, dir, c)
  PROVE  ProcKept(r, p, dir)
  <1>1. p \in Seq(PoolNode) /\ Len(p) \in Nat /\ Len(p) >= 3 /\ DOMAIN p = 1 .. Len(p)
    BY MountNodes
  <1>2. /\ Len(p) \in 3 .. PROCFS_POOL /\ \A k \in 1 .. 3 : p[k] = procfs_mount[k]
        /\ \A k \in 4 .. Len(p) : p[k].pid \in Pids /\ p[k].kind \in {"status", "cmdline"}
    BY DEF Mounted
  <1>3. \A i \in 0 .. Len(p) : i \in Nat /\ (i # 0 => i \in DOMAIN p)
    BY SMT, <1>1
  <1>4. ASSUME r.pool = p, r.node \in 0 .. Len(p)
        PROVE  ProcKept(r, p, dir)
    BY <1>3, <1>4 DEF ProcKept
  <1>5. CASE r = Failed(p)
    <2>1. r.pool = p /\ r.node = 0
      BY SMT, <1>5 DEF Failed
    <2>2. 0 \in 0 .. Len(p)
      BY SMT, <1>1
    <2>3. QED
      BY <1>4, <2>1, <2>2
  <1>6. CASE r.pool = p /\ dir = 0 /\ r.node \in 1 .. 3 /\ p[r.node].kind = c
    <2>1. 1 .. 3 \subseteq 0 .. Len(p)
      BY SMT, <1>1
    <2>2. QED
      BY <1>4, <1>6, <2>1
  <1>7. CASE /\ c \in Pids /\ dir \in 0 .. 3 /\ Len(p) < PROCFS_POOL
             /\ r.pool = Append(p, [pid |-> c, kind |-> "status"]) /\ r.node = Len(p) + 1
    <2> DEFINE n == [pid |-> c, kind |-> "status"]
               u == Append(p, n)
    <2>1. n \in PoolNode /\ n.pid = c /\ n.kind = "status"
      BY <1>7 DEF PoolNode, Kinds
    <2> HIDE DEF n
    <2>2. /\ u \in Seq(PoolNode) /\ Len(u) = Len(p) + 1 /\ DOMAIN u = 1 .. Len(p) + 1
          /\ \A j \in DOMAIN p : u[j] = p[j]
          /\ u[Len(p) + 1] = n
      BY SMT, <1>1, <2>1
    <2> HIDE DEF u
    <2>3. /\ Len(u) \in 3 .. PROCFS_POOL /\ 1 .. 3 \subseteq DOMAIN p
          /\ \A k \in 4 .. Len(u) : k = Len(p) + 1 \/ (k \in 4 .. Len(p) /\ k \in DOMAIN p)
          /\ \A j \in DOMAIN p : j \in DOMAIN u
          /\ Len(p) + 1 \in DOMAIN u /\ Len(p) + 1 \in Nat
      BY SMT, <1>1, <1>7, <2>2, ProcfsAssumption
    <2>4. \A k \in 4 .. Len(u) : u[k].pid \in Pids /\ u[k].kind \in {"status", "cmdline"}
      BY <1>2, <1>7, <2>1, <2>2, <2>3
    <2>5. \A k \in 1 .. 3 : u[k] = procfs_mount[k]
      BY <1>2, <2>2, <2>3
    <2>6. Mounted(u)
      BY <2>2, <2>3, <2>4, <2>5 DEF Mounted
    <2>7. r.pool = u /\ r.node = Len(p) + 1
      BY <1>7 DEF n, u
    <2>8. QED
      BY <2>2, <2>3, <2>6, <2>7 DEF ProcKept
  <1>8. CASE dir \in DOMAIN p /\ dir \notin 1 .. 3 /\ r.node = dir /\ c = "cmdline"
               /\ r.pool = [p EXCEPT ![dir].kind = "cmdline"]
    <2> DEFINE u == [p EXCEPT ![dir].kind = "cmdline"]
    <2>1. p[dir] \in PoolNode
      BY SMT, <1>1, <1>8
    <2>2. u[dir] = [p[dir] EXCEPT !.kind = "cmdline"] /\ DOMAIN u = DOMAIN p
            /\ \A j \in DOMAIN p : j # dir => u[j] = p[j]
      BY <1>8
    <2>3. /\ [p[dir] EXCEPT !.kind = "cmdline"] \in PoolNode
          /\ [p[dir] EXCEPT !.kind = "cmdline"].pid = p[dir].pid
          /\ [p[dir] EXCEPT !.kind = "cmdline"].kind = "cmdline"
      BY SMT, <2>1 DEF PoolNode, Kinds
    <2>4. u \in Seq(PoolNode) /\ Len(u) = Len(p)
      BY SMT, <1>1, <1>8, <2>3
    <2> HIDE DEF u
    <2>5. \A k \in 4 .. Len(p) : k \in DOMAIN p
      BY SMT, <1>1
    <2>6. \A k \in 1 .. 3 : k \in DOMAIN p /\ k # dir
      BY SMT, <1>1, <1>8
    <2>7. dir \in 4 .. Len(p)
      BY SMT, <1>1, <1>8
    <2>8. Mounted(u)
      BY <1>2, <2>2, <2>3, <2>4, <2>5, <2>6, <2>7 DEF Mounted
    <2>9. r.pool = u
      BY <1>8 DEF u
    <2>10. QED
      BY <1>3, <1>8, <2>2, <2>4, <2>6, <2>8, <2>9 DEF ProcKept
  <1>9. CASE dir \in DOMAIN p /\ r.node = dir /\ r.pool = p
    BY <1>4, <1>9
  <1>10. QED
    BY <1>5, <1>6, <1>7, <1>8, <1>9 DEF ProcOutcome

-----------------------------------------------------------------------------
(* vfs_resolve.                                                            *)

WalkRecord == [fs : {"none", "tree", "proc"}, node : Nat, pool : Seq(PoolNode)]

WalkStates ==
  {at \in WalkRecord :
     /\ at.fs = "tree" => at.node \in DOMAIN tree
     /\ at.fs = "proc" => Mounted(at.pool) /\ at.node \in DOMAIN at.pool
     /\ Mounted(at.pool) \/ \A i \in DOMAIN tree : tree[i].type # "procfs"}

\* The walk is in /proc, or enters it.
InProc(at) == at.fs = "proc" \/ (at.fs = "tree" /\ tree[at.node].type = "procfs")
ProcDir(at) == IF at.fs = "proc" THEN at.node ELSE 0

\* A look-up in the tree replaces two fields of the state.
LEMMA WalkRecords ==
  ASSUME NEW F, NEW P, NEW at \in [fs : F, node : Nat, pool : P], NEW x \in F, NEW i \in Nat
  PROVE  [at EXCEPT !.fs = x, !.node = i] = [fs |-> x, node |-> i, pool |-> at.pool]
  <1> DEFINE r == [at EXCEPT !.fs = x, !.node = i]
             u == [fs |-> x, node |-> i, pool |-> at.pool]
  <1>1. r \in [fs : F, node : Nat, pool : P] /\ r.fs = x /\ r.node = i /\ r.pool = at.pool
    OBVIOUS
  <1>2. u \in [fs : F, node : Nat, pool : P] /\ u.fs = x /\ u.node = i /\ u.pool = at.pool
    OBVIOUS
  <1> HIDE DEF r, u
  <1>3. r = u
    BY SMT, <1>1, <1>2
  <1>4. QED
    BY <1>3 DEF r, u

\* What a component does to the state of vfs_resolve.
WalkOutcome(r, at, name) ==
  \/ at.fs = "none" /\ r = at
  \/ /\ InProc(at) /\ Mounted(at.pool) /\ ProcDir(at) \in 0 .. Len(at.pool)
     /\ \E q : /\ ProcOutcome(q, at.pool, ProcDir(at), name)
               /\ r = [fs |-> IF q.node = 0 THEN "none" ELSE "proc", node |-> q.node, pool |-> q.pool]
  \/ /\ at.fs = "tree" /\ at.node \in DOMAIN tree /\ ~InProc(at)
     /\ \E i \in 0 .. Len(tree) :
          /\ i = Found(tree, at.node, name)
          /\ r = [fs |-> IF i = 0 THEN "none" ELSE "tree", node |-> i, pool |-> at.pool]

\* Walk does that.
LEMMA WalkStep ==
  ASSUME Shape(tree), tasks \subseteq Pids, NEW at \in WalkStates, NEW name
  PROVE  WalkOutcome(Walk(at, name), at, name)
  <1> DEFINE r == Walk(at, name)
  <1>1. /\ at \in WalkRecord
        /\ at.fs = "tree" => at.node \in DOMAIN tree
        /\ at.fs = "proc" => Mounted(at.pool) /\ at.node \in DOMAIN at.pool
        /\ Mounted(at.pool) \/ \A j \in DOMAIN tree : tree[j].type # "procfs"
    BY DEF WalkStates, WalkRecord
  <1>2. at.fs \in {"none", "tree", "proc"} /\ at.pool \in Seq(PoolNode)
    BY <1>1 DEF WalkRecord
  <1>3. CASE at.fs = "none"
    BY <1>3 DEF Walk, WalkOutcome
  <1>4. CASE InProc(at)
    <2> DEFINE q == procfs_resolve(at.pool, ProcDir(at), name)
    <2>1. Mounted(at.pool)
      BY <1>1, <1>4 DEF InProc
    <2>2. ProcDir(at) \in 0 .. Len(at.pool)
      <3>1. 0 \in 0 .. Len(at.pool) /\ DOMAIN at.pool \subseteq 0 .. Len(at.pool)
        BY SMT, <1>2
      <3>2. QED
        BY <1>1, <3>1 DEF ProcDir
    <2>3. ProcOutcome(q, at.pool, ProcDir(at), name)
      BY <2>1, <2>2, ProcStep
    <2>4. r = [fs |-> IF q.node = 0 THEN "none" ELSE "proc", node |-> q.node, pool |-> q.pool]
      BY <1>4 DEF Walk, InProc, ProcDir
    <2> HIDE DEF q, r
    <2>5. QED
      BY <1>4, <2>1, <2>2, <2>3, <2>4 DEF WalkOutcome, r
  <1>5. CASE at.fs = "tree" /\ ~InProc(at)
    <2> DEFINE i == Found(tree, at.node, name)
    <2>1. r = [at EXCEPT !.fs = IF i = 0 THEN "none" ELSE "tree", !.node = i]
      BY <1>5 DEF Walk, InProc
    <2>2. i \in 0 .. Len(tree)
      BY FoundFacts
    <2>3. r = [fs |-> IF i = 0 THEN "none" ELSE "tree", node |-> i, pool |-> at.pool]
      <3> DEFINE x == IF i = 0 THEN "none" ELSE "tree"
      <3>1. i \in Nat
        BY SMT, <2>2, Nodes
      <3>2. x \in {"none", "tree", "proc"}
        OBVIOUS
      <3>3. r = [at EXCEPT !.fs = x, !.node = i]
        BY <2>1
      <3> HIDE DEF i, r, x
      <3>4. r = [fs |-> x, node |-> i, pool |-> at.pool]
        BY <1>1, <3>1, <3>2, <3>3, WalkRecords DEF WalkRecord
      <3>5. QED
        BY <3>4 DEF x
    <2> HIDE DEF r
    <2>4. QED
      BY <1>1, <1>5, <2>2, <2>3 DEF WalkOutcome, r
  <1>6. QED
    BY <1>2, <1>3, <1>4, <1>5 DEF InProc

\* The state stays one.
LEMMA WalkTyped ==
  ASSUME Shape(tree), tasks \subseteq Pids, NEW at \in WalkStates, NEW name
  PROVE  Walk(at, name) \in WalkStates
  <1> DEFINE r == Walk(at, name)
  <1>1. WalkOutcome(r, at, name)
    BY WalkStep
  <1>2. at \in WalkRecord /\ (Mounted(at.pool) \/ \A i \in DOMAIN tree : tree[i].type # "procfs")
    BY DEF WalkStates
  <1>3. at.pool \in Seq(PoolNode)
    BY <1>2 DEF WalkRecord
  <1> HIDE DEF r
  <1>4. CASE r = at
    BY <1>4 DEF r
  <1>5. ASSUME InProc(at), Mounted(at.pool), ProcDir(at) \in 0 .. Len(at.pool), NEW q,
               ProcOutcome(q, at.pool, ProcDir(at), name),
               r = [fs |-> IF q.node = 0 THEN "none" ELSE "proc", node |-> q.node, pool |-> q.pool]
        PROVE  r \in WalkStates
    <2>1. Mounted(q.pool) /\ q.node \in Nat /\ (q.node # 0 => q.node \in DOMAIN q.pool)
      BY <1>5, ProcKeeps DEF ProcKept
    <2> DEFINE x == IF q.node = 0 THEN "none" ELSE "proc"
    <2>2. x \in {"none", "tree", "proc"} /\ (x = "proc" => q.node # 0) /\ x # "tree"
      OBVIOUS
    <2> HIDE DEF x
    <2>3. r = [fs |-> x, node |-> q.node, pool |-> q.pool]
      BY <1>5 DEF x
    <2>4. r.fs = x /\ r.node = q.node /\ r.pool = q.pool
      BY <2>3
    <2>5. r \in WalkRecord
      BY <2>1, <2>2, <2>3 DEF WalkRecord, Mounted
    <2>6. QED
      BY <2>1, <2>2, <2>4, <2>5 DEF WalkStates
  <1>6. ASSUME NEW i \in 0 .. Len(tree), i = Found(tree, at.node, name),
               r = [fs |-> IF i = 0 THEN "none" ELSE "tree", node |-> i, pool |-> at.pool]
        PROVE  r \in WalkStates
    <2>1. i \in Nat /\ (i # 0 => i \in DOMAIN tree)
      BY SMT, Nodes
    <2> DEFINE x == IF i = 0 THEN "none" ELSE "tree"
    <2>2. x \in {"none", "tree", "proc"} /\ (x = "tree" => i # 0) /\ x # "proc"
      OBVIOUS
    <2> HIDE DEF x
    <2>3. r = [fs |-> x, node |-> i, pool |-> at.pool]
      BY <1>6 DEF x
    <2>4. r.fs = x /\ r.node = i /\ r.pool = at.pool
      BY <2>3
    <2>5. r \in WalkRecord
      BY <1>3, <2>1, <2>2, <2>3 DEF WalkRecord
    <2>6. QED
      BY <1>2, <2>1, <2>2, <2>4, <2>5 DEF WalkStates
  <1>7. QED
    BY <1>1, <1>4, <1>5, <1>6 DEF WalkOutcome, r

Start == [fs |-> "tree", node |-> Root, pool |-> pool]

\* The walk begins at the root.
LEMMA WalkStarts ==
  ASSUME TreeOK(tree), PoolOK
  PROVE  Start \in WalkStates /\ Start.fs = "tree" /\ Start.node = Root /\ Start.pool = pool
  <1>1. Root \in Nat /\ Root \in DOMAIN tree
    BY Nodes DEF TreeOK
  <1>2. pool \in Seq(PoolNode)
    <2>1. <<>> \in Seq(PoolNode)
      BY SMT
    <2>2. QED
      BY <2>1 DEF PoolOK, Mounted
  <1>3. Start.fs = "tree" /\ Start.node = Root /\ Start.pool = pool
    BY SMT DEF Start
  <1>4. Start \in WalkRecord
    BY <1>1, <1>2 DEF Start, WalkRecord
  <1>5. QED
    BY <1>1, <1>3, <1>4 DEF WalkStates, PoolOK

\* vfs_resolve goes through states w[0], w[1], ..., one for each component.
LEMMA ResolveRuns ==
  ASSUME TreeOK(tree), PoolOK, tasks \subseteq Pids, NEW path \in Seq(Names)
  PROVE  \E w : /\ w[0] = Start
                /\ \A k \in 0 .. Len(path) - 1 : w[k + 1] = Walk(w[k], path[k + 1])
                /\ vfs_resolve(path) = w[Len(path)]
  <1> DEFINE n == Len(path)
             g == [j \in 0 .. n - 1 |-> [s \in WalkStates |-> Walk(s, path[j + 1])]]
             P(f) == f = [k \in 0 .. n |-> IF k = 0 THEN Start ELSE Walk(f[k - 1], path[k])]
             at == CHOOSE f : P(f)
  <1>1. n \in Nat /\ 0 \in Nat /\ 0 <= n /\ \A i \in 1 .. n : path[i] \in Names
    BY SMT
  <1>2. Start \in WalkStates
    BY WalkStarts
  <1>3. g \in [0 .. n - 1 -> [WalkStates -> WalkStates]]
    <2> HIDE DEF n
    <2>1. \A j \in 0 .. n - 1 : j + 1 \in 1 .. n
      BY SMT, <1>1
    <2>2. \A j \in 0 .. n - 1 : path[j + 1] \in Names
      BY <1>1, <2>1
    <2>3. QED
      BY <2>2, WalkTyped DEF TreeOK
  <1>4. vfs_resolve(path) = at[n]
    BY DEF vfs_resolve, Start
  <1> HIDE DEF n
  <1>5. PICK h \in [0 .. n -> WalkStates] : Unrolls(h, g, Start, 0, n)
    <2> HIDE DEF g
    <2>1. QED
      BY <1>1, <1>2, <1>3, Unrolled
  <1>6. ASSUME NEW k \in 0 .. n
        PROVE  h[k] = IF k = 0 THEN Start ELSE Walk(h[k - 1], path[k])
    <2>1. CASE k = 0
      BY <1>5, <2>1 DEF Unrolls
    <2>2. CASE k # 0
      <3>1. k - 1 \in 0 .. n - 1 /\ (k - 1) + 1 = k /\ k - 1 \in 0 .. n
        BY SMT, <1>1, <2>2
      <3>2. h[k] = g[k - 1][h[k - 1]]
        BY <1>5, <2>2 DEF Unrolls
      <3>3. h[k - 1] \in WalkStates
        BY <3>1
      <3>4. g[k - 1][h[k - 1]] = Walk(h[k - 1], path[(k - 1) + 1])
        BY <3>1, <3>3
      <3>5. QED
        BY <2>2, <3>1, <3>2, <3>4
    <2>3. QED
      BY <2>1, <2>2
  <1>7. P(h)
    <2>1. h = [k \in 0 .. n |-> h[k]]
      OBVIOUS
    <2>2. QED
      BY <1>6, <2>1
  <1> HIDE DEF P
  <1>8. P(at)
    BY <1>7
  <1> HIDE DEF at
  <1>9. \A k \in 0 .. n : at[k] = IF k = 0 THEN Start ELSE Walk(at[k - 1], path[k])
    BY <1>8 DEF P
  <1>10. at[0] = Start /\ \A k \in 0 .. n - 1 : at[k + 1] = Walk(at[k], path[k + 1])
    <2>1. 0 \in 0 .. n
      BY SMT, <1>1
    <2>2. \A k \in 0 .. n - 1 : k + 1 \in 0 .. n /\ k + 1 # 0 /\ (k + 1) - 1 = k
      BY SMT, <1>1
    <2>3. QED
      BY <1>9, <2>1, <2>2
  <1>11. QED
    BY <1>4, <1>10 DEF n

\* The last element of a sequence to which one is appended.
LEMMA LastAppended ==
  ASSUME NEW S, NEW s \in Seq(S), NEW e \in S
  PROVE  Append(s, e)[Len(s) + 1] = e
  BY SMT

\* Its length.
LEMMA LengthAppended ==
  ASSUME NEW S, NEW s \in Seq(S), NEW e \in S
  PROVE  Append(s, e) \in Seq(S) /\ Len(Append(s, e)) = Len(s) + 1 /\ Len(s) \in Nat
  BY SMT

\* A longer path is resolved by a further component.
LEMMA ResolveAppend ==
  ASSUME TreeOK(tree), PoolOK, tasks \subseteq Pids, NEW path \in Seq(Names), NEW name \in Names
  PROVE  vfs_resolve(Append(path, name)) = Walk(vfs_resolve(path), name)
  <1> DEFINE long == Append(path, name)
             n == Len(path)
  <1>1. /\ long \in Seq(Names) /\ Len(long) = n + 1 /\ n \in Nat /\ long[n + 1] = name
        /\ \A k \in 0 .. n - 1 : long[k + 1] = path[k + 1]
    <2>1. long \in Seq(Names) /\ Len(long) = n + 1 /\ n \in Nat
      BY LengthAppended
    <2>2. \A i \in 1 .. n : long[i] = path[i]
      BY SMT
    <2> long[n + 1] = name
      BY LastAppended
    <2>3. \A k \in 0 .. n - 1 : k + 1 \in 1 .. n
      BY SMT, <2>1
    <2> HIDE DEF long, n
    <2>4. QED
      BY <2>1, <2>2, <2>3
  <1> HIDE DEF long, n
  <1>2. PICK w : /\ w[0] = Start
                 /\ \A k \in 0 .. Len(long) - 1 : w[k + 1] = Walk(w[k], long[k + 1])
                 /\ vfs_resolve(long) = w[Len(long)]
    BY <1>1, ResolveRuns
  <1>3. PICK v : /\ v[0] = Start
                 /\ \A k \in 0 .. n - 1 : v[k + 1] = Walk(v[k], path[k + 1])
                 /\ vfs_resolve(path) = v[n]
    BY ResolveRuns DEF n
  <1>4. /\ \A k \in 0 .. n - 1 : k \in 0 .. Len(long) - 1 /\ k + 1 \in 0 .. n
        /\ n \in 0 .. Len(long) - 1 /\ n \in 0 .. n /\ 0 \in 0 .. n /\ 0 \in Nat
    BY SMT, <1>1
  <1> DEFINE G == {k \in 0 .. n : w[k] = v[k]}
  <1>5. 0 \in G
    BY <1>2, <1>3, <1>4
  <1>6. ASSUME NEW k \in 0 .. n - 1, k \in G PROVE k + 1 \in G
    BY <1>1, <1>2, <1>3, <1>4, <1>6
  <1> HIDE DEF G
  <1>7. \A k \in 0 .. n : k \in G
    BY <1>1, <1>4, <1>5, <1>6, LoopInduction
  <1>8. w[n] = v[n]
    BY <1>4, <1>7 DEF G
  <1>9. QED
    BY <1>1, <1>2, <1>3, <1>4, <1>8 DEF long

\* The empty path is the root's.
LEMMA ResolveEmpty ==
  ASSUME TreeOK(tree), PoolOK, tasks \subseteq Pids
  PROVE  vfs_resolve(<<>>) = Start
  <1>1. <<>> \in Seq(Names) /\ Len(<<>>) = 0
    BY SMT
  <1>2. QED
    BY <1>1, ResolveRuns

\* Every node is found by its path.
LEMMA NodesFound ==
  ASSUME TreeOK(tree), PoolOK, tasks \subseteq Pids
  PROVE  PathsFindNodes
  <1> DEFINE p == PathsIn(tree)
             Good(i) == vfs_resolve(p[i]) \in WalkStates
                          /\ vfs_resolve(p[i]).fs = "tree" /\ vfs_resolve(p[i]).node = i
             G == {k \in 1 .. Len(tree) : \A i \in 1 .. k : Good(i)}
  <1>1. Shape(tree) /\ DOMAIN tree = 1 .. Len(tree) /\ Len(tree) \in Nat /\ Len(tree) >= 1 /\ 1 \in Nat
    BY Nodes DEF TreeOK
  <1>2. 1 \in G
    <2>1. 1 \in 1 .. Len(tree) /\ \A i \in 1 .. 1 : i = Root
      BY SMT, <1>1 DEF Root
    <2>2. p[Root] = <<>>
      BY <1>1, PathFacts
    <2>3. Good(Root)
      BY <2>2, ResolveEmpty, WalkStarts
    <2> HIDE DEF Good
    <2>4. QED
      BY <2>1, <2>3
  <1>3. ASSUME NEW k \in 1 .. Len(tree) - 1, k \in G PROVE k + 1 \in G
    <2> DEFINE i == k + 1
               d == tree[i].parent
               at == vfs_resolve(p[d])
               r == vfs_resolve(p[i])
               j == Found(tree, d, tree[i].name)
    <2>1. /\ k + 1 \in 1 .. Len(tree) /\ k + 1 # Root /\ (k + 1) - 1 = k
          /\ \A h \in 1 .. k + 1 : h = k + 1 \/ h \in 1 .. k
      BY SMT, <1>1 DEF Root
    <2>2. d \in 1 .. k /\ d \in DOMAIN tree /\ tree[i].name \in Names /\ i # 0
      BY <1>1, <2>1, Nodes
    <2>3. at \in WalkStates /\ at.fs = "tree" /\ at.node = d
      BY <1>3, <2>2
    <2>4. p[i] = Append(p[d], tree[i].name) /\ p[d] \in Seq(Names)
      BY <1>1, <2>1, <2>2, PathFacts
    <2>5. r = Walk(at, tree[i].name)
      BY <2>2, <2>4, ResolveAppend
    <2>6. tree[d].type # "procfs"
      BY <1>1, <2>1 DEF TreeOK, ProcAlone
    <2>7. j = i
      <3>1. \A dir, name : \A h \in DOMAIN tree :
              tree[h].parent = dir /\ tree[h].name = name => Found(tree, dir, name) = h
        BY <1>1, FoundFacts
      <3>2. QED
        BY <1>1, <2>1, <3>1
    <2> HIDE DEF i, d, at, r, j, p
    <2>8. r \in WalkStates
      BY <1>1, <2>3, <2>5, WalkTyped
    <2>9. WalkOutcome(r, at, tree[i].name)
      BY <1>1, <2>3, <2>5, WalkStep
    <2>10. r = [fs |-> IF i = 0 THEN "none" ELSE "tree", node |-> i, pool |-> at.pool]
      BY <2>3, <2>6, <2>7, <2>9 DEF WalkOutcome, InProc, j
    <2>11. r.fs = "tree" /\ r.node = i
      BY <2>2, <2>10
    <2>12. Good(i)
      BY <2>8, <2>11 DEF r
    <2> HIDE DEF Good
    <2>13. QED
      BY <1>3, <2>1, <2>12 DEF i
  <1>4. \A k \in 1 .. Len(tree) : k \in G
    <2> HIDE DEF G
    <2>1. QED
      BY <1>1, <1>2, <1>3, LoopInduction
  <1>5. \A k \in 1 .. Len(tree) : k \in 1 .. k
    BY SMT
  <1>6. \A i \in DOMAIN tree : Good(i)
    <2> HIDE DEF Good
    <2>1. QED
      BY <1>1, <1>4, <1>5
  <1>7. PathOf = p
    BY DEF PathOf, PathsIn
  <1> HIDE DEF p
  <1>8. QED
    BY <1>6, <1>7 DEF PathsFindNodes

\* The names on a path, with a further one.
LEMMA NamesStep ==
  ASSUME NEW path, NEW k \in Nat
  PROVE  {path[i] : i \in 1 .. k + 1} = {path[i] : i \in 1 .. k} \cup {path[k + 1]}
  <1>1. \A i : i \in 1 .. k + 1 <=> i \in 1 .. k \/ i = k + 1
    BY SMT
  <1>2. QED
    BY <1>1

\* The nodes of p are in q, and the same there.
NodesKept(p, q) == \A j \in DOMAIN p : j \in DOMAIN q /\ q[j] = p[j]

\* Where a walk along path is after k components.
WalkInv(at, path, k) ==
  /\ at \in WalkStates /\ NodesKept(pool, at.pool) /\ (at.pool = pool \/ Mounted(at.pool))
  /\ at.fs = "tree" => PathsIn(tree)[at.node] = SubSeq(path, 1, k) /\ at.pool = pool
  /\ at.fs = "proc" => /\ at.node \in 1 .. 3 \/ at.node \notin DOMAIN pool
                       /\ Means(at.pool[at.node], path, k)

\* A step in /proc keeps the nodes that descriptors may be open on, and the
\* node it leads to is what the path says.
LEMMA ProcMeaning ==
  ASSUME TreeOK(tree), PoolOK, NEW path \in Seq(Names), NEW k \in 0 .. Len(path) - 1, NEW at,
         WalkInv(at, path, k), InProc(at), Mounted(at.pool), ProcDir(at) \in 0 .. Len(at.pool),
         NEW q, ProcOutcome(q, at.pool, ProcDir(at), path[k + 1])
  PROVE  /\ Mounted(q.pool) /\ NodesKept(pool, q.pool)
         /\ q.node # 0 => /\ q.node \in 1 .. 3 \/ q.node \notin DOMAIN pool
                          /\ Means(q.pool[q.node], path, k + 1)
  <1> DEFINE p == at.pool
             dir == ProcDir(at)
             c == path[k + 1]
             names(n) == {path[i] : i \in 1 .. n}
  <1>1. k \in Nat /\ k \in 0 .. Len(path) /\ k + 1 \in 1 .. Len(path)
    BY SMT
  <1>2. /\ Mounted(q.pool) /\ q.node \in Nat /\ (q.node # 0 => q.node \in DOMAIN q.pool)
        /\ \A j \in DOMAIN p : j \in DOMAIN q.pool /\ (j # dir \/ j \in 1 .. 3 => q.pool[j] = p[j])
    <2>1. ProcKept(q, p, dir)
      BY ProcKeeps
    <2>2. QED
      BY <2>1 DEF ProcKept
  <1>3. /\ p \in Seq(PoolNode) /\ Len(p) \in Nat /\ Len(p) >= 3 /\ DOMAIN p = 1 .. Len(p)
        /\ \A i \in 1 .. 3 : i \in DOMAIN p /\ p[i].pid = NoPid /\ p[i].kind \in Static
        /\ \A i \in DOMAIN p : i \notin 1 .. 3 => p[i].pid \in Pids
    BY MountNodes
  <1>4. NodesKept(pool, p) /\ at \in WalkStates
    BY DEF WalkInv
  <1>5. dir = 0 => k = 1 /\ path[1] = "proc" /\ p = pool
    <2>1. SUFFICES ASSUME dir = 0 PROVE k = 1 /\ path[1] = "proc" /\ p = pool
      OBVIOUS
    <2>2. ~(at.fs = "proc")
      <3>1. ~(0 \in DOMAIN p)
        BY SMT, <1>3
      <3>2. at.fs = "proc" => at.node \in DOMAIN p
        BY <1>4 DEF WalkStates
      <3>3. QED
        BY <2>1, <3>1, <3>2 DEF ProcDir
    <2>3. at.fs = "tree" /\ tree[at.node].type = "procfs"
      BY <2>2 DEF InProc
    <2>4. at.node \in DOMAIN tree
      BY <1>4, <2>3 DEF WalkStates
    <2>5. SubSeq(path, 1, k) = <<"proc">> /\ p = pool
      BY <2>3, <2>4, ProcPath DEF WalkInv
    <2>6. QED
      BY <1>1, <2>5, PathPrefixes
  <1>6. dir # 0 => /\ dir = at.node /\ dir \in DOMAIN p
                   /\ dir \in 1 .. 3 \/ dir \notin DOMAIN pool
                   /\ Means(p[dir], path, k)
    BY <1>4 DEF ProcDir, WalkInv, WalkStates
  <1>7. NodesKept(pool, q.pool)
    <2>1. SUFFICES ASSUME NEW j \in DOMAIN pool PROVE j \in DOMAIN q.pool /\ q.pool[j] = pool[j]
      BY DEF NodesKept
    <2>2. j \in DOMAIN p /\ p[j] = pool[j]
      BY <1>4 DEF NodesKept
    <2>3. j # dir \/ j \in 1 .. 3
      <3>1. ~(0 \in DOMAIN p)
        BY SMT, <1>3
      <3>2. QED
        BY <1>6, <2>2, <3>1
    <2>4. QED
      BY <1>2, <2>2, <2>3
  <1>8. names(k + 1) = names(k) \cup {c}
    BY <1>1, NamesStep
  <1>9. names(1) = {path[1]} /\ names(2) = {path[1], path[2]}
    <2>1. 1 \in 1 .. 1 /\ \A i \in 1 .. 1 : i = 1
      BY SMT
    <2>2. names(1) = {path[1]}
      BY <2>1
    <2>3. names(1 + 1) = names(1) \cup {path[1 + 1]} /\ 1 + 1 = 2
      <3>1. 1 \in Nat /\ 1 + 1 = 2
        BY SMT
      <3>2. QED
        BY <3>1, NamesStep
    <2> HIDE DEF names
    <2>4. QED
      BY <2>2, <2>3
  <1>10. /\ ~("proc" \in Pids) /\ ~(NoPid \in Pids) /\ ~("cmdline" \in Pids)
         /\ ~("cmdline" \in Static) /\ "cmdline" # "proc" /\ "cmdline" # "status"
    BY ProcfsAssumption DEF Kinds, Static
  <1> HIDE DEF p, dir, c, names
  <1>11. CASE q = Failed(p)
    <2>1. q.node = 0
      BY SMT, <1>11 DEF Failed
    <2>2. QED
      BY <1>2, <1>7, <2>1
  <1>12. CASE q.pool = p /\ dir = 0 /\ q.node \in 1 .. 3 /\ p[q.node].kind = c
    <2>1. k + 1 = 2 /\ path[2] = c
      <3>1. k + 1 = 2
        BY SMT, <1>5, <1>12
      <3>2. QED
        BY <3>1 DEF c
    <2>2. Means(q.pool[q.node], path, k + 1)
      BY <1>3, <1>5, <1>12, <2>1 DEF Means
    <2>3. QED
      BY <1>2, <1>7, <1>12, <2>2
  <1>13. CASE /\ c \in Pids /\ dir \in 0 .. 3
              /\ q.pool = Append(p, [pid |-> c, kind |-> "status"]) /\ q.node = Len(p) + 1
    <2>1. ~("cmdline" \in names(k + 1))
      <3>1. CASE dir = 0
        BY <1>5, <1>8, <1>9, <1>10, <1>13, <3>1
      <3>2. CASE dir # 0
        <4>1. dir \in 1 .. 3
          BY SMT, <1>13, <3>2
        <4>2. p[dir].pid = NoPid /\ p[dir].kind \in Static
          BY <1>3, <4>1
        <4>3. k = 2 /\ path[1] = "proc" /\ path[2] = p[dir].kind
          BY <1>6, <1>10, <3>2, <4>2 DEF Means
        <4>4. QED
          BY <1>8, <1>9, <1>10, <1>13, <4>2, <4>3
      <3>3. QED
        BY <3>1, <3>2
    <2>2. q.pool[q.node] = [pid |-> c, kind |-> "status"] /\ q.node \notin DOMAIN p
      <3> DEFINE n == [pid |-> c, kind |-> "status"]
      <3>1. n \in PoolNode
        BY <1>13 DEF PoolNode, Kinds
      <3> HIDE DEF n
      <3>2. Append(p, n)[Len(p) + 1] = n /\ Len(p) + 1 \notin DOMAIN p
        BY SMT, <1>3, <3>1
      <3>3. QED
        BY <1>13, <3>2 DEF n
    <2>3. q.pool[q.node].pid = c /\ q.pool[q.node].kind = "status"
      BY SMT, <2>2
    <2>4. c \in names(k + 1)
      BY <1>8
    <2>5. Means(q.pool[q.node], path, k + 1)
      BY <1>13, <2>1, <2>3, <2>4 DEF Means, names
    <2>6. q.node \notin DOMAIN pool
      BY <1>4, <2>2 DEF NodesKept, p
    <2>7. QED
      BY <1>2, <1>7, <2>5, <2>6
  <1>14. ASSUME dir \in DOMAIN p, dir \notin 1 .. 3
         PROVE  /\ dir # 0 /\ dir \notin DOMAIN pool /\ p[dir].pid \in Pids \cap names(k)
                /\ p[dir].pid \in names(k + 1)
                /\ p[dir].kind = IF "cmdline" \in names(k) THEN "cmdline" ELSE "status"
    <2>1. dir # 0
      BY SMT, <1>3, <1>14
    <2>2. p[dir].pid \in Pids /\ p[dir].pid # NoPid
      BY <1>3, <1>10, <1>14
    <2>3. Means(p[dir], path, k) /\ dir \notin DOMAIN pool
      BY <1>6, <1>14, <2>1
    <2>4. QED
      BY <1>8, <2>1, <2>2, <2>3 DEF Means, names
  <1>15. CASE /\ dir \in DOMAIN p /\ dir \notin 1 .. 3 /\ q.node = dir /\ c = "cmdline"
              /\ q.pool = [p EXCEPT ![dir].kind = "cmdline"]
    <2>1. p[dir] \in PoolNode
      BY SMT, <1>3, <1>15
    <2>2. q.pool[dir] = [p[dir] EXCEPT !.kind = "cmdline"]
      BY <1>15
    <2>3. q.pool[dir].pid = p[dir].pid /\ q.pool[dir].kind = "cmdline"
      BY SMT, <2>1, <2>2 DEF PoolNode
    <2>4. "cmdline" \in names(k + 1)
      BY <1>8, <1>15
    <2>5. Means(q.pool[q.node], path, k + 1)
      BY <1>14, <1>15, <2>3, <2>4 DEF Means, names
    <2>6. QED
      BY <1>2, <1>7, <1>14, <1>15, <2>5
  <1>16. CASE dir \in DOMAIN p /\ dir \notin 1 .. 3 /\ q.node = dir /\ c = "status" /\ q.pool = p
    <2>1. "cmdline" \in names(k + 1) <=> "cmdline" \in names(k)
      BY <1>8, <1>10, <1>16
    <2>2. Means(q.pool[q.node], path, k + 1)
      BY <1>14, <1>16, <2>1 DEF Means, names
    <2>3. QED
      BY <1>2, <1>7, <1>14, <1>16, <2>2
  <1>17. QED
    BY <1>11, <1>12, <1>13, <1>15, <1>16 DEF ProcOutcome, p, dir, c

\* vfs_resolve leads where its path does.
LEMMA ResolveFacts ==
  ASSUME TreeOK(tree), PoolOK, tasks \subseteq Pids, NEW path \in Seq(Names)
  PROVE  WalkInv(vfs_resolve(path), path, Len(path))
  <1>1. PICK w : /\ w[0] = Start
                 /\ \A k \in 0 .. Len(path) - 1 : w[k + 1] = Walk(w[k], path[k + 1])
                 /\ vfs_resolve(path) = w[Len(path)]
    BY ResolveRuns
  <1>2. Len(path) \in Nat /\ 0 \in Nat /\ 0 \in 0 .. Len(path) /\ Len(path) \in 0 .. Len(path)
          /\ \A k \in 0 .. Len(path) - 1 : k + 1 \in 0 .. Len(path)
    BY SMT
  <1>3. WalkInv(w[0], path, 0)
    <2>1. PathsIn(tree)[Root] = SubSeq(path, 1, 0)
      BY PathFacts, PathPrefixes DEF TreeOK
    <2>2. NodesKept(pool, pool)
      BY DEF NodesKept
    <2>3. "tree" # "proc"
      OBVIOUS
    <2>4. QED
      BY <1>1, <2>1, <2>2, <2>3, WalkStarts DEF WalkInv
  <1>4. ASSUME NEW k \in 0 .. Len(path) - 1, WalkInv(w[k], path, k) PROVE WalkInv(w[k + 1], path, k + 1)
    <2> DEFINE at == w[k]
               r == w[k + 1]
               c == path[k + 1]
    <2>1. r = Walk(at, c) /\ at \in WalkStates
      BY <1>1, <1>4 DEF WalkInv
    <2>2. WalkOutcome(r, at, c) /\ r \in WalkStates
      BY <2>1, WalkStep, WalkTyped DEF TreeOK
    <2> HIDE DEF at, r, c
    <2>3. CASE at.fs = "none" /\ r = at
      BY <1>4, <2>3 DEF WalkInv, at, r
    <2>4. ASSUME InProc(at), Mounted(at.pool), ProcDir(at) \in 0 .. Len(at.pool), NEW q,
                 ProcOutcome(q, at.pool, ProcDir(at), c),
                 r = [fs |-> IF q.node = 0 THEN "none" ELSE "proc", node |-> q.node, pool |-> q.pool]
          PROVE  WalkInv(r, path, k + 1)
      <3>1. /\ Mounted(q.pool) /\ NodesKept(pool, q.pool)
            /\ q.node # 0 => /\ q.node \in 1 .. 3 \/ q.node \notin DOMAIN pool
                             /\ Means(q.pool[q.node], path, k + 1)
        BY <1>4, <2>4, ProcMeaning DEF at, c
      <3>2. /\ r.node = q.node /\ r.pool = q.pool /\ ~(r.fs = "tree") /\ (r.fs = "proc" => q.node # 0)
        BY <2>4
      <3>3. QED
        BY <2>2, <3>1, <3>2 DEF WalkInv
    <2>5. ASSUME at.fs = "tree", at.node \in DOMAIN tree, NEW i \in 0 .. Len(tree), i = Found(tree, at.node, c),
                 r = [fs |-> IF i = 0 THEN "none" ELSE "tree", node |-> i, pool |-> at.pool]
          PROVE  WalkInv(r, path, k + 1)
      <3>1. r.node = i /\ r.pool = at.pool /\ ~(r.fs = "proc") /\ (r.fs = "tree" => i # 0)
        BY <2>5
      <3>2. PathsIn(tree)[at.node] = SubSeq(path, 1, k) /\ at.pool = pool
        BY <1>4, <2>5 DEF WalkInv, at
      <3>3. i # 0 => PathsIn(tree)[i] = SubSeq(path, 1, k + 1)
        <4>1. SUFFICES ASSUME i # 0 PROVE PathsIn(tree)[i] = SubSeq(path, 1, k + 1)
          OBVIOUS
        <4>2. \A dir, x : Found(tree, dir, x) # 0 =>
                /\ Found(tree, dir, x) \in DOMAIN tree /\ tree[Found(tree, dir, x)].parent = dir
                /\ tree[Found(tree, dir, x)].name = x
          BY FoundFacts DEF TreeOK
        <4>3. i \in DOMAIN tree /\ tree[i].parent = at.node /\ tree[i].name = c
          BY <2>5, <4>1, <4>2
        <4>4. i # Root
          BY <2>5, <4>3, Nodes DEF TreeOK
        <4>5. PathsIn(tree)[i] = Append(PathsIn(tree)[at.node], c)
          BY <4>3, <4>4, PathFacts DEF TreeOK
        <4>6. SubSeq(path, 1, k + 1) = Append(SubSeq(path, 1, k), c)
          BY PathPrefixes DEF c
        <4>7. QED
          BY <3>2, <4>5, <4>6
      <3>4. NodesKept(pool, pool)
        BY DEF NodesKept
      <3>5. QED
        BY <2>2, <3>1, <3>2, <3>3, <3>4 DEF WalkInv
    <2>6. QED
      BY <2>2, <2>3, <2>4, <2>5 DEF WalkOutcome, r
  <1> DEFINE G == {k \in 0 .. Len(path) : WalkInv(w[k], path, k)}
  <1>5. 0 \in G /\ \A k \in 0 .. Len(path) - 1 : k \in G => k + 1 \in G
    BY <1>2, <1>3, <1>4
  <1> HIDE DEF G
  <1>6. \A k \in 0 .. Len(path) : k \in G
    BY <1>2, <1>5, LoopInduction
  <1>7. QED
    BY <1>1, <1>2, <1>6 DEF G

-----------------------------------------------------------------------------
(* The boot.                                                               *)

\* The elements of a concatenation.
LEMMA Concat ==
  ASSUME NEW S, NEW a \in Seq(S), NEW b \in Seq(S)
  PROVE  /\ a \o b \in Seq(S) /\ Len(a \o b) = Len(a) + Len(b) /\ Len(a) \in Nat /\ Len(b) \in Nat
         /\ \A i \in 1 .. Len(a) : (a \o b)[i] = a[i]
         /\ \A i \in Len(a) + 1 .. Len(a) + Len(b) : (a \o b)[i] = b[i - Len(a)]
         /\ b = SubSeq(a \o b, Len(a) + 1, Len(a \o b))
  <1>1. a \o b \in Seq(S) /\ Len(a \o b) = Len(a) + Len(b) /\ Len(a) \in Nat /\ Len(b) \in Nat
    BY SMT
  <1>2. \A i \in 1 .. Len(a) : (a \o b)[i] = a[i]
    BY SMT
  <1>3. \A i \in Len(a) + 1 .. Len(a) + Len(b) : (a \o b)[i] = b[i - Len(a)]
    BY SMT
  <1>4. b = SubSeq(a \o b, Len(a) + 1, Len(a \o b))
    BY SMT
  <1>5. QED
    BY <1>1, <1>2, <1>3, <1>4

\* What is left of a sequence from its element k on.
LEMMA Rest ==
  ASSUME NEW S, NEW s \in Seq(S), NEW k \in 1 .. Len(s)
  PROVE  LET r == SubSeq(s, k, Len(s)) IN
         /\ r # <<>> /\ Head(r) = s[k] /\ Tail(r) = SubSeq(s, k + 1, Len(s))
         /\ Tail(r) # <<>> => k + 1 \in 1 .. Len(s)
  <1> DEFINE r == SubSeq(s, k, Len(s))
  <1>1. Len(s) \in Nat /\ Len(s) \in k .. Len(s)
    BY SMT
  <1>2. Head(r) = s[k] /\ Tail(r) = SubSeq(s, k + 1, Len(s))
    BY <1>1, HeadTailOfSubSeq
  <1>3. r # <<>>
    <2>1. r[1] = s[k] /\ Len(r) >= 1
      BY SMT
    <2> HIDE DEF r
    <2>2. Len(<<>>) = 0 /\ ~(0 >= 1)
      BY SMT
    <2>3. QED
      BY <2>1, <2>2
  <1>4. ASSUME ~(k + 1 \in 1 .. Len(s)) PROVE SubSeq(s, k + 1, Len(s)) = <<>>
    BY SMT, <1>1, <1>4
  <1>5. QED
    BY <1>2, <1>3, <1>4

\* A sequence of one element.
LEMMA SingletonSeq ==
  ASSUME NEW S, NEW x \in S
  PROVE  <<x>> \in Seq(S) /\ Len(<<x>>) = 1 /\ <<x>>[1] = x
  BY SMT

\* The first element of a sequence.
LEMMA FirstOnly ==
  ASSUME NEW S, NEW s \in Seq(S), 1 <= Len(s)
  PROVE  SubSeq(s, 1, 1) = <<s[1]>>
  <1>1. SubSeq(s, 1, 1) \in Seq(S) /\ Len(SubSeq(s, 1, 1)) = 1 /\ SubSeq(s, 1, 1)[1] = s[1]
    BY SMT
  <1>2. ASSUME NEW u \in Seq(S), Len(u) = 1 PROVE u = <<u[1]>>
    BY SMT, <1>2
  <1>3. QED
    BY <1>1, <1>2

Entry == [type : {"dir", "file", "dev", "proc"}, path : Seq(Names), data : Seq({"old"})]

\* The entries for devices, or for /proc.
LEMMA EntryFacts ==
  ASSUME NEW type \in {"dev", "proc"}, NEW names \in Seq(Names)
  PROVE  /\ Entries(type, names) \in Seq(Entry) /\ Len(Entries(type, names)) = Len(names)
         /\ \A k \in 1 .. Len(names) :
              /\ Entries(type, names)[k] = [type |-> type, path |-> <<names[k]>>, data |-> <<>>]
              /\ names[k] \in Names
  <1>1. DOMAIN names = 1 .. Len(names) /\ Len(names) \in Nat /\ \A k \in 1 .. Len(names) : names[k] \in Names
    BY SMT
  <1>2. \A x \in Names : <<x>> \in Seq(Names)
    BY SingletonSeq
  <1>3. <<>> \in Seq({"old"})
    BY SMT
  <1>4. \A x \in Names : [type |-> type, path |-> <<x>>, data |-> <<>>] \in Entry
    BY <1>2, <1>3 DEF Entry
  <1>5. Entries(type, names) \in [1 .. Len(names) -> Entry]
    BY <1>1, <1>4 DEF Entries
  <1>6. Entries(type, names) \in Seq(Entry) /\ Len(Entries(type, names)) = Len(names)
    BY SMT, <1>1, <1>5
  <1>7. QED
    BY <1>1, <1>6 DEF Entries

FromArchive == [type : {"dir", "file"}, path : Seq(Names) \ {<<>>}, data : Seq({"old"})]

\* What an entry of Plan is: a device, /proc or from the initrd.
PlanEntry(e) ==
  \/ \E x \in Names : e = [type |-> "dev", path |-> <<x>>, data |-> <<>>]
  \/ e = [type |-> "proc", path |-> <<"proc">>, data |-> <<>>]
  \/ e \in FromArchive

\* Plan consists of them; /proc is one, and the devices that are mounted after
\* the initrd are the end of it.
LEMMA PlanFacts ==
  /\ Plan \in Seq(Entry) /\ \A k \in 1 .. Len(Plan) : PlanEntry(Plan[k])
  /\ \E k \in 1 .. Len(Plan) : Plan[k] = [type |-> "proc", path |-> <<"proc">>, data |-> <<>>]
  /\ \E n \in 0 .. Len(Plan) :
       /\ Entries("dev", LateDevices) = SubSeq(Plan, n + 1, Len(Plan))
       /\ \A k \in n + 1 .. Len(Plan) : Plan[k].type = "dev"
  <1> DEFINE a == Entries("dev", Devices)
             b == Entries("proc", <<"proc">>)
             d == Entries("dev", LateDevices)
             ab == a \o b
             abc == ab \o Archive
             OK(s) == \A k \in 1 .. Len(s) : PlanEntry(s[k])
  <1>1. Devices \in Seq(Names) /\ LateDevices \in Seq(Names) /\ Archive \in Seq(FromArchive)
    BY VfsAssumption DEF FromArchive
  <1>2. /\ a \in Seq(Entry) /\ Len(a) = Len(Devices)
        /\ \A k \in 1 .. Len(Devices) : /\ a[k] = [type |-> "dev", path |-> <<Devices[k]>>, data |-> <<>>]
                                       /\ Devices[k] \in Names
    BY <1>1, EntryFacts
  <1>3. /\ d \in Seq(Entry) /\ Len(d) = Len(LateDevices)
        /\ \A k \in 1 .. Len(LateDevices) : /\ d[k] = [type |-> "dev", path |-> <<LateDevices[k]>>, data |-> <<>>]
                                           /\ LateDevices[k] \in Names
    BY <1>1, EntryFacts
  <1>4. b \in Seq(Entry) /\ Len(b) = 1 /\ b[1] = [type |-> "proc", path |-> <<"proc">>, data |-> <<>>]
    <2>1. <<"proc">> \in Seq(Names)
      <3>1. "proc" \in Names
        BY VfsAssumption
      <3>2. QED
        BY <3>1, SingletonSeq
    <2>2. Len(<<"proc">>) = 1 /\ <<"proc">>[1] = "proc"
      BY SMT
    <2>3. 1 \in 1 .. 1
      BY SMT
    <2>4. QED
      BY <2>1, <2>2, <2>3, EntryFacts
  <1>5. Archive \in Seq(Entry) /\ \A k \in 1 .. Len(Archive) : Archive[k] \in FromArchive
    <2>1. Len(Archive) \in Nat /\ Archive \in [1 .. Len(Archive) -> FromArchive]
      BY SMT, <1>1
    <2>2. FromArchive \subseteq Entry
      BY DEF FromArchive, Entry
    <2>3. Archive \in [1 .. Len(Archive) -> Entry]
      BY <2>1, <2>2
    <2>4. Archive \in Seq(Entry)
      BY SMT, <2>1, <2>3
    <2>5. QED
      BY <2>1, <2>4
  <1> HIDE DEF a, b, d
  <1>6. OK(a) /\ OK(d)
    BY <1>2, <1>3 DEF PlanEntry
  <1>7. OK(b)
    <2>1. \A k \in 1 .. 1 : k = 1
      BY SMT
    <2>2. QED
      BY <1>4, <2>1 DEF PlanEntry
  <1>8. OK(Archive)
    BY <1>5 DEF PlanEntry
  <1>9. ASSUME NEW s \in Seq(Entry), NEW u \in Seq(Entry), OK(s), OK(u)
        PROVE  s \o u \in Seq(Entry) /\ OK(s \o u)
    <2>1. /\ s \o u \in Seq(Entry) /\ Len(s \o u) = Len(s) + Len(u) /\ Len(s) \in Nat /\ Len(u) \in Nat
          /\ \A i \in 1 .. Len(s) : (s \o u)[i] = s[i]
          /\ \A i \in Len(s) + 1 .. Len(s) + Len(u) : (s \o u)[i] = u[i - Len(s)]
      BY Concat
    <2>2. \A k \in 1 .. Len(s) + Len(u) : k \in 1 .. Len(s) \/ (k \in Len(s) + 1 .. Len(s) + Len(u) /\ k - Len(s) \in 1 .. Len(u))
      BY SMT, <2>1
    <2>3. QED
      BY <1>9, <2>1, <2>2
  <1>10. ab \in Seq(Entry) /\ OK(ab)
    <2> HIDE DEF OK
    <2>1. QED
      BY <1>2, <1>4, <1>6, <1>7, <1>9
  <1>11. abc \in Seq(Entry) /\ OK(abc)
    <2> HIDE DEF OK, ab
    <2>1. QED
      BY <1>5, <1>8, <1>9, <1>10
  <1>12. Plan = abc \o d
    BY DEF Plan, a, b, d
  <1>13. Plan \in Seq(Entry) /\ OK(Plan)
    <2> HIDE DEF OK, abc
    <2>1. QED
      BY <1>3, <1>6, <1>9, <1>11, <1>12
  <1> HIDE DEF OK
  <1>14. Len(a) \in Nat /\ Len(ab) = Len(a) + 1 /\ ab[Len(a) + 1] = b[1]
    <2>1. Len(a) \in Nat /\ Len(ab) = Len(a) + Len(b)
            /\ \A i \in Len(a) + 1 .. Len(a) + Len(b) : ab[i] = b[i - Len(a)]
      <3>1. a \in Seq(Entry) /\ b \in Seq(Entry)
        BY <1>2, <1>4
      <3>2. QED
        BY <3>1, Concat
    <2> HIDE DEF ab
    <2>2. Len(a) + 1 \in Len(a) + 1 .. Len(a) + Len(b) /\ (Len(a) + 1) - Len(a) = 1
      BY SMT, <1>4, <2>1
    <2>3. QED
      BY <1>4, <2>1, <2>2
  <1> HIDE DEF ab
  <1>15. /\ Len(abc) = Len(ab) + Len(Archive) /\ Len(Archive) \in Nat
         /\ \A i \in 1 .. Len(ab) : abc[i] = ab[i]
    BY <1>5, <1>10, Concat
  <1> HIDE DEF abc
  <1>16. /\ Len(Plan) = Len(abc) + Len(d) /\ Len(d) \in Nat /\ Len(abc) \in Nat
         /\ \A i \in 1 .. Len(abc) : Plan[i] = abc[i]
         /\ \A i \in Len(abc) + 1 .. Len(abc) + Len(d) : Plan[i] = d[i - Len(abc)]
         /\ d = SubSeq(Plan, Len(abc) + 1, Len(Plan))
    <2>1. abc \in Seq(Entry) /\ d \in Seq(Entry)
      BY <1>3, <1>11
    <2>2. QED
      BY <1>12, <2>1, Concat
  <1>17. Plan[Len(a) + 1] = b[1] /\ Len(a) + 1 \in 1 .. Len(Plan)
    <2>1. Len(a) + 1 \in 1 .. Len(ab) /\ Len(a) + 1 \in 1 .. Len(abc) /\ Len(a) + 1 \in 1 .. Len(Plan)
      <3>1. /\ Len(a) \in Nat /\ Len(ab) = Len(a) + 1 /\ Len(abc) = Len(ab) + Len(Archive)
            /\ Len(Archive) \in Nat /\ Len(Plan) = Len(abc) + Len(d) /\ Len(d) \in Nat
        BY <1>14, <1>15, <1>16
      <3>2. QED
        BY SMT, <3>1
    <2>2. QED
      BY <1>14, <1>15, <1>16, <2>1
  <1>18. \A k \in Len(abc) + 1 .. Len(Plan) : Plan[k].type = "dev"
    <2>1. SUFFICES ASSUME NEW k \in Len(abc) + 1 .. Len(Plan) PROVE Plan[k].type = "dev"
      OBVIOUS
    <2>2. k - Len(abc) \in 1 .. Len(d) /\ k \in Len(abc) + 1 .. Len(abc) + Len(d)
      BY SMT, <1>16
    <2>3. Plan[k] = [type |-> "dev", path |-> <<LateDevices[k - Len(abc)]>>, data |-> <<>>]
      BY <1>3, <1>16, <2>2
    <2>4. QED
      BY SMT, <2>3
  <1>19. Len(abc) \in 0 .. Len(Plan)
    BY SMT, <1>16
  <1>20. QED
    BY <1>4, <1>13, <1>16, <1>17, <1>18, <1>19 DEF OK, d

\* The place p of the entry e.
EntryPlaced(e, p) ==
  /\ p \in Seq(Names) /\ p # <<>> /\ e.type \in {"dir", "file", "dev", "proc"}
  /\ e.type \in {"dir", "file"} => p = e.path /\ e \in FromArchive
  /\ e.type = "dev" => p = <<"dev">> \o <<e.path[1]>> /\ e.path[1] \in Names
  /\ e.type = "proc" => p = <<"proc">>

\* Where the entries of Plan are put, only /proc at /proc.
LEMMA PlaceFacts ==
  ASSUME NEW k \in 1 .. Len(Plan)
  PROVE  /\ EntryPlaced(Plan[k], Place(Plan[k]))
         /\ Plan[k].type # "proc" => Place(Plan[k])[1] # "proc"
  <1> DEFINE e == Plan[k]
             p == Place(e)
  <1>1. PlanEntry(e) /\ Plan \in Seq(Entry)
    BY PlanFacts
  <1>2. DOMAIN Plan = 1 .. Len(Plan)
    BY SMT, <1>1
  <1> HIDE DEF e, p
  <1>3. EntryPlaced(e, p)
    <2>1. ASSUME NEW x \in Names, e = [type |-> "dev", path |-> <<x>>, data |-> <<>>] PROVE EntryPlaced(e, p)
      <3>1. e.type = "dev" /\ e.path = <<x>>
        BY <2>1
      <3>2. p = <<"dev">> \o <<x>>
        BY <3>1 DEF Place, p
      <3>3. <<"dev">> \in Seq(Names) /\ <<x>> \in Seq(Names) /\ <<x>>[1] = x
        BY SingletonSeq, VfsAssumption
      <3>4. p \in Seq(Names) /\ p # <<>>
        <4>1. <<"dev">> \o <<x>> \in Seq(Names) /\ Len(<<"dev">> \o <<x>>) = Len(<<"dev">>) + Len(<<x>>)
          BY <3>3, Concat
        <4>2. Len(<<"dev">>) = 1 /\ Len(<<x>>) = 1 /\ 1 + 1 # 0 /\ Len(<<>>) = 0
          BY SMT
        <4>3. QED
          BY <3>2, <4>1, <4>2
      <3>5. QED
        BY <3>1, <3>2, <3>3, <3>4 DEF EntryPlaced
    <2>2. CASE e = [type |-> "proc", path |-> <<"proc">>, data |-> <<>>]
      <3>1. e.type = "proc" /\ e.path = <<"proc">>
        BY <2>2
      <3>2. p = <<"proc">>
        BY <3>1 DEF Place, p
      <3>3. <<"proc">> \in Seq(Names) /\ <<"proc">> # <<>>
        <4>1. <<"proc">> # <<>>
          BY SMT
        <4>2. QED
          BY <4>1, SingletonSeq, VfsAssumption
      <3>4. QED
        BY <3>1, <3>2, <3>3 DEF EntryPlaced
    <2>3. CASE e \in FromArchive
      <3>1. e.type \in {"dir", "file"} /\ e.path \in Seq(Names) /\ e.path # <<>>
        BY <2>3 DEF FromArchive
      <3>2. p = e.path
        BY <3>1 DEF Place, p
      <3>3. QED
        BY <2>3, <3>1, <3>2 DEF EntryPlaced
    <2>4. QED
      BY <1>1, <2>1, <2>2, <2>3 DEF PlanEntry
  <1>4. e.type # "proc" => p[1] # "proc"
    <2>1. SUFFICES ASSUME e.type # "proc", p[1] = "proc" PROVE FALSE
      OBVIOUS
    <2>2. PICK j \in 1 .. Len(Plan) : Plan[j] = [type |-> "proc", path |-> <<"proc">>, data |-> <<>>]
      BY PlanFacts
    <2>3. Plan[j].type = "proc" /\ Plan[j].path = <<"proc">>
      BY SMT, <2>2
    <2>4. j # k /\ Place(Plan[j]) = <<"proc">> /\ Plan[j].type # "dir"
      BY <2>1, <2>3 DEF Place, e
    <2>5. Encloses(<<"proc">>, p)
      <3> p \in Seq(Names) /\ p # <<>>
        BY <1>3 DEF EntryPlaced
      <3>1. Len(<<"proc">>) = 1 /\ 1 <= Len(p) /\ <<"proc">>[1] = "proc" /\ \A i \in 1 .. 1 : i = 1
        BY SMT
      <3>2. QED
        BY <2>1, <3>1 DEF Encloses
    <2>6. QED
      BY <1>2, <2>4, <2>5, VfsAssumption DEF e, p
  <1>5. QED
    BY <1>3, <1>4 DEF e, p

\* What leads to a prefix of a path leads to the path, as does the path itself.
LEMMA LeadsOn ==
  ASSUME NEW p \in Seq(Names), NEW m \in 0 .. Len(p), NEW q, LeadsTo(q, SubSeq(p, 1, m))
  PROVE  LeadsTo(q, p)
  <1>1. m \in 0 .. Len(p) /\ Len(SubSeq(p, 1, m)) = m
    BY PathPrefixes
  <1>2. PICK n \in 0 .. m : q = SubSeq(SubSeq(p, 1, m), 1, n)
    BY <1>1 DEF LeadsTo
  <1>3. n \in 0 .. Len(p) /\ SubSeq(SubSeq(p, 1, m), 1, n) = SubSeq(p, 1, n)
    BY SMT, <1>2
  <1>4. QED
    BY <1>2, <1>3 DEF LeadsTo

\* Leading to a path is what Encloses says.
LEMMA LeadsEncloses ==
  ASSUME NEW p \in Seq(Names), NEW q \in Seq(Names), LeadsTo(q, p)
  PROVE  Encloses(q, p)
  <1>1. PICK n \in 0 .. Len(p) : q = SubSeq(p, 1, n)
    BY DEF LeadsTo
  <1>2. Len(q) = n
    BY <1>1, PathPrefixes
  <1>3. n <= Len(p) /\ \A k \in 1 .. n : SubSeq(p, 1, n)[k] = p[k]
    BY SMT
  <1>4. QED
    BY <1>1, <1>2, <1>3 DEF Encloses

\* All but the last component of a path, and that one.
LEMMA PathSplit ==
  ASSUME NEW p \in Seq(Names), p # <<>>
  PROVE  /\ DirPart(p) = SubSeq(p, 1, Len(p) - 1) /\ DirPart(p) \in Seq(Names) /\ BaseName(p) \in Names
         /\ Len(p) - 1 \in 0 .. Len(p) /\ Len(p) \in 0 .. Len(p)
         /\ p = Append(DirPart(p), BaseName(p)) /\ (DirPart(p) = <<>> \/ DirPart(p)[1] = p[1])
         /\ \A q : LeadsTo(q, DirPart(p)) => LeadsTo(q, p)
         /\ ~LeadsTo(p, DirPart(p))
  <1>1. Len(p) \in Nat /\ Len(p) >= 1 /\ Len(p) - 1 \in 0 .. Len(p) - 1 /\ Len(p) - 1 \in 0 .. Len(p)
          /\ Len(p) \in 0 .. Len(p) /\ (Len(p) - 1) + 1 = Len(p) /\ ~(Len(p) \in 0 .. Len(p) - 1)
    BY SMT
  <1>2. DirPart(p) = SubSeq(p, 1, Len(p) - 1) /\ BaseName(p) = p[Len(p)]
    BY DEF DirPart, BaseName
  <1>3. BaseName(p) \in Names
    BY SMT, <1>1, <1>2
  <1>4. DirPart(p) \in Seq(Names) /\ Len(DirPart(p)) = Len(p) - 1
    BY <1>1, <1>2, PathPrefixes
  <1>5. p = Append(DirPart(p), BaseName(p))
    <2>1. SubSeq(p, 1, (Len(p) - 1) + 1) = Append(SubSeq(p, 1, Len(p) - 1), p[(Len(p) - 1) + 1])
      BY <1>1, PathPrefixes
    <2>2. SubSeq(p, 1, Len(p)) = p
      BY PathPrefixes
    <2>3. QED
      BY <1>1, <1>2, <2>1, <2>2
  <1>6. DirPart(p) = <<>> \/ DirPart(p)[1] = p[1]
    BY SMT, <1>1, <1>2
  <1>7. \A q : LeadsTo(q, DirPart(p)) => LeadsTo(q, p)
    BY <1>1, <1>2, LeadsOn
  <1>8. ASSUME LeadsTo(p, DirPart(p)) PROVE FALSE
    <2>1. PICK n \in 0 .. Len(DirPart(p)) : p = SubSeq(DirPart(p), 1, n)
      BY <1>8 DEF LeadsTo
    <2>2. Len(SubSeq(DirPart(p), 1, n)) = n
      BY <1>4, PathPrefixes
    <2>3. Len(p) = n
      BY <2>1, <2>2
    <2>4. n \in 0 .. Len(p) - 1
      BY <1>4
    <2>5. QED
      BY <1>1, <2>3, <2>4
  <1>9. QED
    BY <1>1, <1>2, <1>3, <1>4, <1>5, <1>6, <1>7, <1>8

\* The paths of distinct places.
LEMMA FreshPlace ==
  ASSUME NEW t, TreeOK(t), NEW k \in 1 .. Len(Plan), Placed(t, k), Plan[k].type # "dir"
  PROVE  \A i \in DOMAIN t : PathsIn(t)[i] # Place(Plan[k])
  <1>1. SUFFICES ASSUME NEW i \in DOMAIN t, PathsIn(t)[i] = Place(Plan[k]) PROVE FALSE
    OBVIOUS
  <1>2. Place(Plan[k]) \in Seq(Names) /\ Place(Plan[k]) # <<>>
    BY PlaceFacts DEF EntryPlaced
  <1>3. i # Root
    BY <1>1, <1>2, PathFacts DEF TreeOK
  <1>4. PICK j \in 1 .. k - 1 : LeadsTo(Place(Plan[k]), Place(Plan[j]))
    BY <1>1, <1>3 DEF Placed
  <1>5. j \in 1 .. Len(Plan) /\ j # k
    BY SMT, PlanFacts
  <1>6. Encloses(Place(Plan[k]), Place(Plan[j]))
    BY <1>2, <1>4, <1>5, LeadsEncloses, PlaceFacts DEF EntryPlaced
  <1>7. DOMAIN Plan = 1 .. Len(Plan)
    BY SMT, PlanFacts
  <1>8. QED
    BY <1>5, <1>6, <1>7, VfsAssumption

\* The nodes that are added on a way that does not lead through /proc are not
\* /proc.
LEMMA NoNewProc ==
  ASSUME NEW t, NEW u, TreeOK(u), NEW p \in Seq(Names), Grows(t, u, p), p = <<>> \/ p[1] # "proc"
  PROVE  \A i \in DOMAIN u : u[i].type = "procfs" => i \in DOMAIN t
  <1>1. SUFFICES ASSUME NEW i \in DOMAIN u, u[i].type = "procfs", ~(i \in DOMAIN t) PROVE FALSE
    OBVIOUS
  <1>2. LeadsTo(<<"proc">>, p)
    BY <1>1, ProcPath DEF Grows
  <1>3. PICK n \in 0 .. Len(p) : <<"proc">> = SubSeq(p, 1, n)
    BY <1>2 DEF LeadsTo
  <1>4. n = 1 /\ p[1] = "proc"
    BY <1>3, PathPrefixes
  <1>5. p # <<>>
    BY SMT, <1>4
  <1>6. QED
    BY <1>4, <1>5

\* An open file stays what it was while nodes are added.
LEMMA FilesKept ==
  ASSUME NEW t, NEW u, \A i \in DOMAIN t : i \in DOMAIN u /\ u[i] = t[i],
         NEW p, NEW q, NodesKept(p, q), NEW f, NEW path, FileOK(f, path, t, p)
  PROVE  FileOK(f, path, u, q)
  BY DEF FileOK, NodesKept

\* The nodes of a tree that grew on the way to an entry of Plan.
LEMMA PlacedNext ==
  ASSUME NEW t, NEW u, Shape(t), Shape(u), NEW k \in 1 .. Len(Plan), Placed(t, k), Grows(t, u, Place(Plan[k]))
  PROVE  \A n \in Nat : n >= k + 1 => Placed(u, n)
  <1>1. SUFFICES ASSUME NEW n \in Nat, n >= k + 1, NEW i \in DOMAIN u, i # Root
                 PROVE  \E j \in 1 .. n - 1 : LeadsTo(PathsIn(u)[i], Place(Plan[j]))
    BY DEF Placed
  <1>2. k \in 1 .. n - 1 /\ 1 .. k - 1 \subseteq 1 .. n - 1
    BY SMT, <1>1, PlanFacts
  <1>3. CASE i \in DOMAIN t
    <2>1. PartOf(t, u)
      BY DEF PartOf, Grows
    <2>2. PathsIn(u)[i] = PathsIn(t)[i]
      BY <1>3, <2>1, PathsKept
    <2>3. QED
      BY <1>1, <1>2, <1>3, <2>2 DEF Placed
  <1>4. CASE LeadsTo(PathsIn(u)[i], Place(Plan[k]))
    BY <1>2, <1>4
  <1>5. QED
    BY <1>3, <1>4 DEF Grows

\* A tree and the one with another node, in the form a later step uses.
OneMore(t, n, u) ==
  /\ PartOf(t, u) /\ \A i \in DOMAIN t : u[i] = t[i]
  /\ \A i \in DOMAIN u : i = Len(u) \/ i \in DOMAIN t
  /\ \A i \in DOMAIN t : PathsIn(u)[i] = PathsIn(t)[i]
  /\ PathsIn(u)[Len(u)] = Append(PathsIn(t)[n.parent], n.name)

\* Linking a node that no sibling has the name of makes such a tree.
LEMMA OneAdded ==
  ASSUME NEW t, Shape(t), NEW n \in NodeType, n.parent \in DOMAIN t,
         Children(t, n.parent, n.name) = {}
  PROVE  OneMore(t, n, Append(t, n))
  BY NodeAdded DEF OneMore

\* Nothing in the directory of p, made or found, has the last name of p when
\* p is the path of no node.
LEMMA NoChild ==
  ASSUME TreeOK(tree), NEW p \in Seq(Names), p # <<>>, p[1] # "proc", NEW mem \in Nat,
         \A i \in DOMAIN tree : PathsIn(tree)[i] # p, NEW s, s = vfs_ensure_path(DirPart(p), mem),
         s.node # 0
  PROVE  Children(s.tree, s.node, BaseName(p)) = {}
  <1>1. /\ DirPart(p) \in Seq(Names) /\ (DirPart(p) = <<>> \/ DirPart(p)[1] # "proc")
        /\ p = Append(DirPart(p), BaseName(p)) /\ ~LeadsTo(p, DirPart(p))
    BY PathSplit
  <1>2. /\ TreeOK(s.tree) /\ Grows(tree, s.tree, DirPart(p))
        /\ s.node \in DOMAIN s.tree /\ PathsIn(s.tree)[s.node] = DirPart(p)
    BY <1>1, EnsureFacts
  <1>3. Shape(s.tree) /\ Shape(tree)
    BY <1>2 DEF TreeOK
  <1>4. PartOf(tree, s.tree)
    BY <1>2 DEF PartOf, Grows
  <1>5. SUFFICES ASSUME NEW c \in DOMAIN s.tree, s.tree[c].parent = s.node, s.tree[c].name = BaseName(p)
                 PROVE  FALSE
    BY DEF Children
  <1>6. c # Root
    BY <1>2, <1>3, <1>5, Nodes
  <1>7. PathsIn(s.tree)[c] = p
    <2>1. PathsIn(s.tree)[c] = Append(PathsIn(s.tree)[s.tree[c].parent], s.tree[c].name)
      BY <1>3, <1>6, PathFacts
    <2>2. QED
      BY <1>1, <1>2, <1>5, <2>1
  <1>8. CASE c \in DOMAIN tree
    <2>1. PathsIn(s.tree)[c] = PathsIn(tree)[c]
      BY <1>3, <1>4, <1>8, PathsKept
    <2>2. QED
      BY <1>7, <1>8, <2>1
  <1>9. CASE LeadsTo(PathsIn(s.tree)[c], DirPart(p))
    BY <1>1, <1>7, <1>9
  <1>10. QED
    BY <1>2, <1>8, <1>9 DEF Grows

\* A node is added at the place p after the directories on the way.
LEMMA NodePlaced ==
  ASSUME TreeOK(tree), NEW p \in Seq(Names), p # <<>>, p[1] # "proc", NEW mem \in Nat,
         NEW s, s = vfs_ensure_path(DirPart(p), mem), s.node # 0, Children(s.tree, s.node, BaseName(p)) = {},
         NEW n \in NodeType, n.name = BaseName(p), n.parent = s.node, n.type # "procfs"
  PROVE  TreeOK(Append(s.tree, n)) /\ Grows(tree, Append(s.tree, n), p)
  <1> DEFINE u == Append(s.tree, n)
  <1>1. /\ DirPart(p) \in Seq(Names) /\ (DirPart(p) = <<>> \/ DirPart(p)[1] # "proc")
        /\ p = Append(DirPart(p), BaseName(p)) /\ \A q : LeadsTo(q, DirPart(p)) => LeadsTo(q, p)
    BY PathSplit
  <1>2. /\ TreeOK(s.tree) /\ Grows(tree, s.tree, DirPart(p))
        /\ s.node \in DOMAIN s.tree /\ PathsIn(s.tree)[s.node] = DirPart(p) /\ s.tree[s.node].type # "procfs"
    BY <1>1, EnsureFacts
  <1>3. Shape(s.tree)
    BY <1>2 DEF TreeOK
  <1>4. n.parent \in DOMAIN s.tree /\ Children(s.tree, n.parent, n.name) = {} /\ s.tree[n.parent].type # "procfs"
    BY <1>2
  <1>5. TreeOK(u)
    BY <1>2, <1>4, ProcStaysAlone
  <1>6. OneMore(s.tree, n, u)
    BY <1>3, <1>4, OneAdded
  <1> HIDE DEF u
  <1>7. PathsIn(u)[Len(u)] = p
    <2>1. PathsIn(s.tree)[n.parent] = DirPart(p) /\ n.name = BaseName(p)
      BY <1>2
    <2>2. QED
      BY <1>1, <1>6, <2>1 DEF OneMore
  <1>8. LeadsTo(p, p)
    <2>1. SubSeq(p, 1, Len(p)) = p /\ Len(p) \in 0 .. Len(p)
      BY PathPrefixes, PathSplit
    <2>2. QED
      BY <2>1 DEF LeadsTo
  <1>9. \A i \in DOMAIN tree : i \in DOMAIN u /\ u[i] = tree[i]
    BY <1>2, <1>6 DEF Grows, PartOf, OneMore
  <1>10. ASSUME NEW i \in DOMAIN u PROVE i \in DOMAIN tree \/ LeadsTo(PathsIn(u)[i], p)
    <2>1. CASE i = Len(u)
      BY <1>7, <1>8, <2>1
    <2>2. CASE i \in DOMAIN s.tree
      BY <1>1, <1>2, <1>6, <2>2 DEF Grows, OneMore
    <2>3. QED
      BY <1>6, <2>1, <2>2 DEF OneMore
  <1>11. Grows(tree, u, p)
    BY <1>9, <1>10 DEF Grows
  <1>12. QED
    BY <1>5, <1>11 DEF u

\* What is left of Plan from a place on is empty only behind its end.
LEMMA SomeLeft ==
  ASSUME NEW m \in Nat, m >= 1, SubSeq(Plan, m, Len(Plan)) # <<>>
  PROVE  m \in 1 .. Len(Plan)
  <1>1. Plan \in Seq(Entry) /\ Len(Plan) \in Nat
    <2>1. Plan \in Seq(Entry)
      BY PlanFacts
    <2>2. QED
      BY SMT, <2>1
  <1>2. ASSUME ~(m <= Len(Plan)) PROVE SubSeq(Plan, m, Len(Plan)) = <<>>
    BY SMT, <1>1, <1>2
  <1>3. m <= Len(Plan)
    BY <1>2
  <1>4. QED
    BY SMT, <1>1, <1>3

\* /proc stays mounted, or not.
LEMMA PoolKept ==
  ASSUME PoolOK, TreeOK(tree'), NEW p \in Seq(Names), Grows(tree, tree', p), p = <<>> \/ p[1] # "proc",
         pool' = pool
  PROVE  PoolOK'
  <1>1. \A i \in DOMAIN tree' : tree'[i].type = "procfs" => i \in DOMAIN tree
    BY NoNewProc
  <1>2. \A i \in DOMAIN tree : tree'[i] = tree[i]
    BY DEF Grows
  <1>3. Mounted(pool) => Mounted(pool')
    OBVIOUS
  <1>4. CASE Mounted(pool)
    BY <1>3, <1>4 DEF PoolOK
  <1>5. CASE pool = <<>> /\ \A i \in DOMAIN tree : tree[i].type # "procfs"
    BY <1>1, <1>2, <1>5 DEF PoolOK
  <1>6. QED
    BY <1>4, <1>5 DEF PoolOK

\* What is to be shown of an action that brings entry k of Plan into the tree.
LEMMA BootKeeps ==
  ASSUME VfsInv, NEW k \in 1 .. Len(Plan), boot = SubSeq(Plan, k, Len(Plan)), boot # <<>>, Placed(tree, k),
         TreeOK(tree'), Grows(tree, tree', Place(Plan[k])), PoolOK',
         NEW m \in Nat, m >= k + 1, boot' = SubSeq(Plan, m, Len(Plan)),
         UNCHANGED <<tasks, files, opened>>
  PROVE  VfsInv'
  <1>1. \A fd \in Fds : files[fd] = NoFile
    BY DEF VfsInv, BootOK
  <1>2. Shape(tree) /\ Shape(tree')
    BY DEF VfsInv, TreeOK
  <1>3. Placed(tree', m)
    BY <1>2, PlacedNext
  <1>4. m >= 1
    BY SMT
  <1>5. boot' # <<>> => m \in 1 .. Len(Plan)
    BY <1>4, SomeLeft
  <1>6. BootOK'
    BY <1>1, <1>3, <1>5 DEF BootOK
  <1>7. tasks' \subseteq Pids /\ files' \in [Fds -> FileType] /\ opened' \in [Fds -> Seq(Names)]
    BY DEF VfsInv
  <1>8. \A fd \in Fds : FileOK(files'[fd], opened'[fd], tree', pool')
    <2>1. NoFile.fs = "none" /\ "none" # "tree" /\ "none" # "proc"
      BY DEF NoFile
    <2>2. QED
      BY <1>1, <2>1 DEF FileOK
  <1>9. QED
    BY <1>6, <1>7, <1>8 DEF VfsInv

\* The entry an action of the boot begins with.
LEMMA NextEntry ==
  ASSUME VfsInv, boot # <<>>
  PROVE  \E k \in 1 .. Len(Plan) :
           /\ boot = SubSeq(Plan, k, Len(Plan)) /\ Placed(tree, k)
           /\ Head(boot) = Plan[k] /\ Tail(boot) = SubSeq(Plan, k + 1, Len(Plan))
           /\ k + 1 \in Nat /\ k + 1 >= k + 1
  <1>1. PICK k \in 1 .. Len(Plan) : boot = SubSeq(Plan, k, Len(Plan)) /\ Placed(tree, k)
    BY DEF VfsInv, BootOK
  <1>2. Plan \in Seq(Entry)
    BY PlanFacts
  <1>3. Head(boot) = Plan[k] /\ Tail(boot) = SubSeq(Plan, k + 1, Len(Plan))
    BY <1>1, <1>2, Rest
  <1>4. k + 1 \in Nat /\ k + 1 >= k + 1
    BY SMT
  <1>5. QED
    BY <1>1, <1>3, <1>4

\* What leads to the directory of a path is on the way to the path.
LEMMA GrowsOn ==
  ASSUME NEW t, NEW u, NEW p \in Seq(Names), p # <<>>, Grows(t, u, DirPart(p))
  PROVE  Grows(t, u, p)
  BY PathSplit DEF Grows

\* n is a node of that name, type and directory.
IsNode(n, name, type, parent) ==
  n \in NodeType /\ n.name = name /\ n.type = type /\ n.parent = parent

\* So is what Node makes, also with the content of a file of the initrd.
LEMMA NodeFacts ==
  ASSUME NEW name \in Names, NEW type \in {"dir", "file", "chardev", "procfs"}, NEW parent \in Nat
  PROVE  /\ IsNode(Node(name, type, parent), name, type, parent)
         /\ \A data \in Seq({"old"}) :
              IsNode([Node(name, type, parent) EXCEPT !.data = data], name, type, parent)
  <1>1. <<>> \in Seq({"old", "new"}) /\ \A data \in Seq({"old"}) : data \in Seq({"old", "new"})
    BY SMT
  <1>2. QED
    BY <1>1 DEF Node, NodeType, IsNode

\* vfs_load_initrd keeps the invariant.
LEMMA LoadKeeps ==
  ASSUME VfsInv, NEW mem \in 0 .. 4, vfs_load_initrd(mem)
  PROVE  VfsInv'
  <1>1. boot # <<>> /\ mem \in Nat
    BY SMT DEF vfs_load_initrd
  <1>2. PICK k \in 1 .. Len(Plan) :
           /\ boot = SubSeq(Plan, k, Len(Plan)) /\ Placed(tree, k)
           /\ Head(boot) = Plan[k] /\ Tail(boot) = SubSeq(Plan, k + 1, Len(Plan))
           /\ k + 1 \in Nat /\ k + 1 >= k + 1
    BY <1>1, NextEntry
  <1> DEFINE e == Plan[k]
             p == e.path
             s == vfs_ensure_path(IF e.type = "dir" THEN p ELSE DirPart(p), mem)
             n == [Node(BaseName(p), "file", s.node) EXCEPT !.data = e.data]
  <1>3. e.type \in {"dir", "file"}
    BY <1>2 DEF vfs_load_initrd
  <1>4. p = Place(Plan[k]) /\ e \in FromArchive /\ p \in Seq(Names) /\ p # <<>> /\ p[1] # "proc"
    <2>1. e.type # "proc"
      BY <1>3
    <2>2. QED
      BY <1>3, <2>1, PlaceFacts DEF EntryPlaced
  <1>5. /\ tree' = s.tree \/ (e.type = "file" /\ s.node # 0 /\ tree' = Append(s.tree, n))
        /\ boot' = IF s.node = 0 THEN Entries("dev", LateDevices) ELSE SubSeq(Plan, k + 1, Len(Plan))
        /\ pool' = pool /\ UNCHANGED <<tasks, files, opened>>
    <2> HIDE DEF p
    <2>1. QED
      BY <1>2, <1>3 DEF vfs_load_initrd, p
  <1>6. TreeOK(tree)
    BY DEF VfsInv
  <1>7. TreeOK(tree') /\ Grows(tree, tree', p)
    <2> HIDE DEF e
    <2>1. CASE e.type = "dir"
      <3>1. s = vfs_ensure_path(p, mem) /\ tree' = s.tree
        BY <1>5, <2>1
      <3>2. QED
        BY <1>1, <1>4, <1>6, <3>1, EnsureFacts
    <2>2. CASE e.type = "file"
      <3>1. s = vfs_ensure_path(DirPart(p), mem)
        BY <2>2
      <3>2. DirPart(p) \in Seq(Names) /\ BaseName(p) \in Names /\ (DirPart(p) = <<>> \/ DirPart(p)[1] # "proc")
        BY <1>4, PathSplit
      <3>3. s \in DirStates /\ TreeOK(s.tree) /\ Grows(tree, s.tree, DirPart(p))
        BY <1>1, <1>6, <3>1, <3>2, EnsureFacts
      <3>4. CASE tree' = s.tree
        BY <1>4, <3>3, <3>4, GrowsOn
      <3>5. CASE s.node # 0 /\ tree' = Append(s.tree, n)
        <4>1. s.node \in Nat /\ e.data \in Seq({"old"})
          BY <1>4, <3>3 DEF DirStates, FromArchive
        <4>2. n \in NodeType /\ n.name = BaseName(p) /\ n.parent = s.node /\ n.type = "file"
          <5>1. "file" \in {"dir", "file", "chardev", "procfs"}
            OBVIOUS
          <5> HIDE DEF s, p
          <5>2. IsNode(n, BaseName(p), "file", s.node)
            BY <3>2, <4>1, <5>1, NodeFacts
          <5> HIDE DEF n
          <5>3. QED
            BY <5>2 DEF IsNode
        <4>3. n.type # "procfs"
          BY <4>2
        <4>4. \A i \in DOMAIN tree : PathsIn(tree)[i] # p
          BY <1>2, <1>4, <1>6, <2>2, FreshPlace DEF e
        <4> HIDE DEF n, s, p
        <4>5. Children(s.tree, s.node, BaseName(p)) = {}
          BY <1>1, <1>4, <1>6, <3>1, <3>5, <4>4, NoChild
        <4>6. TreeOK(Append(s.tree, n)) /\ Grows(tree, Append(s.tree, n), p)
          BY <1>1, <1>4, <1>6, <3>1, <3>5, <4>2, <4>3, <4>5, NodePlaced
        <4>7. QED
          BY <3>5, <4>6
      <3>6. QED
        BY <1>5, <3>4, <3>5
    <2>3. QED
      BY <1>3, <2>1, <2>2
  <1>8. PoolOK'
    BY <1>4, <1>5, <1>7, PoolKept DEF VfsInv
  <1>9. \E m \in Nat : m >= k + 1 /\ boot' = SubSeq(Plan, m, Len(Plan))
    <2>1. CASE s.node = 0
      <3>1. PICK j \in 0 .. Len(Plan) :
              /\ Entries("dev", LateDevices) = SubSeq(Plan, j + 1, Len(Plan))
              /\ \A i \in j + 1 .. Len(Plan) : Plan[i].type = "dev"
        BY PlanFacts
      <3>2. ~(k \in j + 1 .. Len(Plan))
        BY <1>3, <3>1
      <3>3. j + 1 \in Nat /\ j + 1 >= k + 1
        BY SMT, <3>2
      <3>4. QED
        BY <1>5, <2>1, <3>1, <3>3
    <2>2. CASE s.node # 0
      BY <1>2, <1>5, <2>2
    <2>3. QED
      BY <2>1, <2>2
  <1>10. QED
    BY <1>1, <1>2, <1>4, <1>5, <1>7, <1>8, <1>9, BootKeeps

\* vfs_mount_dev keeps the invariant.
LEMMA DeviceKeeps ==
  ASSUME VfsInv, NEW mem \in 0 .. 4, vfs_mount_dev(mem)
  PROVE  VfsInv'
  <1>1. boot # <<>> /\ mem \in Nat
    BY SMT DEF vfs_mount_dev
  <1>2. PICK k \in 1 .. Len(Plan) :
           /\ boot = SubSeq(Plan, k, Len(Plan)) /\ Placed(tree, k)
           /\ Head(boot) = Plan[k] /\ Tail(boot) = SubSeq(Plan, k + 1, Len(Plan))
           /\ k + 1 \in Nat /\ k + 1 >= k + 1
    BY <1>1, NextEntry
  <1> DEFINE e == Plan[k]
             x == e.path[1]
             p == Place(Plan[k])
             s == vfs_ensure_path(<<"dev">>, mem)
             n == Node(x, "chardev", s.node)
  <1>3. e.type = "dev"
    BY <1>2 DEF vfs_mount_dev
  <1>4. p = <<"dev">> \o <<x>> /\ x \in Names /\ p \in Seq(Names) /\ p # <<>> /\ p[1] # "proc"
    BY <1>3, PlaceFacts DEF EntryPlaced
  <1>5. /\ tree' = s.tree \/ (s.node # 0 /\ tree' = Append(s.tree, n))
        /\ boot' = SubSeq(Plan, k + 1, Len(Plan)) /\ pool' = pool /\ UNCHANGED <<tasks, files, opened>>
    BY <1>2, <1>3 DEF vfs_mount_dev
  <1>6. TreeOK(tree)
    BY DEF VfsInv
  <1>7. DirPart(p) = <<"dev">> /\ BaseName(p) = x
    <2>1. "dev" \in Names
      BY VfsAssumption
    <2> HIDE DEF x, p
    <2>2. ASSUME NEW S, NEW a \in S, NEW b \in S, NEW q, q = <<a>> \o <<b>>
          PROVE  DirPart(q) = <<a>> /\ BaseName(q) = b
      <3>1. q \in Seq(S) /\ Len(q) = 2 /\ q[1] = a /\ q[2] = b /\ 1 <= Len(q) /\ 2 - 1 = 1
        BY SMT, <2>2
      <3>2. SubSeq(q, 1, 1) = <<a>>
        BY <3>1, FirstOnly
      <3>3. QED
        BY <3>1, <3>2 DEF DirPart, BaseName
    <2>3. QED
      BY <1>4, <2>1, <2>2
  <1> HIDE DEF e, x, p
  <1>8. s = vfs_ensure_path(DirPart(p), mem)
    BY <1>7
  <1>9. TreeOK(tree') /\ Grows(tree, tree', p)
    <2>1. DirPart(p) \in Seq(Names) /\ (DirPart(p) = <<>> \/ DirPart(p)[1] # "proc")
      BY <1>4, PathSplit
    <2>2. s \in DirStates /\ TreeOK(s.tree) /\ Grows(tree, s.tree, DirPart(p))
      BY <1>1, <1>6, <1>8, <2>1, EnsureFacts
    <2>3. CASE tree' = s.tree
      BY <1>4, <2>2, <2>3, GrowsOn
    <2>4. CASE s.node # 0 /\ tree' = Append(s.tree, n)
      <3>1. s.node \in Nat
        BY <2>2 DEF DirStates
      <3>2. n \in NodeType /\ n.name = x /\ n.parent = s.node /\ n.type = "chardev"
        <4>1. "chardev" \in {"dir", "file", "chardev", "procfs"}
          OBVIOUS
        <4> HIDE DEF s
        <4>2. IsNode(n, x, "chardev", s.node)
          BY <1>4, <3>1, <4>1, NodeFacts
        <4> HIDE DEF n
        <4>3. QED
          BY <4>2 DEF IsNode
      <3>3. n.type # "procfs" /\ n.name = BaseName(p)
        BY <1>7, <3>2
      <3>4. \A i \in DOMAIN tree : PathsIn(tree)[i] # p
        <4>1. Plan[k].type # "dir"
          BY <1>3 DEF e
        <4>2. QED
          BY <1>2, <1>6, <4>1, FreshPlace DEF p
      <3> HIDE DEF n, s
      <3>5. Children(s.tree, s.node, BaseName(p)) = {}
        BY <1>1, <1>4, <1>6, <1>8, <2>4, <3>4, NoChild
      <3>6. TreeOK(Append(s.tree, n)) /\ Grows(tree, Append(s.tree, n), p)
        BY <1>1, <1>4, <1>6, <1>8, <2>4, <3>2, <3>3, <3>5, NodePlaced
      <3>7. QED
        BY <2>4, <3>6
    <2>5. QED
      BY <1>5, <2>3, <2>4
  <1>10. PoolOK'
    BY <1>4, <1>5, <1>9, PoolKept DEF VfsInv
  <1>11. QED
    BY <1>1, <1>2, <1>5, <1>9, <1>10, BootKeeps DEF p

\* What procfs_mount makes.
LEMMA MountMade == Mounted(procfs_mount)
  <1>1. \A k \in 1 .. 3 : procfs_mount[k] \in PoolNode
    <2>1. \A k \in 1 .. 3 : <<"meminfo", "uptime", "stat">>[k] \in Kinds
      BY SMT DEF Kinds
    <2>2. QED
      BY <2>1 DEF procfs_mount, PoolNode
  <1>2. DOMAIN procfs_mount = 1 .. 3 /\ procfs_mount = [k \in 1 .. 3 |-> procfs_mount[k]]
    BY DEF procfs_mount
  <1>3. procfs_mount \in [1 .. 3 -> PoolNode]
    BY <1>1, <1>2
  <1>4. procfs_mount \in Seq(PoolNode) /\ Len(procfs_mount) = 3
    BY SMT, <1>2, <1>3
  <1>5. Len(procfs_mount) \in 3 .. PROCFS_POOL /\ 4 .. Len(procfs_mount) = {}
    BY SMT, <1>4, ProcfsAssumption
  <1>6. QED
    BY <1>4, <1>5 DEF Mounted

\* vfs_mount_procfs keeps the invariant.
LEMMA ProcKeepsInv ==
  ASSUME VfsInv, NEW mem \in 0 .. 4, vfs_mount_procfs(mem)
  PROVE  VfsInv'
  <1>1. boot # <<>>
    BY DEF vfs_mount_procfs
  <1>2. PICK k \in 1 .. Len(Plan) :
           /\ boot = SubSeq(Plan, k, Len(Plan)) /\ Placed(tree, k)
           /\ Head(boot) = Plan[k] /\ Tail(boot) = SubSeq(Plan, k + 1, Len(Plan))
           /\ k + 1 \in Nat /\ k + 1 >= k + 1
    BY <1>1, NextEntry
  <1> DEFINE n == Node("proc", "procfs", Root)
  <1>3. Plan[k].type = "proc" /\ Place(Plan[k]) = <<"proc">>
    BY <1>2, PlaceFacts DEF vfs_mount_procfs, EntryPlaced
  <1>4. /\ UNCHANGED <<tree, pool>> \/ (tree' = Append(tree, n) /\ pool' = procfs_mount)
        /\ boot' = SubSeq(Plan, k + 1, Len(Plan)) /\ UNCHANGED <<tasks, files, opened>>
    BY <1>2 DEF vfs_mount_procfs
  <1>5. TreeOK(tree) /\ Shape(tree)
    BY DEF VfsInv, TreeOK
  <1>6. CASE UNCHANGED <<tree, pool>>
    <2>1. TreeOK(tree') /\ Grows(tree, tree', Place(Plan[k])) /\ PoolOK'
      BY <1>5, <1>6 DEF Grows, VfsInv, PoolOK
    <2>2. QED
      BY <1>1, <1>2, <1>4, <2>1, BootKeeps
  <1>7. CASE tree' = Append(tree, n) /\ pool' = procfs_mount
    <2>1. n \in NodeType /\ n.name = "proc" /\ n.parent = Root /\ n.type = "procfs"
      <3>1. "procfs" \in {"dir", "file", "chardev", "procfs"}
        OBVIOUS
      <3>2. "proc" \in Names
        BY VfsAssumption
      <3>3. Root \in Nat
        BY SMT DEF Root
      <3>4. IsNode(n, "proc", "procfs", Root)
        BY <3>1, <3>2, <3>3, NodeFacts
      <3> HIDE DEF n
      <3>5. QED
        BY <3>4 DEF IsNode
    <2>2. Root \in DOMAIN tree /\ tree[Root].type = "dir"
      <3>1. tree[Root] = Node("/", "dir", 0)
        BY <1>5 DEF Shape
      <3>2. Node("/", "dir", 0).type = "dir"
        BY DEF Node
      <3>3. QED
        BY <1>5, <3>1, <3>2, Nodes
    <2>3. \A i \in DOMAIN tree : PathsIn(tree)[i] # <<"proc">>
      <3>1. Plan[k].type # "dir"
        BY <1>3
      <3>2. QED
        BY <1>2, <1>3, <1>5, <3>1, FreshPlace
    <2>4. Append(<<>>, "proc") = <<"proc">>
      BY SMT
    <2>5. Children(tree, Root, "proc") = {}
      <3>1. SUFFICES ASSUME NEW c \in DOMAIN tree, tree[c].parent = Root, tree[c].name = "proc"
                     PROVE  FALSE
        BY DEF Children
      <3>2. Root # 0
        BY SMT DEF Root
      <3>3. c # Root
        BY <1>5, <3>1, <3>2, Nodes
      <3>4. PathsIn(tree)[c] = Append(PathsIn(tree)[Root], "proc")
        BY <1>5, <3>1, <3>3, PathFacts
      <3>5. QED
        BY <1>5, <2>3, <2>4, <3>4, PathFacts
    <2> HIDE DEF n
    <2>6. "dir" # "procfs" /\ Children(tree, n.parent, n.name) = {} /\ n.parent \in DOMAIN tree
      BY <2>1, <2>2, <2>5
    <2>7. TreeOK(tree')
      BY <1>5, <1>7, <2>1, <2>2, <2>6, ProcStaysAlone
    <2>8. OneMore(tree, n, tree')
      BY <1>5, <1>7, <2>1, <2>6, OneAdded
    <2>9. PathsIn(tree')[Len(tree')] = <<"proc">>
      <3>1. PathsIn(tree)[n.parent] = <<>>
        BY <1>5, <2>1, PathFacts
      <3>2. QED
        BY <2>1, <2>4, <2>8, <3>1 DEF OneMore
    <2>10. LeadsTo(<<"proc">>, <<"proc">>)
      <3>1. "proc" \in Names
        BY VfsAssumption
      <3>2. <<"proc">> \in Seq(Names) /\ Len(<<"proc">>) = 1
        BY <3>1, SingletonSeq
      <3>3. 1 \in 0 .. 1
        BY SMT
      <3>4. SubSeq(<<"proc">>, 1, 1) = <<"proc">>
        BY <3>2, PathPrefixes
      <3>5. QED
        BY <3>2, <3>3, <3>4 DEF LeadsTo
    <2>11. Grows(tree, tree', Place(Plan[k]))
      BY <1>3, <2>8, <2>9, <2>10 DEF Grows, OneMore, PartOf
    <2>12. PoolOK'
      BY <1>7, MountMade DEF PoolOK
    <2>13. QED
      BY <1>1, <1>2, <1>4, <2>7, <2>11, <2>12, BootKeeps
  <1>8. QED
    BY <1>4, <1>6, <1>7

-----------------------------------------------------------------------------
(* The descriptors.                                                        *)

\* The tree that vfs_create_file leaves has the nodes of the old one and no
\* new /proc.
Leaves(u) ==
  /\ TreeOK(u) /\ \A j \in DOMAIN tree : j \in DOMAIN u /\ u[j] = tree[j]
  /\ \A j \in DOMAIN u : u[j].type = "procfs" => j \in DOMAIN tree

\* vfs_create_file makes the directories on the way and the file, or finds it.
LEMMA CreateFacts ==
  ASSUME TreeOK(tree), NEW p \in Seq(Names), p # <<>>, p[1] # "proc", NEW mem \in Nat,
         NEW s, s = vfs_create_file(p, mem)
  PROVE  Leaves(s.tree) /\ s.node \in Nat /\ (s.node # 0 => s.node \in DOMAIN s.tree)
  <1> DEFINE q == vfs_ensure_path(DirPart(p), mem)
             i == Found(q.tree, q.node, BaseName(p))
             n == Node(BaseName(p), "file", q.node)
  <1>1. /\ DirPart(p) \in Seq(Names) /\ BaseName(p) \in Names /\ (DirPart(p) = <<>> \/ DirPart(p)[1] # "proc")
    BY PathSplit
  <1>2. q \in DirStates /\ TreeOK(q.tree) /\ Grows(tree, q.tree, DirPart(p))
    BY <1>1, EnsureFacts
  <1>3. Grows(tree, q.tree, p)
    BY <1>2, GrowsOn
  <1>4. \/ s = [q EXCEPT !.node = i]
        \/ s = [q EXCEPT !.node = 0]
        \/ q.node # 0 /\ i = 0 /\ s = [q EXCEPT !.tree = Append(@, n), !.node = Len(q.tree) + 1]
    BY DEF vfs_create_file
  <1>5. q \in [tree : Seq(NodeType), node : Nat, mem : Nat] /\ Shape(q.tree) /\ q.node \in Nat
    BY <1>2 DEF DirStates
  <1>6. i \in 0 .. Len(q.tree) /\ (i # 0 => i \in DOMAIN q.tree) /\ (i = 0 => Children(q.tree, q.node, BaseName(p)) = {})
    <2> HIDE DEF q
    <2>1. QED
      BY <1>5, FoundFacts
  <1> HIDE DEF q, i, n
  <1>7. Len(q.tree) \in Nat /\ i \in Nat /\ 0 \in Nat
    <2>1. Len(q.tree) \in Nat
      BY <1>5, Nodes
    <2>2. QED
      BY SMT, <1>6, <2>1
  <1>8. ASSUME NEW u, TreeOK(u), Grows(tree, u, p) PROVE Leaves(u)
    <2>1. \A k \in DOMAIN u : u[k].type = "procfs" => k \in DOMAIN tree
      BY <1>8, NoNewProc
    <2>2. QED
      BY <1>8, <2>1 DEF Leaves, Grows
  <1>9. CASE s = [q EXCEPT !.node = i]
    <2>1. s.tree = q.tree /\ s.node = i
      BY <1>5, <1>9
    <2>2. QED
      BY <1>2, <1>3, <1>6, <1>7, <1>8, <2>1
  <1>10. CASE s = [q EXCEPT !.node = 0]
    <2>1. s.tree = q.tree /\ s.node = 0
      BY <1>5, <1>10
    <2>2. QED
      BY <1>2, <1>3, <1>7, <1>8, <2>1
  <1>11. CASE q.node # 0 /\ i = 0 /\ s = [q EXCEPT !.tree = Append(@, n), !.node = Len(q.tree) + 1]
    <2>1. s.tree = Append(q.tree, n) /\ s.node = Len(q.tree) + 1
      BY <1>5, <1>11
    <2>2. IsNode(n, BaseName(p), "file", q.node)
      <3>1. "file" \in {"dir", "file", "chardev", "procfs"}
        OBVIOUS
      <3>2. QED
        BY <1>1, <1>5, <3>1, NodeFacts DEF n
    <2>3. n \in NodeType /\ n.name = BaseName(p) /\ n.parent = q.node /\ n.type # "procfs"
      BY <2>2 DEF IsNode
    <2>4. Children(q.tree, q.node, BaseName(p)) = {}
      BY <1>6, <1>11
    <2>5. q = vfs_ensure_path(DirPart(p), mem)
      BY DEF q
    <2>6. TreeOK(Append(q.tree, n)) /\ Grows(tree, Append(q.tree, n), p)
      BY <1>11, <2>3, <2>4, <2>5, NodePlaced
    <2>7. Len(q.tree) + 1 \in DOMAIN Append(q.tree, n) /\ Len(q.tree) + 1 \in Nat
      <3>1. q.tree \in Seq(NodeType)
        BY <1>5
      <3>2. QED
        BY SMT, <2>3, <3>1
    <2>8. QED
      BY <1>8, <2>1, <2>6, <2>7
  <1>12. QED
    BY <1>4, <1>9, <1>10, <1>11

\* The outcome of sys_open: s.node of s.tree or r.node of the pool is opened.
LEMMA OpenKeeps ==
  ASSUME VfsInv, NEW fd \in Fds, NEW path \in Seq(Names), NEW r, WalkInv(r, path, Len(path)),
         NEW u, NEW i \in Nat, Leaves(u), NEW f,
         \/ f = "none"
         \/ f = "tree" /\ i \in DOMAIN u
         \/ f = "proc" /\ r.fs = "proc" /\ i = r.node,
         NEW pos \in Nat, f = "tree" => pos <= Len(u[i].data),
         boot = <<>>, boot' = boot, tasks' = tasks, pool' = r.pool, tree' = u,
         \/ files' = files /\ opened' = opened
         \/ /\ f # "none" /\ files' = [files EXCEPT ![fd] = [fs |-> f, node |-> i, pos |-> pos]]
            /\ opened' = [opened EXCEPT ![fd] = path]
  PROVE  VfsInv'
  <1>1. r \in WalkStates /\ NodesKept(pool, r.pool) /\ (r.pool = pool \/ Mounted(r.pool))
    BY DEF WalkInv
  <1>2. /\ TreeOK(tree') /\ \A j \in DOMAIN tree : j \in DOMAIN tree' /\ tree'[j] = tree[j]
        /\ \A j \in DOMAIN tree' : tree'[j].type = "procfs" => j \in DOMAIN tree
    BY DEF Leaves
  <1>3. PoolOK'
    <2>1. CASE Mounted(r.pool)
      BY <2>1 DEF PoolOK
    <2>2. CASE r.pool = pool
      <3>1. pool' = pool /\ PoolOK
        BY <2>2 DEF VfsInv
      <3>2. CASE Mounted(pool)
        BY <2>1, <2>2, <3>2
      <3>3. CASE pool = <<>> /\ \A j \in DOMAIN tree : tree[j].type # "procfs"
        BY <1>2, <3>1, <3>3 DEF PoolOK
      <3>4. QED
        BY <3>1, <3>2, <3>3 DEF PoolOK
    <2>3. QED
      BY <1>1, <2>1, <2>2
  <1>4. BootOK' /\ tasks' \subseteq Pids
    BY DEF BootOK, VfsInv
  <1>5. files \in [Fds -> FileType] /\ opened \in [Fds -> Seq(Names)]
    BY DEF VfsInv
  <1>6. \A g \in Fds : FileOK(files[g], opened[g], tree', pool')
    <2>1. SUFFICES ASSUME NEW g \in Fds PROVE FileOK(files[g], opened[g], tree', pool')
      OBVIOUS
    <2>2. FileOK(files[g], opened[g], tree, pool)
      BY DEF VfsInv
    <2>3. QED
      BY <1>1, <1>2, <2>2, FilesKept
  <1>7. CASE files' = files /\ opened' = opened
    BY <1>2, <1>3, <1>4, <1>5, <1>6, <1>7 DEF VfsInv
  <1>8. CASE /\ f # "none" /\ files' = [files EXCEPT ![fd] = [fs |-> f, node |-> i, pos |-> pos]]
             /\ opened' = [opened EXCEPT ![fd] = path]
    <2> DEFINE o == [fs |-> f, node |-> i, pos |-> pos]
    <2>1. o.fs = f /\ o.node = i /\ o.pos = pos /\ o \in FileType
      <3>1. f \in {"none", "tree", "proc"}
        OBVIOUS
      <3>2. QED
        BY <3>1 DEF FileType
    <2> HIDE DEF o
    <2>2. /\ files' \in [Fds -> FileType] /\ opened' \in [Fds -> Seq(Names)]
          /\ files'[fd] = o /\ opened'[fd] = path
          /\ \A g \in Fds : g # fd => files'[g] = files[g] /\ opened'[g] = opened[g]
      BY <1>5, <1>8, <2>1 DEF o
    <2>3. FileOK(o, path, tree', pool')
      <3>1. CASE f = "tree"
        BY <2>1, <3>1 DEF FileOK
      <3>2. CASE f = "proc"
        <4>1. r.node \in DOMAIN r.pool /\ Means(r.pool[r.node], path, Len(path)) /\ i = r.node
          <5>1. r.fs = "proc" /\ i = r.node
            BY <3>2
          <5>2. QED
            BY <1>1, <5>1 DEF WalkInv, WalkStates
        <4>2. QED
          BY <2>1, <3>2, <4>1 DEF FileOK
      <3>3. QED
        BY <1>8, <3>1, <3>2
    <2>4. \A g \in Fds : FileOK(files'[g], opened'[g], tree', pool')
      BY <1>6, <2>2, <2>3
    <2>5. QED
      BY <1>2, <1>3, <1>4, <2>2, <2>4 DEF VfsInv
  <1>9. QED
    BY <1>7, <1>8

\* sys_open keeps the invariant.
LEMMA OpenStep ==
  ASSUME VfsInv, NEW fd \in Fds, NEW path \in Seq(Names), NEW creat \in BOOLEAN, NEW append \in BOOLEAN,
         creat => path # <<>> /\ path[1] # "proc", sys_open(fd, path, creat, append)
  PROVE  VfsInv'
  <1> DEFINE r == vfs_resolve(path)
             file == r.fs = "tree" /\ tree[r.node].type = "file"
             S(mem) == IF creat /\ ~file THEN vfs_create_file(path, mem) ELSE [tree |-> tree, node |-> r.node]
  <1>1. PICK mem \in IF creat /\ ~file THEN 0 .. 2 ELSE {0} :
          LET s == S(mem)
              fs == IF s.node = 0 THEN "none" ELSE IF creat THEN "tree" ELSE r.fs
              opens == fs = "proc" \/ (fs = "tree" /\ s.tree[s.node].type # "dir") IN
          /\ pool' = r.pool /\ tree' = s.tree
          /\ files' = IF ~opens THEN files
                      ELSE [files EXCEPT ![fd] = [fs |-> fs, node |-> s.node,
                              pos |-> IF append /\ fs = "tree" THEN Len(s.tree[s.node].data) ELSE 0]]
          /\ opened' = IF opens THEN [opened EXCEPT ![fd] = path] ELSE opened
    BY DEF sys_open
  <1>2. boot = <<>> /\ boot' = boot /\ tasks' = tasks
    BY DEF sys_open
  <1>3. mem \in Nat
    <2>1. 0 \in 0 .. 2 /\ \A m \in 0 .. 2 : m \in Nat
      BY SMT
    <2>2. (IF creat /\ ~file THEN 0 .. 2 ELSE {0}) \subseteq 0 .. 2
      BY <2>1
    <2>3. QED
      BY <2>1, <2>2
  <1> DEFINE s == S(mem)
             fs == IF s.node = 0 THEN "none" ELSE IF creat THEN "tree" ELSE r.fs
             pos == IF append /\ fs = "tree" THEN Len(s.tree[s.node].data) ELSE 0
  <1>4. WalkInv(r, path, Len(path))
    BY ResolveFacts DEF VfsInv
  <1>5. r \in WalkRecord /\ (r.fs = "tree" => r.node \in DOMAIN tree)
    BY <1>4 DEF WalkInv, WalkStates
  <1>6. TreeOK(tree)
    BY DEF VfsInv
  <1> HIDE DEF r
  <1>7. /\ Leaves(s.tree) /\ s.node \in Nat
        /\ fs = "none" \/ (fs = "tree" /\ s.node \in DOMAIN s.tree)
             \/ (fs = "proc" /\ r.fs = "proc" /\ s.node = r.node)
    <2>1. CASE creat /\ ~file
      <3>1. s = vfs_create_file(path, mem)
        BY <2>1
      <3> HIDE DEF s
      <3>2. Leaves(s.tree) /\ s.node \in Nat /\ (s.node # 0 => s.node \in DOMAIN s.tree)
        BY <1>3, <1>6, <2>1, <3>1, CreateFacts
      <3>3. QED
        BY <2>1, <3>2
    <2>2. CASE ~(creat /\ ~file)
      <3>1. s.tree = tree /\ s.node = r.node
        BY <2>2
      <3> HIDE DEF s
      <3>2. Leaves(tree)
        BY <1>6 DEF Leaves
      <3>3. r.node \in Nat /\ r.fs \in {"none", "tree", "proc"}
        BY <1>5 DEF WalkRecord
      <3>4. fs = "none" \/ (fs = "tree" /\ r.fs = "tree") \/ (fs = "proc" /\ r.fs = "proc")
        BY <2>2, <3>3
      <3>5. QED
        BY <1>5, <3>1, <3>2, <3>3, <3>4
    <2>3. QED
      BY <2>1, <2>2
  <1>8. pos \in Nat /\ (fs = "tree" => pos <= Len(s.tree[s.node].data))
    <2> DEFINE data == s.tree[s.node].data
    <2>1. CASE fs = "tree"
      <3>1. s.node \in DOMAIN s.tree /\ Shape(s.tree)
        <4> HIDE DEF s, fs
        <4>1. QED
          BY <1>7, <2>1 DEF Leaves, TreeOK
      <3> HIDE DEF s
      <3>2. s.tree[s.node] \in NodeType
        BY <3>1, Nodes
      <3>3. data \in Seq({"old", "new"})
        BY <3>2 DEF NodeType
      <3> HIDE DEF data
      <3>4. Len(data) \in Nat /\ 0 \in Nat /\ 0 <= Len(data) /\ Len(data) <= Len(data)
        BY SMT, <3>3
      <3> HIDE DEF fs
      <3>5. QED
        BY <3>4 DEF data
    <2>2. CASE fs # "tree"
      <3>1. 0 \in Nat
        BY SMT
      <3> HIDE DEF fs
      <3>2. QED
        BY <2>2, <3>1
    <2>3. QED
      BY <2>1, <2>2
  <1>9. \/ files' = files /\ opened' = opened
        \/ /\ fs # "none" /\ files' = [files EXCEPT ![fd] = [fs |-> fs, node |-> s.node, pos |-> pos]]
           /\ opened' = [opened EXCEPT ![fd] = path]
    <2> HIDE DEF S
    <2>1. QED
      BY <1>1
  <1>10. pool' = r.pool /\ tree' = s.tree
    BY <1>1
  <1> HIDE DEF s, fs, pos
  <1>11. QED
    BY <1>2, <1>4, <1>7, <1>8, <1>9, <1>10, OpenKeeps

\* sys_close keeps it.
LEMMA CloseStep ==
  ASSUME VfsInv, NEW fd \in Fds, sys_close(fd)
  PROVE  VfsInv'
  <1>1. /\ files' = [files EXCEPT ![fd] = NoFile] /\ opened' = [opened EXCEPT ![fd] = <<>>]
        /\ UNCHANGED <<pool, tasks, tree, boot>>
    BY DEF sys_close
  <1>2. files \in [Fds -> FileType] /\ opened \in [Fds -> Seq(Names)]
    BY DEF VfsInv
  <1>3. NoFile \in FileType /\ NoFile.fs = "none"
    <2>1. 0 \in Nat
      BY SMT
    <2>2. QED
      BY <2>1 DEF NoFile, FileType
  <1>4. <<>> \in Seq(Names)
    BY SMT
  <1>5. /\ files' \in [Fds -> FileType] /\ opened' \in [Fds -> Seq(Names)]
        /\ files'[fd] = NoFile
        /\ \A g \in Fds : g # fd => files'[g] = files[g] /\ opened'[g] = opened[g]
    BY <1>1, <1>2, <1>3, <1>4
  <1>6. FileOK(NoFile, opened'[fd], tree', pool')
    BY <1>3 DEF FileOK
  <1>7. \A g \in Fds : FileOK(files'[g], opened'[g], tree', pool')
    <2>1. \A g \in Fds : FileOK(files[g], opened[g], tree', pool')
      BY <1>1 DEF VfsInv
    <2>2. QED
      BY <1>5, <1>6, <2>1
  <1>8. TreeOK(tree') /\ PoolOK' /\ tasks' \subseteq Pids
    BY <1>1 DEF VfsInv, PoolOK
  <1>9. BootOK'
    BY <1>1, <1>5 DEF VfsInv, BootOK
  <1>10. QED
    BY <1>5, <1>7, <1>8, <1>9 DEF VfsInv

\* The descriptors of a tree are open only when the boot is over.
LEMMA BootOver ==
  ASSUME VfsInv, NEW fd \in Fds, RegularFile(fd)
  PROVE  /\ boot = <<>> /\ files[fd] \in FileType /\ files[fd].node \in DOMAIN tree
         /\ files[fd].pos \in Nat /\ files[fd].pos <= Len(tree[files[fd].node].data)
         /\ tree[files[fd].node].type = "file"
         /\ tree[files[fd].node].data \in Seq({"old", "new"})
  <1>1. files[fd].fs = "tree" /\ tree[files[fd].node].type = "file"
    BY DEF RegularFile
  <1>2. boot = <<>>
    <2>1. NoFile.fs = "none"
      BY DEF NoFile
    <2>2. files[fd] # NoFile
      BY <1>1, <2>1
    <2>3. QED
      BY <2>2 DEF VfsInv, BootOK
  <1>3. files[fd] \in FileType /\ FileOK(files[fd], opened[fd], tree, pool) /\ Shape(tree)
    BY DEF VfsInv, TreeOK
  <1>4. files[fd].node \in DOMAIN tree /\ files[fd].pos <= Len(tree[files[fd].node].data)
    BY <1>1, <1>3 DEF FileOK
  <1>5. files[fd].pos \in Nat
    BY <1>3 DEF FileType
  <1>6. tree[files[fd].node] \in NodeType
    BY <1>3, <1>4, Nodes
  <1>7. tree[files[fd].node].data \in Seq({"old", "new"})
    BY <1>6 DEF NodeType
  <1>8. QED
    BY <1>1, <1>2, <1>3, <1>4, <1>5, <1>7

\* A position moves and lengths of files do not shrink.
LEMMA Moved ==
  ASSUME VfsInv, NEW fd \in Fds, RegularFile(fd), NEW x \in Nat, files' = [files EXCEPT ![fd].pos = @ + x],
         TreeOK(tree'), DOMAIN tree' = DOMAIN tree, \A j \in DOMAIN tree : tree'[j].type = tree[j].type,
         \A j \in DOMAIN tree, pos \in Nat : pos <= Len(tree[j].data) => pos <= Len(tree'[j].data),
         files[fd].pos + x <= Len(tree'[files[fd].node].data),
         UNCHANGED <<pool, tasks, boot, opened>>
  PROVE  VfsInv'
  <1>1. /\ boot = <<>> /\ files[fd] \in FileType /\ files[fd].node \in DOMAIN tree /\ files[fd].pos \in Nat
    BY BootOver
  <1>2. files \in [Fds -> FileType] /\ opened \in [Fds -> Seq(Names)]
    BY DEF VfsInv
  <1> DEFINE f == [files[fd] EXCEPT !.pos = @ + x]
  <1>3. f \in FileType /\ f.fs = files[fd].fs /\ f.node = files[fd].node /\ f.pos = files[fd].pos + x
    <2>1. files[fd].pos + x \in Nat
      BY SMT, <1>1
    <2>2. QED
      BY <1>1, <2>1 DEF FileType
  <1> HIDE DEF f
  <1>4. /\ files' \in [Fds -> FileType] /\ files'[fd] = f
        /\ \A g \in Fds : g # fd => files'[g] = files[g]
    BY <1>2, <1>3 DEF f
  <1>5. FileOK(f, opened[fd], tree', pool')
    <2>1. f.fs = "tree" /\ "tree" # "proc"
      BY <1>3 DEF RegularFile
    <2>2. QED
      BY <1>1, <1>3, <2>1 DEF FileOK
  <1>6. ASSUME NEW g \in Fds PROVE FileOK(files[g], opened[g], tree', pool')
    <2>1. FileOK(files[g], opened[g], tree, pool) /\ files[g] \in FileType
      BY <1>2 DEF VfsInv
    <2>2. files[g].pos \in Nat
      BY <2>1 DEF FileType
    <2>3. QED
      BY <2>1, <2>2 DEF FileOK
  <1>7. \A g \in Fds : FileOK(files'[g], opened'[g], tree', pool')
    BY <1>4, <1>5, <1>6
  <1>8. PoolOK'
    BY DEF VfsInv, PoolOK
  <1>9. BootOK' /\ tasks' \subseteq Pids /\ opened' \in [Fds -> Seq(Names)]
    BY <1>1, <1>2 DEF VfsInv, BootOK
  <1>10. QED
    BY <1>4, <1>7, <1>8, <1>9 DEF VfsInv

\* The smaller of two numbers.
LEMMA Smaller ==
  ASSUME NEW a \in Nat, NEW b \in Nat
  PROVE  Min({a, b}) \in Nat /\ Min({a, b}) <= b
  <1>1. \E x \in {a, b} : \A y \in {a, b} : x <= y
    BY SMT
  <1>2. Min({a, b}) \in {a, b} /\ \A y \in {a, b} : Min({a, b}) <= y
    BY <1>1 DEF Min
  <1>3. QED
    BY <1>2

\* sys_read keeps the invariant.
LEMMA ReadStep ==
  ASSUME VfsInv, NEW fd \in Fds, NEW n \in 1 .. MaxFile, sys_read(fd, n)
  PROVE  VfsInv'
  <1> DEFINE len == Len(tree[files[fd].node].data)
             left == len - files[fd].pos
             x == Min({n, left})
  <1>1. RegularFile(fd) /\ left > 0 /\ files' = [files EXCEPT ![fd].pos = @ + x]
          /\ UNCHANGED <<pool, tasks, tree, boot, opened>>
    BY DEF sys_read
  <1>2. files[fd].pos \in Nat /\ files[fd].pos <= len /\ len \in Nat
    <2>1. tree[files[fd].node].data \in Seq({"old", "new"})
      BY <1>1, BootOver
    <2>2. len \in Nat
      BY SMT, <2>1
    <2>3. QED
      BY <1>1, <2>2, BootOver
  <1>3. n \in Nat /\ left \in Nat
    <2> HIDE DEF len
    <2>1. QED
      BY SMT, <1>2
  <1>4. x \in Nat /\ x <= left
    <2> HIDE DEF left
    <2>1. QED
      BY <1>3, Smaller
  <1>5. files[fd].pos + x <= len
    <2> HIDE DEF len, x
    <2>1. QED
      BY SMT, <1>2, <1>4
  <1>6. TreeOK(tree') /\ tree' = tree
    BY <1>1 DEF VfsInv
  <1> HIDE DEF x, left
  <1>7. QED
    BY <1>1, <1>4, <1>5, <1>6, Moved

\* vfs_write at a position within the file leaves no holes and does not shorten it.
LEMMA WriteFacts ==
  ASSUME NEW data \in Seq({"old", "new"}), NEW off \in Nat, NEW n \in Nat, off <= Len(data)
  PROVE  LET w == vfs_write(data, off, n) IN
         w \in Seq({"old", "new"}) /\ Len(w) >= Len(data) /\ Len(w) >= off + n
  <1> DEFINE w == vfs_write(data, off, n)
             B == {"old", "new"}
  <1>1. Len(data) \in Nat /\ DOMAIN data = 1 .. Len(data) /\ \A k \in 1 .. Len(data) : data[k] \in B
    BY SMT
  <1>2. CASE off + n > Len(data)
    <2>1. w = [k \in 1 .. off + n |-> IF k > off /\ k <= off + n THEN "new" ELSE Grown(data, off, off + n)[k]]
      BY <1>2 DEF vfs_write, Grown
    <2>2. ASSUME NEW k \in 1 .. off + n PROVE w[k] \in B
      <3>1. CASE k > off
        <4>1. k <= off + n
          BY SMT
        <4>2. QED
          BY <2>1, <3>1, <4>1
      <3>2. CASE ~(k > off)
        <4>1. k \in 1 .. Len(data) /\ k <= Len(data)
          BY SMT, <1>1, <3>2
        <4>2. w[k] = data[k]
          BY <2>1, <3>2, <4>1 DEF Grown
        <4>3. QED
          BY <1>1, <4>1, <4>2
      <3>3. QED
        BY <3>1, <3>2
    <2>3. DOMAIN w = 1 .. off + n /\ w = [k \in 1 .. off + n |-> w[k]]
      BY <2>1
    <2> HIDE DEF w, B
    <2>4. w \in [1 .. off + n -> B]
      BY <2>2, <2>3
    <2>5. w \in Seq(B) /\ Len(w) = off + n
      BY SMT, <2>4
    <2>6. QED
      BY SMT, <1>1, <1>2, <2>5 DEF w, B
  <1>3. CASE ~(off + n > Len(data))
    <2>1. w = [k \in DOMAIN data |-> IF k > off /\ k <= off + n THEN "new" ELSE data[k]]
      BY <1>3 DEF vfs_write
    <2>2. w \in [1 .. Len(data) -> B]
      BY <1>1, <2>1
    <2> HIDE DEF w, B
    <2>3. w \in Seq(B) /\ Len(w) = Len(data)
      BY SMT, <1>1, <2>2
    <2>4. QED
      BY SMT, <1>1, <1>3, <2>3 DEF w, B
  <1>4. QED
    BY <1>2, <1>3

\* u is the tree t with the content d of the file i.
Rewritten(t, i, d, u) ==
  /\ TreeOK(u) /\ DOMAIN u = DOMAIN t /\ u[i].data = d
  /\ \A j \in DOMAIN t : u[j].type = t[j].type /\ (j # i => u[j] = t[j])

\* A write to a file makes such a tree.
LEMMA FileWritten ==
  ASSUME NEW t, TreeOK(t), NEW i \in DOMAIN t, t[i].type = "file", NEW d \in Seq({"old", "new"}),
         NEW u, u = [t EXCEPT ![i].data = d]
  PROVE  Rewritten(t, i, d, u)
  <1>1. Shape(t) /\ DOMAIN t = 1 .. Len(t) /\ Len(t) \in Nat /\ t[i] \in NodeType
    BY Nodes DEF TreeOK
  <1>2. t \in [1 .. Len(t) -> NodeType]
    <2>1. t \in Seq(NodeType)
      BY <1>1 DEF Shape
    <2>2. QED
      BY SMT, <2>1
  <1> DEFINE n == [t[i] EXCEPT !.data = d]
  <1>3. n \in NodeType /\ n.name = t[i].name /\ n.type = t[i].type /\ n.parent = t[i].parent /\ n.data = d
    BY <1>1 DEF NodeType
  <1> HIDE DEF n
  <1>4. u \in [1 .. Len(t) -> NodeType] /\ u[i] = n /\ \A j \in DOMAIN t : j # i => u[j] = t[j]
    BY <1>1, <1>2, <1>3 DEF n
  <1>5. /\ DOMAIN u = DOMAIN t
        /\ \A j \in DOMAIN t : u[j].name = t[j].name /\ u[j].type = t[j].type /\ u[j].parent = t[j].parent
    BY <1>1, <1>3, <1>4
  <1>6. u \in Seq(NodeType) /\ u # <<>>
    <2>1. u \in Seq(NodeType) /\ Len(u) = Len(t) /\ Len(t) >= 1
      BY SMT, <1>1, <1>4, Nodes
    <2>2. Len(<<>>) = 0 /\ ~(0 >= 1)
      BY SMT
    <2>3. QED
      BY <2>1, <2>2
  <1>7. u[Root] = Node("/", "dir", 0)
    <2>1. t[Root] = Node("/", "dir", 0) /\ Root \in DOMAIN t
      BY <1>1, Nodes DEF Shape
    <2>2. Node("/", "dir", 0).type = "dir"
      BY DEF Node
    <2>3. Root # i
      BY <2>1, <2>2
    <2>4. QED
      BY <1>4, <2>1, <2>3
  <1>8. Shape(u)
    <2>1. \A j \in DOMAIN u : j # Root => u[j].parent \in 1 .. j - 1
      BY <1>1, <1>5 DEF Shape
    <2>2. ASSUME NEW j \in DOMAIN u, NEW k \in DOMAIN u, u[j].parent = u[k].parent, u[j].name = u[k].name
          PROVE  j = k
      <3>1. j \in DOMAIN t /\ k \in DOMAIN t /\ t[j].parent = t[k].parent /\ t[j].name = t[k].name
        BY <1>5, <2>2
      <3>2. QED
        BY <1>1, <3>1 DEF Shape
    <2>3. \A j, k \in DOMAIN u : u[j].parent = u[k].parent /\ u[j].name = u[k].name => j = k
      BY <2>2
    <2>4. QED
      BY <1>6, <1>7, <2>1, <2>3 DEF Shape
  <1>9. ProcAlone(u)
    <2>1. \A j \in DOMAIN t : j # Root => t[j].parent \in DOMAIN t
      BY <1>1, Nodes
    <2>2. ASSUME NEW j \in DOMAIN u
          PROVE  /\ u[j].type = "procfs" => u[j].parent = Root /\ u[j].name = "proc"
                 /\ j # Root => u[u[j].parent].type # "procfs"
      <3>1. j \in DOMAIN t /\ u[j].name = t[j].name /\ u[j].type = t[j].type /\ u[j].parent = t[j].parent
        BY <1>5
      <3>2. j # Root => u[t[j].parent].type = t[t[j].parent].type
        BY <1>5, <2>1, <3>1
      <3>3. QED
        BY <3>1, <3>2 DEF TreeOK, ProcAlone
    <2>3. QED
      BY <2>2 DEF ProcAlone
  <1>10. QED
    BY <1>3, <1>4, <1>5, <1>8, <1>9 DEF TreeOK, Rewritten

\* sys_write keeps the invariant.
LEMMA WriteStep ==
  ASSUME VfsInv, NEW fd \in Fds, NEW n \in 1 .. MaxFile, NEW mem, sys_write(fd, n, mem)
  PROVE  VfsInv'
  <1> DEFINE i == files[fd].node
             off == files[fd].pos
             data == tree[i].data
             w == vfs_write(data, off, n)
  <1>1. RegularFile(fd) /\ tree' = [tree EXCEPT ![i].data = w] /\ files' = [files EXCEPT ![fd].pos = @ + n]
          /\ UNCHANGED <<pool, tasks, boot, opened>>
    BY DEF sys_write
  <1>2. /\ i \in DOMAIN tree /\ off \in Nat /\ off <= Len(data) /\ tree[i].type = "file"
        /\ data \in Seq({"old", "new"}) /\ TreeOK(tree)
    BY <1>1, BootOver DEF VfsInv
  <1>3. n \in Nat
    BY SMT
  <1> HIDE DEF off
  <1>4. w \in Seq({"old", "new"}) /\ Len(w) >= Len(data) /\ Len(w) >= off + n
    <2> HIDE DEF data
    <2>1. QED
      BY <1>2, <1>3, WriteFacts
  <1> HIDE DEF w
  <1>5. /\ TreeOK(tree') /\ DOMAIN tree' = DOMAIN tree /\ tree'[i].data = w
        /\ \A j \in DOMAIN tree : tree'[j].type = tree[j].type /\ (j # i => tree'[j] = tree[j])
    <2> HIDE DEF i
    <2>1. Rewritten(tree, i, w, tree')
      BY <1>1, <1>2, <1>4, FileWritten
    <2>2. QED
      BY <2>1 DEF Rewritten
  <1>6. Len(w) \in Nat /\ Len(data) \in Nat
    <2> HIDE DEF data
    <2>1. QED
      BY SMT, <1>2, <1>4
  <1>7. ASSUME NEW j \in DOMAIN tree, NEW pos \in Nat, pos <= Len(tree[j].data)
        PROVE  pos <= Len(tree'[j].data)
    <2>1. CASE j = i
      <3>1. pos <= Len(data)
        BY <1>7, <2>1
      <3> HIDE DEF data
      <3>2. pos <= Len(w)
        BY SMT, <1>4, <1>6, <3>1
      <3>3. QED
        BY <1>5, <2>1, <3>2
    <2>2. CASE j # i
      BY <1>5, <1>7, <2>2
    <2>3. QED
      BY <2>1, <2>2
  <1>8. off + n <= Len(tree'[i].data)
    <2>1. off + n <= Len(w)
      <3> HIDE DEF data
      <3>1. QED
        BY SMT, <1>2, <1>3, <1>4, <1>6
    <2>2. QED
      BY <1>5, <2>1
  <1>9. QED
    BY <1>1, <1>3, <1>5, <1>7, <1>8, Moved DEF off

\* The tasks come and go without the file system.
LEMMA TasksStep ==
  ASSUME VfsInv, tasks' \subseteq Pids, UNCHANGED <<pool, tree, boot, files, opened>>
  PROVE  VfsInv'
  BY DEF VfsInv, PoolOK, BootOK

-----------------------------------------------------------------------------
(* The results.                                                            *)

\* The file system starts with nothing but its root.
LEMMA VfsStarts ==
  ASSUME VfsInit
  PROVE  VfsInv
  <1> DEFINE n == Node("/", "dir", 0)
  <1>1. /\ tree = <<n>> /\ pool = <<>> /\ tasks = {} /\ boot = Plan
        /\ files = [fd \in Fds |-> NoFile] /\ opened = [fd \in Fds |-> <<>>]
    BY DEF VfsInit, vfs_init
  <1>2. n \in NodeType /\ n.type = "dir" /\ n.parent = 0
    <2>1. 0 \in Nat /\ <<>> \in Seq({"old", "new"})
      BY SMT
    <2>2. "/" \in Names
      BY VfsAssumption
    <2>3. QED
      BY <2>1, <2>2 DEF Node, NodeType
  <1> HIDE DEF n
  <1>3. tree \in Seq(NodeType) /\ Len(tree) = 1 /\ tree[1] = n
    BY <1>1, <1>2, SingletonSeq
  <1>4. DOMAIN tree = {1} /\ tree # <<>>
    <2>1. DOMAIN tree = 1 .. Len(tree) /\ 1 .. 1 = {1}
      BY SMT, <1>3
    <2>2. Len(<<>>) = 0 /\ 0 # 1
      BY SMT
    <2>3. QED
      BY <1>3, <2>1, <2>2
  <1>5. Shape(tree)
    BY <1>3, <1>4 DEF Shape, Root, n
  <1>6. ProcAlone(tree)
    BY <1>2, <1>3, <1>4 DEF ProcAlone, Root
  <1>7. PoolOK
    BY <1>1, <1>2, <1>3, <1>4 DEF PoolOK
  <1>8. \A fd \in Fds : files[fd] = NoFile /\ opened[fd] = <<>>
    BY <1>1
  <1>9. BootOK
    <2>1. PICK k \in 1 .. Len(Plan) : Plan[k] = [type |-> "proc", path |-> <<"proc">>, data |-> <<>>]
      BY PlanFacts
    <2>2. Plan \in Seq(Entry)
      BY PlanFacts
    <2>3. 1 \in 1 .. Len(Plan) /\ Plan = SubSeq(Plan, 1, Len(Plan))
      BY SMT, <2>1, <2>2
    <2>4. Placed(tree, 1)
      BY <1>4 DEF Placed, Root
    <2>5. QED
      BY <1>1, <1>8, <2>3, <2>4 DEF BootOK
  <1>10. NoFile \in FileType /\ NoFile.fs = "none" /\ <<>> \in Seq(Names)
    <2>1. 0 \in Nat /\ <<>> \in Seq(Names)
      BY SMT
    <2>2. QED
      BY <2>1 DEF NoFile, FileType
  <1>11. files \in [Fds -> FileType] /\ opened \in [Fds -> Seq(Names)]
    BY <1>1, <1>10
  <1>12. \A fd \in Fds : FileOK(files[fd], opened[fd], tree, pool)
    BY <1>8, <1>10 DEF FileOK
  <1>13. tasks \subseteq Pids
    BY <1>1
  <1>14. QED
    BY <1>5, <1>6, <1>7, <1>9, <1>11, <1>12, <1>13 DEF VfsInv, TreeOK

\* Every step keeps the invariant.
LEMMA VfsStep ==
  ASSUME VfsInv, [VfsNext]_vfsVars
  PROVE  VfsInv'
  <1>1. CASE \E mem \in 0 .. 4 : vfs_load_initrd(mem) \/ vfs_mount_dev(mem) \/ vfs_mount_procfs(mem)
    BY <1>1, LoadKeeps, DeviceKeeps, ProcKeepsInv
  <1>2. ASSUME NEW fd \in Fds, NEW path \in Paths \ NewPaths, sys_open(fd, path, FALSE, FALSE)
        PROVE  VfsInv'
    <2>1. path \in Seq(Names) /\ FALSE \in BOOLEAN /\ (FALSE => path # <<>> /\ path[1] # "proc")
      BY VfsAssumption
    <2>2. QED
      BY <1>2, <2>1, OpenStep
  <1>3. ASSUME NEW fd \in Fds, NEW path \in NewPaths, NEW append \in BOOLEAN, sys_open(fd, path, TRUE, append)
        PROVE  VfsInv'
    <2>1. path \in Seq(Names) /\ path # <<>> /\ path[1] # "proc" /\ TRUE \in BOOLEAN
      BY VfsAssumption
    <2>2. QED
      BY <1>3, <2>1, OpenStep
  <1>4. ASSUME NEW fd \in Fds, sys_close(fd) PROVE VfsInv'
    BY <1>4, CloseStep
  <1>5. ASSUME NEW fd \in Fds, NEW n \in 1 .. MaxFile, sys_read(fd, n) PROVE VfsInv'
    BY <1>5, ReadStep
  <1>6. ASSUME NEW fd \in Fds, NEW n \in 1 .. MaxFile, NEW mem \in 0 .. 1, sys_write(fd, n, mem) PROVE VfsInv'
    BY <1>6, WriteStep
  <1>7. ASSUME NEW p \in Pids, TaskStarts(p) PROVE VfsInv'
    <2>1. tasks' \subseteq Pids /\ UNCHANGED <<pool, tree, boot, files, opened>>
      BY <1>7 DEF TaskStarts, VfsInv
    <2>2. QED
      BY <2>1, TasksStep
  <1>8. ASSUME NEW p \in Pids, TaskReaped(p) PROVE VfsInv'
    <2>1. tasks' \subseteq Pids /\ UNCHANGED <<pool, tree, boot, files, opened>>
      BY <1>8 DEF TaskReaped, VfsInv
    <2>2. QED
      BY <2>1, TasksStep
  <1>9. CASE UNCHANGED vfsVars
    <2>1. tasks' \subseteq Pids /\ UNCHANGED <<pool, tree, boot, files, opened>>
      BY <1>9 DEF vfsVars, VfsInv
    <2>2. QED
      BY <2>1, TasksStep
  <1>10. QED
    BY <1>1, <1>2, <1>3, <1>4, <1>5, <1>6, <1>7, <1>8, <1>9 DEF VfsNext

\* What an open file of /proc gives is what it was opened for.
LEMMA ProcStable ==
  ASSUME VfsInv
  PROVE  ProcFilesStable
  <1>1. SUFFICES ASSUME NEW fd \in Fds, files[fd].fs = "proc"
                 PROVE  LET names == {opened[fd][k] : k \in DOMAIN opened[fd]}
                            kind == IF "cmdline" \in names THEN "cmdline" ELSE "status" IN
                        IF names \cap Pids = {} THEN procfs_read(files[fd].node) = <<opened[fd][2], NoPid>>
                        ELSE \E pid \in names \cap Pids :
                               procfs_read(files[fd].node) \in {<<>>, <<kind, pid>>}
    BY DEF ProcFilesStable
  <1> DEFINE i == files[fd].node
             path == opened[fd]
             names == {path[k] : k \in DOMAIN path}
             kind == IF "cmdline" \in names THEN "cmdline" ELSE "status"
             n == pool[i]
  <1>2. i \in DOMAIN pool /\ Means(n, path, Len(path))
    BY <1>1 DEF VfsInv, FileOK
  <1>3. path \in Seq(Names)
    BY DEF VfsInv
  <1>4. names = {path[k] : k \in 1 .. Len(path)}
    <2>1. DOMAIN path = 1 .. Len(path)
      BY SMT, <1>3
    <2>2. QED
      BY <2>1
  <1>5. Mounted(pool)
    <2>1. DOMAIN <<>> = {}
      BY SMT
    <2>2. QED
      BY <1>2, <2>1 DEF VfsInv, PoolOK
  <1>6. /\ n.kind \in {"status", "cmdline"} <=> i \notin 1 .. 3
        /\ i \notin 1 .. 3 => n.pid \in Pids
        /\ n.kind \in Kinds
    <2>1. pool \in Seq(PoolNode)
      BY <1>5 DEF Mounted
    <2>2. n \in PoolNode
      BY SMT, <1>2, <2>1
    <2>3. n.kind \in Kinds
      BY <2>2 DEF PoolNode
    <2>4. QED
      BY <1>2, <1>5, <2>3, MountNodes
  <1>7. procfs_read(i) = <<n.kind, n.pid>> \/ (procfs_read(i) = <<>> /\ n.kind \in {"status", "cmdline"})
    BY DEF procfs_read
  <1> HIDE DEF i, path, n, names, kind
  <1>8. CASE n.pid = NoPid /\ Len(path) = 2 /\ path[1] = "proc" /\ path[2] = n.kind
    <2>1. n.pid \notin Pids
      BY <1>8, ProcfsAssumption
    <2>2. procfs_read(i) = <<n.kind, n.pid>>
      BY <1>6, <1>7, <2>1
    <2>3. \A k \in 1 .. Len(path) : k = 1 \/ k = 2
      BY SMT, <1>8
    <2>4. names \subseteq {"proc", n.kind}
      BY <1>4, <1>8, <2>3
    <2>5. names \cap Pids = {}
      BY <1>6, <2>4, ProcfsAssumption
    <2>6. QED
      BY <1>8, <2>2, <2>5 DEF i, path, names
  <1>9. CASE n.pid \in Pids \cap names /\ n.kind = kind
    <2>1. procfs_read(i) \in {<<>>, <<kind, n.pid>>}
      BY <1>7, <1>9
    <2>2. names \cap Pids # {} /\ n.pid \in names \cap Pids
      BY <1>9
    <2>3. QED
      BY <2>1, <2>2 DEF i, path, names, kind
  <1>10. QED
    BY <1>2, <1>4, <1>8, <1>9 DEF Means, kind

\* Every state of the file system satisfies the invariant: the parents of
\* nodes are older, the children of a directory have distinct names, nothing
\* lies below /proc in the tree, the nodes of the pool are the mount's and
\* those of processes, and the open files lie where their paths lead.
THEOREM VfsInvariant == VfsSpec => []VfsInv
  <1>1. VfsInit => VfsInv
    BY VfsStarts
  <1>2. VfsInv /\ [VfsNext]_vfsVars => VfsInv'
    BY VfsStep
  <1>3. QED
    BY <1>1, <1>2, PTL DEF VfsSpec

\* Every node that vfs_load_initrd, a mount or vfs_create_file added is the one
\* vfs_resolve finds by its path, whichever allocations failed on the way.
THEOREM NodesAreFound == VfsSpec => []PathsFindNodes
  <1>1. VfsInv => PathsFindNodes
    BY NodesFound DEF VfsInv
  <1>2. QED
    BY <1>1, VfsInvariant, PTL

\* vfs_write leaves no holes and no bytes of the heap in a file: no descriptor
\* stands behind the end of its file, however many extend it.
THEOREM FilesAreDense == VfsSpec => []FilesDense
  <1>1. VfsInv => FilesDense
    <2>1. SUFFICES ASSUME VfsInv PROVE FilesDense
      OBVIOUS
    <2>2. Shape(tree)
      BY <2>1 DEF VfsInv, TreeOK
    <2>3. ASSUME NEW i \in DOMAIN tree, NEW k \in DOMAIN tree[i].data
          PROVE  tree[i].data[k] \in {"old", "new"}
      <3>1. tree[i] \in NodeType
        BY <2>2, Nodes
      <3>2. tree[i].data \in Seq({"old", "new"})
        BY <3>1 DEF NodeType
      <3>3. QED
        BY SMT, <2>3, <3>2
    <2>4. \A fd \in Fds : RegularFile(fd) => files[fd].pos <= Len(tree[files[fd].node].data)
      BY <2>1, BootOver
    <2>5. QED
      BY <2>3, <2>4 DEF FilesDense
  <1>2. QED
    BY <1>1, VfsInvariant, PTL

\* An open file of /proc goes on meaning the process and the kind it was opened
\* for: procfs_resolve turns only nodes that no descriptor was given yet.
THEOREM ProcFilesMeanTheSame == VfsSpec => []ProcFilesStable
  <1>1. VfsInv => ProcFilesStable
    BY ProcStable
  <1>2. QED
    BY <1>1, VfsInvariant, PTL
=============================================================================
