-------------------------------- MODULE Vfs --------------------------------
(***************************************************************************)
(* The in-memory file system of kernel/src/fs/vfs.c: the tree filled from  *)
(* the initrd, the devices and /proc mounted on it, and the files tasks    *)
(* create, write and read through their descriptors.  A node is prepended  *)
(* to its parent's children and never removed, so of two children with one *)
(* name the later is found.  Any allocation may fail.  Paths are sequences *)
(* of components; components longer than VFS_MAX_NAME are not modelled.    *)
(***************************************************************************)
EXTENDS Procfs, FiniteSets, FiniteSetsExt

CONSTANTS
  Archive,    \* the initrd: entries [type, path, data], type "dir" or "file"
  Devices, LateDevices,  \* the names mounted before and after the initrd
  Paths,      \* the paths tasks open
  NewPaths,   \* those of them they open with O_CREAT, none below /proc
  Fds,        \* the open files, of whatever task
  MaxNodes, MaxFile  \* bounds on the tree and on a file

\* A path without its last component, that component, and the paths that begin
\* with another.  (SequencesExt has the like, but every obligation of the
\* proofs would then carry all of its definitions.)
DirPart(path) == SubSeq(path, 1, Len(path) - 1)
BaseName(path) == path[Len(path)]
Encloses(p, q) == Len(p) <= Len(q) /\ \A k \in 1 .. Len(p) : p[k] = q[k]

\* What is put into the tree at boot, in order, and where.
Entries(type, names) == [k \in DOMAIN names |-> [type |-> type, path |-> <<names[k]>>, data |-> <<>>]]
Plan == Entries("dev", Devices) \o Entries("proc", <<"proc">>)
          \o Archive \o Entries("dev", LateDevices)
Place(e) == IF e.type = "dev" THEN <<"dev">> \o e.path ELSE e.path

\* The initrd is the archive of a directory tree: what is no directory has its
\* place for itself and nothing below it, beside the devices and /proc.
ASSUME VfsAssumption ==
  /\ {"/", "dev", "proc"} \subseteq Names
  /\ Devices \in Seq(Names) /\ LateDevices \in Seq(Names)
  /\ Archive \in Seq([type : {"dir", "file"}, path : Seq(Names) \ {<<>>}, data : Seq({"old"})])
  /\ \A i, j \in DOMAIN Plan :
       i # j /\ Plan[i].type # "dir" => ~Encloses(Place(Plan[i]), Place(Plan[j]))
  /\ Paths \subseteq Seq(Names) /\ NewPaths \subseteq Seq(Names) \ {<<>>}
  /\ \A path \in NewPaths : path[1] # "proc"
  /\ MaxNodes \in Nat /\ MaxFile \in Nat

VARIABLES
  tree,     \* the nodes in the order of their creation: name, type, parent, data
  boot,     \* what vfs_load_initrd and the mounts have still to do
  files,    \* the node each descriptor is open on, and its position
  opened    \* the path it was opened by

vfsVars == <<pool, tasks, tree, boot, files, opened>>

Root == 1
NoFile == [fs |-> "none", node |-> 0, pos |-> 0]
Data == {"old", "zero", "new", "junk"}  \* junk: heap bytes nobody initialised
Node(name, type, parent) == [name |-> name, type |-> type, parent |-> parent, data |-> <<>>]

Children(t, dir, name) == {i \in DOMAIN t : t[i].parent = dir /\ t[i].name = name}
Found(t, dir, name) == IF Children(t, dir, name) = {} THEN 0 ELSE Max(Children(t, dir, name))

-----------------------------------------------------------------------------
(* Look-up and creation.                                                   *)

\* One component of vfs_resolve; at is where the walk has come.
Walk(at, name) ==
  CASE at.fs = "none" -> at
    [] at.fs = "proc" \/ (at.fs = "tree" /\ tree[at.node].type = "procfs") ->
         LET r == procfs_resolve(at.pool, IF at.fs = "proc" THEN at.node ELSE 0, name)
         IN [fs |-> IF r.node = 0 THEN "none" ELSE "proc", node |-> r.node, pool |-> r.pool]
    [] OTHER ->
         LET i == Found(tree, at.node, name)
         IN [at EXCEPT !.fs = IF i = 0 THEN "none" ELSE "tree", !.node = i]

vfs_resolve(path) ==
  LET at[k \in 0 .. Len(path)] == IF k = 0 THEN [fs |-> "tree", node |-> Root, pool |-> pool]
                                 ELSE Walk(at[k - 1], path[k])
  IN at[Len(path)]

\* Fault: a directory is created although there is one.
vfs_get_or_create_dirBlind(s, name) ==
  IF s.node = 0 \/ s.mem = 0 THEN [s EXCEPT !.node = 0]
  ELSE [tree |-> Append(s.tree, Node(name, "dir", s.node)),
        node |-> Len(s.tree) + 1, mem |-> s.mem - 1]

\* s.mem: how many nodes kcalloc still finds room for.
vfs_get_or_create_dir(s, name) ==
  LET i == Found(s.tree, s.node, name) IN
  IF s.node = 0 THEN s
  ELSE IF i # 0 THEN [s EXCEPT !.node = i]
  ELSE IF s.mem = 0 THEN [s EXCEPT !.node = 0]
  ELSE [tree |-> Append(s.tree, Node(name, "dir", s.node)),
        node |-> Len(s.tree) + 1, mem |-> s.mem - 1]

vfs_ensure_path(path, mem) ==
  LET at[k \in 0 .. Len(path)] == IF k = 0 THEN [tree |-> tree, node |-> Root, mem |-> mem]
                                 ELSE vfs_get_or_create_dir(at[k - 1], path[k])
  IN at[Len(path)]

\* A child of that name is returned whatever its type.
vfs_create_file(path, mem) ==
  LET s == vfs_ensure_path(DirPart(path), mem)
      i == Found(s.tree, s.node, BaseName(path)) IN
  IF s.node = 0 \/ i # 0 THEN [s EXCEPT !.node = i]
  ELSE IF s.mem = 0 THEN [s EXCEPT !.node = 0]
  ELSE [s EXCEPT !.tree = Append(@, Node(BaseName(path), "file", s.node)),
                 !.node = Len(s.tree) + 1]

-----------------------------------------------------------------------------
(* Boot.  mem is the number of allocations that still succeed.             *)

\* A file of the initrd is added without a look for an older one, and left out
\* without memory for its node or its content (an empty one always: kmalloc
\* refuses 0 bytes); a directory that cannot be made ends the loading.
vfs_load_initrd(mem) ==
  /\ boot # <<>> /\ Head(boot).type \in {"dir", "file"}
  /\ LET e == Head(boot)
         s == vfs_ensure_path(IF e.type = "dir" THEN e.path ELSE DirPart(e.path), mem)
         linked == e.type = "file" /\ s.node # 0 /\ s.mem >= 2 /\ e.data # <<>> IN
     /\ tree' = IF linked
                THEN Append(s.tree, [Node(BaseName(e.path), "file", s.node) EXCEPT !.data = e.data])
                ELSE s.tree
     /\ boot' = IF s.node = 0 THEN Entries("dev", LateDevices) ELSE Tail(boot)
  /\ UNCHANGED <<pool, tasks, files, opened>>

vfs_mount_dev(mem) ==
  /\ boot # <<>> /\ Head(boot).type = "dev"
  /\ LET s == vfs_ensure_path(<<"dev">>, mem) IN
     tree' = IF s.node = 0 \/ s.mem = 0 THEN s.tree
             ELSE Append(s.tree, Node(Head(boot).path[1], "chardev", s.node))
  /\ boot' = Tail(boot)
  /\ UNCHANGED <<pool, tasks, files, opened>>

vfs_mount_procfs(mem) ==
  /\ boot # <<>> /\ Head(boot).type = "proc"
  /\ IF mem = 0 THEN UNCHANGED <<tree, pool>>
     ELSE tree' = Append(tree, Node("proc", "procfs", Root)) /\ pool' = procfs_mount
  /\ boot' = Tail(boot)
  /\ UNCHANGED <<tasks, files, opened>>

-----------------------------------------------------------------------------
(* The descriptors of sys_open, sys_read and sys_write.                    *)

\* With O_CREATE anything but a regular file goes through vfs_create_file,
\* which finds it again; a directory is not opened.  The first free slot is taken.
sys_open(fd, path, creat, append) ==
  /\ boot = <<>> /\ fd = Min({g \in Fds : files[g] = NoFile} \cup {Max(Fds) + 1})
  /\ LET r == vfs_resolve(path)
         file == r.fs = "tree" /\ tree[r.node].type = "file" IN
     \E mem \in IF creat /\ ~file THEN 0 .. 2 ELSE {0} :
     LET s == IF creat /\ ~file THEN vfs_create_file(path, mem)
              ELSE [tree |-> tree, node |-> r.node]
         fs == IF s.node = 0 THEN "none" ELSE IF creat THEN "tree" ELSE r.fs
         opens == fs = "proc" \/ (fs = "tree" /\ s.tree[s.node].type # "dir") IN
     /\ Len(s.tree) <= MaxNodes
     /\ pool' = r.pool /\ tree' = s.tree
     /\ files' = IF ~opens THEN files
                 ELSE [files EXCEPT ![fd] = [fs |-> fs, node |-> s.node,
                         pos |-> IF append /\ fs = "tree" THEN Len(s.tree[s.node].data) ELSE 0]]
     /\ opened' = IF opens THEN [opened EXCEPT ![fd] = path] ELSE opened
  /\ UNCHANGED <<tasks, boot>>

sys_close(fd) ==
  /\ files[fd] # NoFile
  /\ files' = [files EXCEPT ![fd] = NoFile] /\ opened' = [opened EXCEPT ![fd] = <<>>]
  /\ UNCHANGED <<pool, tasks, tree, boot>>

RegularFile(fd) == files[fd].fs = "tree" /\ tree[files[fd].node].type = "file"

\* vfs_read gives at most what lies behind the position.
sys_read(fd, n) ==
  /\ RegularFile(fd)
  /\ LET left == Len(tree[files[fd].node].data) - files[fd].pos IN
     left > 0 /\ files' = [files EXCEPT ![fd].pos = @ + Min({n, left})]
  /\ UNCHANGED <<pool, tasks, tree, boot, opened>>

\* krealloc, and the zeros between the old end and the write.
Grown(data, off, end) ==
  [k \in 1 .. end |-> IF k <= Len(data) THEN data[k] ELSE IF k <= off THEN "zero" ELSE "junk"]

vfs_write(data, off, n) ==
  LET grown == IF off + n > Len(data) THEN Grown(data, off, off + n) ELSE data
  IN [k \in DOMAIN grown |-> IF k > off /\ k <= off + n THEN "new" ELSE grown[k]]

\* Fault: the position moves although the file could not grow.
sys_writeAdvances(fd, n, mem) ==
  /\ RegularFile(fd) /\ files[fd].pos + n <= MaxFile
  /\ LET i == files[fd].node
         fits == mem > 0 \/ files[fd].pos + n <= Len(tree[i].data) IN
     /\ tree' = IF fits THEN [tree EXCEPT ![i].data = vfs_write(@, files[fd].pos, n)] ELSE tree
     /\ files' = [files EXCEPT ![fd].pos = @ + n]
  /\ UNCHANGED <<pool, tasks, boot, opened>>

\* Without memory to grow, vfs_write changes nothing and the position stays.
sys_write(fd, n, mem) ==
  /\ RegularFile(fd) /\ files[fd].pos + n <= MaxFile
  /\ LET i == files[fd].node IN
     /\ mem > 0 \/ files[fd].pos + n <= Len(tree[i].data)
     /\ tree' = [tree EXCEPT ![i].data = vfs_write(@, files[fd].pos, n)]
     /\ files' = [files EXCEPT ![fd].pos = @ + n]
  /\ UNCHANGED <<pool, tasks, boot, opened>>

TaskStarts(p) ==
  boot = <<>> /\ p \notin tasks /\ tasks' = tasks \cup {p} /\ UNCHANGED <<pool, tree, boot, files, opened>>
TaskReaped(p) == p \in tasks /\ tasks' = tasks \ {p} /\ UNCHANGED <<pool, tree, boot, files, opened>>

vfs_init ==
  /\ tree = <<Node("/", "dir", 0)>> /\ pool = <<>> /\ tasks = {}
  /\ boot = Plan
  /\ files = [fd \in Fds |-> NoFile] /\ opened = [fd \in Fds |-> <<>>]
VfsInit == vfs_init

VfsNext ==
  \/ \E mem \in 0 .. 4 : vfs_load_initrd(mem) \/ vfs_mount_dev(mem) \/ vfs_mount_procfs(mem)
  \/ \E fd \in Fds :
       \/ \E path \in Paths \ NewPaths : sys_open(fd, path, FALSE, FALSE)
       \/ \E path \in NewPaths, append \in BOOLEAN : sys_open(fd, path, TRUE, append)
       \/ sys_close(fd)
       \/ \E n \in 1 .. MaxFile : sys_read(fd, n) \/ \E mem \in 0 .. 1 : sys_write(fd, n, mem)
  \/ \E p \in Pids : TaskStarts(p) \/ TaskReaped(p)

VfsSpec == VfsInit /\ [][VfsNext]_vfsVars

VfsTypeOK ==
  /\ \A i \in DOMAIN tree : /\ tree[i].type \in {"dir", "file", "chardev", "procfs"}
                            /\ tree[i].parent \in 0 .. i - 1
                            /\ \A k \in DOMAIN tree[i].data : tree[i].data[k] \in Data
  /\ Len(pool) <= PROCFS_POOL /\ tasks \subseteq Pids
  /\ \A i \in DOMAIN pool : pool[i].pid \in Pids \cup {NoPid} /\ pool[i].kind \in Kinds
  /\ \A fd \in Fds : files[fd].fs \in {"none", "tree", "proc"}

\* The path of a node: those of its ancestors are older.
PathOf[i \in DOMAIN tree] ==
  IF i = Root THEN <<>> ELSE Append(PathOf[tree[i].parent], tree[i].name)

\* Every node that was ever added is the one its own path leads to: neither a
\* creation with missing directories, nor one that fails half-way for want of
\* memory, nor a mount hides a file under a second node of the same name.
PathsFindNodes ==
  \A i \in DOMAIN tree : LET r == vfs_resolve(PathOf[i]) IN r.fs = "tree" /\ r.node = i

\* Every byte of a file came from the initrd or from a task's write: a file has
\* neither holes nor heap bytes nobody wrote, however descriptors with their own
\* positions extend it and although growing it may fail.  (There is no seek, so
\* the zero-fill of vfs_write is never needed.)
FilesDense ==
  /\ \A i \in DOMAIN tree : \A k \in DOMAIN tree[i].data : tree[i].data[k] \in {"old", "new"}
  /\ \A fd \in Fds : RegularFile(fd) => files[fd].pos <= Len(tree[files[fd].node].data)

\* An open file of /proc goes on meaning the process and the kind it was
\* opened for, whatever is looked up meanwhile and although the node of a
\* process is turned from its status into its cmdline: a read gives that or,
\* once the process is gone, nothing.
ProcFilesStable ==
  \A fd \in Fds : files[fd].fs = "proc" =>
    LET names == {opened[fd][k] : k \in DOMAIN opened[fd]}
        kind == IF "cmdline" \in names THEN "cmdline" ELSE "status" IN
    IF names \cap Pids = {} THEN procfs_read(files[fd].node) = <<opened[fd][2], NoPid>>
    ELSE \E pid \in names \cap Pids : procfs_read(files[fd].node) \in {<<>>, <<kind, pid>>}
=============================================================================
