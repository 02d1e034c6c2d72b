-------------------------------- MODULE Vfs --------------------------------
(***************************************************************************)
(* The virtual filesystem: the tree of mount points, the resolution of a   *)
(* path, reference counts, the device filesystem's slots, the proc         *)
(* filesystem, and mounting a disk (fs/vfs.c, fs/mount.c, fs/devfs.c,      *)
(* fs/procfs.c, with the lookups of fs/sorfs.c and fs/ext2.c).             *)
(*                                                                         *)
(* A path is the sequence of tokens strsep returns after the leading       *)
(* slash: "/a//b" is <<"a", "", "b">>, "/" is <<"">>; Relative stands for  *)
(* every path without a leading slash. A node is a tuple <<kind, number>>: *)
(* "dev" (a driver's own node), "slot" (devfs's copy of it), "devfs",      *)
(* "proc" (0 is the root), "fs" (the root that one call of mount made) and *)
(* "file" (what a finddir has allocated).                                  *)
(***************************************************************************)
EXTENDS Integers, Sequences, SequencesExt, FiniteSetsExt, TLC

CONSTANTS
  Devs,          \* the drivers' nodes
  DevName,       \* the name of each, not necessarily unique
  DiskType,      \* what mount finds on each: "ext2", "sorfs" or "none"
  Disk0,         \* what is on each at first: path -> "dir" or "file"
  Paths,         \* paths the callers of file_open use
  DevPaths,      \* paths given to mount as the device
  MountPaths,    \* paths that are mounted on and unmounted
  ModPaths,      \* paths that are created and unlinked
  MaxDevices,    \* MAX_DEVICES of devfs.h
  MaxMounts, MaxFiles, MaxUsers   \* bounds: disk mounts, allocated nodes, opens of one node

ASSUME VfsAssumption ==
  /\ Devs \subseteq Nat /\ MaxDevices \in Nat /\ MaxMounts \in Nat /\ MaxFiles \in Nat /\ MaxUsers \in Nat
  /\ DiskType \in [Devs -> {"ext2", "sorfs", "none"}]

\* A path has a token. The directories above a file are on its disk; SORFS has only the root.
ASSUME PathAssumption ==
  /\ Paths \cup DevPaths \cup MountPaths \cup ModPaths \subseteq Seq(STRING) \ {<<>>}
  /\ DevName \in [Devs -> STRING]
  /\ DOMAIN Disk0 = Devs
  /\ \A d \in Devs : \A q \in DOMAIN Disk0[d] :
       /\ q \in Seq(STRING) \ {<<>>} /\ \A i \in 1..Len(q) : SubSeq(q, 1, i) \in DOMAIN Disk0[d]
       /\ DiskType[d] = "sorfs" => Len(q) = 1

VARIABLES
  tree,       \* mount point -> the node mounted there, or Null
  vfs_root,
  ref,        \* node -> ref_count
  nodes,      \* the slots of devfs: [name, dev]
  disk,       \* device -> the paths on it, and what each is
  mounted,    \* the devices mounted, in the order of the calls of mount
  file,       \* allocated nodes: [at |-> node of a filesystem root, path |-> ...]
  users,      \* history: counted node -> number of opens not yet closed
  closed,     \* the node whose close callback ran in the last step, or Null
  last,       \* the last answer of file_open, while the tree has not changed since
  odd,        \* the root entry was mounted or unmounted by a path like "//"
  status      \* "ok", or "wild" once memory is written or called through a bad pointer

vvars == <<tree, vfs_root, ref, nodes, disk, mounted, file, users, closed, last, odd, status>>

Null     == <<"null", 0>>
Wild     == <<"wild", 0>>
Relative == <<"relative">>
NoName   == ""         \* what strsep finds between two slashes, or after the last
Root     == <<NoName>>
Devfs    == <<"devfs", 0>>
Proc(i)  == <<"proc", i>>
ProcNames == <<"kernel", "pci", "registers">>
Cleared  == [name |-> NoName, dev |-> 0]
NoAnswer == [res |-> Null, path |-> <<>>, start |-> Null, below |-> <<>>]

Nodes == ({"dev"} \X Devs) \cup ({"slot"} \X (1..MaxDevices)) \cup {Devfs}
         \cup ({"proc"} \X (0..3)) \cup ({"fs"} \X (1..MaxMounts)) \cup ({"file"} \X (1..MaxFiles))

\* the nodes that no mount pins
Counted == {n \in Nodes : n[1] \in {"slot", "file"}}
OneMore(n, k) == IF n \in Counted THEN [users EXCEPT ![n] = @ + k] ELSE users

Boot == [q \in {<<>>, <<"proc">>, <<"dev">>} \cup {<<"proc", ProcNames[i]>> : i \in 1..3} |->
           CASE q = <<>>       -> Null
             [] q = <<"proc">> -> Proc(0)
             [] q = <<"dev">>  -> Devfs
             [] OTHER          -> Proc(CHOOSE i \in 1..3 : q[2] = ProcNames[i])]

VfsInit ==
  /\ tree = Boot                     \* init_vfs, init_procfs, init_devfs and procfs_mount
  /\ vfs_root = Null
  /\ ref = [n \in Nodes |-> IF n = Devfs \/ n[1] = "proc" THEN -1 ELSE 0]
  /\ nodes = <<>>
  /\ disk = Disk0
  /\ mounted = <<>>
  /\ file = <<>>
  /\ users = [n \in Counted |-> 0]
  /\ closed = Null
  /\ last = NoAnswer
  /\ odd = FALSE
  /\ status = "ok"

-----------------------------------------------------------------------------
(* The mount tree. A token stops the descent when it is empty; VFS_mount and VFS_unmount
   create the entries that are missing, get_mountpoint stops above them. *)

Slashes(p) == {i \in 1..Len(p) : p[i] = NoName}
Point(p) == IF Slashes(p) = {} THEN p ELSE SubSeq(p, 1, Min(Slashes(p)) - 1)
AllPrefixes(p) == {SubSeq(p, 1, i) : i \in 0..Len(p)}
WithEntries(p) == [q \in DOMAIN tree \cup AllPrefixes(p) |-> IF q \in DOMAIN tree THEN tree[q] ELSE Null]

\* mutant of Descent: the token that was not found is lost
DescentDropsToken(p) ==
  LET q == CHOOSE q \in AllPrefixes(Point(p)) \cap DOMAIN tree :
             \A r \in AllPrefixes(Point(p)) \cap DOMAIN tree : Len(r) <= Len(q)
  IN  [at |-> q, rest |-> SubSeq(p, Len(q) + 2, Len(p))]

\* get_mountpoint_recur: the entry the descent ends at and the tokens left of the path
Descent(p) ==
  LET stop[i \in 1..Len(p) + 1] ==
        IF i > Len(p) \/ p[i] = NoName \/ SubSeq(p, 1, i) \notin DOMAIN tree THEN i ELSE stop[i + 1]
      i == stop[1]
  IN  [at   |-> SubSeq(p, 1, i - 1),
       rest |-> IF i <= Len(p) /\ p[i] = NoName THEN SubSeq(p, i + 1, Len(p)) ELSE SubSeq(p, i, Len(p))]

\* VFS_mount: the node's reference count is pinned before the mount point is looked at.
Pinned(n) == [ref EXCEPT ![n] = -1]
Mounted(p, n) ==
  LET t == WithEntries(Point(p)) IN
  /\ tree' = IF t[Point(p)] = Null THEN [t EXCEPT ![Point(p)] = n] ELSE t
  /\ vfs_root' = IF p = Root /\ tree[<<>>] = Null THEN n ELSE vfs_root
  /\ odd' = (odd \/ (Point(p) = <<>> /\ p # Root))

VFS_unmount(p) ==
  /\ status = "ok"
  /\ tree' = [WithEntries(Point(p)) EXCEPT ![Point(p)] = Null]
  /\ odd' = (odd \/ (Point(p) = <<>> /\ p # Root))
  /\ last' = NoAnswer /\ closed' = Null
  /\ UNCHANGED <<vfs_root, ref, nodes, disk, mounted, file, users, status>>

-----------------------------------------------------------------------------
(* Looking a name up. A place is a node and, below a filesystem's root, a path;
   finddir's answer is a set: some callbacks end without a return statement. *)

Place(n, q) == [n |-> n, q |-> q]
DeviceOf(n) == mounted[n[2]]
SlotsNamed(name) == {i \in 1..Len(nodes) : nodes[i].name = name}

\* devfs_finddir returns an uninitialised pointer for a name it does not have.
devfs_finddir(name) ==
  {IF SlotsNamed(name) = {} THEN Place(Wild, <<>>) ELSE Place(<<"slot", Min(SlotsNamed(name))>>, <<>>)}

procfs_finddir(name) ==
  {IF name \in Range(ProcNames) THEN Place(Proc(0), <<name>>) ELSE Place(Null, <<>>)}

EXT2_finddir(pl, name) ==
  {IF Append(pl.q, name) \in DOMAIN disk[DeviceOf(pl.n)] THEN Place(pl.n, Append(pl.q, name)) ELSE Place(Null, <<>>)}

\* sorfs_root: one variable for all mounts, the root that the last init_sorfs made
IsSorfs(n) == n[1] = "fs" /\ DiskType[DeviceOf(n)] = "sorfs"
SorfsRoot == <<"fs", Max({i \in 1..Len(mounted) : DiskType[mounted[i]] = "sorfs"})>>

\* sorfs_finddir looks in sorfs_root only, and returns nothing when the name is not there or
\* the node is another one; built without optimisation, its caller gets what is left in eax:
\* the number of entries looked at, or sorfs_root, which was compared. A node it has made is
\* not cleared: whether its flags make it a directory, and what a file's finddir is, is left
\* to the memory it was given.
sorfs_finddir(pl, name) ==
  CASE pl = Place(SorfsRoot, <<>>) ->
         LET entries == DOMAIN disk[DeviceOf(SorfsRoot)] IN
         {IF <<name>> \in entries THEN Place(SorfsRoot, <<name>>)
          ELSE Place(IF entries = {} THEN Null ELSE Wild, <<>>)}
    [] pl # Place(SorfsRoot, <<>>) /\ pl.q = <<>> -> {Place(SorfsRoot, <<>>)}
    [] pl.q # <<>> ->
         {Place(Null, <<>>), Place(IF disk[DeviceOf(pl.n)][pl.q] = "dir" THEN SorfsRoot ELSE Wild, <<>>)}

VFS_finddir(pl, name) ==
  CASE pl.n \in {Null, Wild} -> {pl}
    [] pl.n = Devfs -> devfs_finddir(name)
    [] pl.n = Proc(0) /\ pl.q = <<>> -> procfs_finddir(name)
    [] pl.n = Proc(0) /\ pl.q = <<"pci">> -> {Place(Null, <<>>), Place(Wild, <<>>)}
    [] pl.n[1] = "fs" /\ DiskType[DeviceOf(pl.n)] = "ext2" -> EXT2_finddir(pl, name)
    [] IsSorfs(pl.n) -> sorfs_finddir(pl, name)
    [] OTHER -> {Place(Null, <<>>)}

\* file_open, up to VFS_open: the places the path may lead to. A slash at the end makes
\* get_mountpoint write a zero through a pointer it finds on the stack.
Resolve(p) ==
  LET d == Descent(p)
      along[i \in 0..Len(d.rest)] ==
        IF i = 0 THEN {Place(tree[d.at], <<>>)}
        ELSE UNION {VFS_finddir(pl, d.rest[i]) : pl \in along[i - 1]}
  IN  IF p = Relative THEN {Place(Null, <<>>)}
      ELSE IF p = Root THEN {Place(vfs_root, <<>>)}
      ELSE IF Last(p) = NoName THEN {Place(Wild, <<>>)}
      ELSE along[Len(d.rest)]

\* A place below a filesystem's root is a node that finddir has just allocated.
Fresh(pl) == pl.q # <<>>
NodeOf(pl) == IF Fresh(pl) THEN <<"file", Len(file) + 1>> ELSE pl.n
HasRoom(pl) == Fresh(pl) => Len(file) < MaxFiles
FileAfter(pl) == IF Fresh(pl) THEN Append(file, [at |-> pl.n, path |-> pl.q]) ELSE file

\* The count a fresh node starts with: EXT2 clears its nodes, SORFS and procfs do not.
FirstCounts(pl) == IF pl.n[1] = "fs" /\ DiskType[DeviceOf(pl.n)] = "ext2" THEN {0} ELSE {0, 3}

\* VFS_open, and VFS_close by the same caller before anything else happens
CountSecond(r) == IF r > 0 THEN r + 1 ELSE r   \* mutant of Count
Count(r) == IF r >= 0 THEN r + 1 ELSE r

-----------------------------------------------------------------------------
(* The operations. *)

\* The nodes made in memory that was cleared, in which a callback that is not set is NULL. In
\* the root of procfs, that of devfs, the serial port and what the lookups of SORFS and procfs
\* make, it is what was there before.
Blank(pl) == \/ pl.n[1] = "fs" /\ (pl.q = <<>> \/ DiskType[DeviceOf(pl.n)] = "ext2")
             \/ pl.n[1] = "proc" /\ pl.n # Proc(0)

\* What may come of the listdir of a node. devfs_listdir writes one entry too many, which the
\* heap's rounding covers but for a multiple of four devices; procfs_list returns NULL for a
\* node of its own that is mounted, and the list at address 0 is printed; sorfs_listdir
\* returns nothing for another root than the last, and sorfs_root is printed as the list.
Listed(pl) ==
  CASE pl.n = Proc(0) /\ pl.q = <<>> -> {"ok"}
    [] pl.n = Devfs -> IF Len(nodes) % 4 = 0 THEN {"ok", "wild"} ELSE {"ok"}
    [] IsSorfs(pl.n) /\ pl.q = <<>> -> {IF pl.n = SorfsRoot THEN "ok" ELSE "wild"}
    [] pl.n[1] = "fs" /\ DiskType[DeviceOf(pl.n)] = "ext2" -> {"ok"}
    [] OTHER -> {"ok", "wild"}

\* VFS_db_listdir and VFS_listdir open the directory and never close it: they are file_open
\* by a user that stays, and a call of the node's listdir.
Opens(p, listing) ==
  /\ status = "ok"
  /\ \E pl \in Resolve(p) :
       LET n == NodeOf(pl) IN
       \/ /\ pl.n = Null
          /\ last' = [NoAnswer EXCEPT !.path = p] /\ closed' = Null
          /\ UNCHANGED <<ref, users, file, status>>
       \/ /\ pl.n = Wild \/ (pl.n[1] = "slot" /\ nodes[pl.n[2]] = Cleared)
          /\ status' = "wild" /\ last' = NoAnswer /\ closed' = Null
          /\ UNCHANGED <<ref, users, file>>
       \/ /\ p = Root /\ pl.n # Null            \* vfs_root, not opened and not counted
          /\ last' = [res |-> n, path |-> p, start |-> n, below |-> <<>>] /\ closed' = Null
          /\ status' \in IF listing THEN Listed(pl) ELSE {"ok"}
          /\ UNCHANGED <<ref, users, file>>
       \/ /\ p # Root /\ pl.n \notin {Null, Wild} /\ HasRoom(pl)
          /\ n \in Counted => users[n] < MaxUsers
          /\ pl.n[1] = "slot" => nodes[pl.n[2]] # Cleared
          /\ \E r \in IF Fresh(pl) THEN FirstCounts(pl) ELSE {ref[n]} : ref' = [ref EXCEPT ![n] = Count(r)]
          /\ users' = OneMore(n, 1)
          /\ file' = FileAfter(pl)
          /\ last' = [res |-> n, path |-> p, start |-> tree[Descent(p).at], below |-> pl.q]
          /\ closed' = Null /\ status' \in IF listing THEN Listed(pl) ELSE {"ok"}
  /\ UNCHANGED <<tree, vfs_root, nodes, disk, mounted, odd>>
file_open(p)   == Opens(p, FALSE)
VFS_listdir(p) == Opens(p, TRUE)

VFS_close(n) ==
  /\ status = "ok"
  /\ IF n \in Counted THEN users[n] > 0 ELSE ref[n] = -1
  /\ users' = OneMore(n, -1)
  /\ IF n = vfs_root \/ ref[n] = -1
     THEN closed' = Null /\ UNCHANGED ref
     ELSE /\ ref' = [ref EXCEPT ![n] = @ - 1]
          /\ closed' = IF ref[n] = 1 THEN n ELSE Null
  /\ last' = NoAnswer
  /\ UNCHANGED <<tree, vfs_root, nodes, disk, mounted, file, odd, status>>

\* VFS_create, VFS_mkdir and VFS_unlink split the path at its last slash, open the parent,
\* call it and close it again. Only VFS_create tests that there is a parent. What is on the
\* disk changes if the parent is an EXT2 directory.
Parent(p) == IF Len(p) = 1 THEN Root ELSE Front(p)
InExt2Dir(pl) ==
  /\ pl.n[1] = "fs" /\ DiskType[DeviceOf(pl.n)] = "ext2"
  /\ pl.q # <<>> => disk[DeviceOf(pl.n)][pl.q] = "dir"
Modify(p, testsParent, devfsMayHave, Change(_, _)) ==
  /\ status = "ok" /\ Last(p) # NoName
  /\ \E pl \in Resolve(Parent(p)) :
       \/ /\ pl.n = Null
          /\ status' = IF testsParent THEN "ok" ELSE "wild"
          /\ UNCHANGED <<disk, nodes>>
       \/ pl.n = Wild /\ status' = "wild" /\ UNCHANGED <<disk, nodes>>
       \/ /\ InExt2Dir(pl)
          /\ disk' = [disk EXCEPT ![DeviceOf(pl.n)] = Change(@, Append(pl.q, Last(p)))]
          /\ UNCHANGED <<nodes, status>>
       \/ /\ pl.n = Devfs        \* its mkdir and create fields are never set
          /\ devfsMayHave /\ status' \in {"ok", "wild"}
          /\ UNCHANGED <<disk, nodes>>
       \/ /\ pl.n = Devfs /\ ~devfsMayHave        \* devfs_unlink, devfs_remove
          /\ nodes' = IF SlotsNamed(Last(p)) = {} THEN nodes
                      ELSE [nodes EXCEPT ![Min(SlotsNamed(Last(p)))] = Cleared]
          /\ UNCHANGED <<disk, status>>
       \/ /\ pl.n \notin {Null, Wild, Devfs} /\ ~InExt2Dir(pl)
          /\ status' \in IF Blank(pl) THEN {"ok"} ELSE {"ok", "wild"}
          /\ UNCHANGED <<disk, nodes>>
  /\ ref' = [n \in Nodes |->
               IF n[1] = "slot" /\ n[2] <= Len(nodes) /\ nodes'[n[2]] # nodes[n[2]] THEN 0 ELSE ref[n]]
  /\ last' = NoAnswer /\ closed' = Null
  /\ UNCHANGED <<tree, vfs_root, mounted, file, users, odd>>

With(D, q, kind) == [x \in DOMAIN D \cup {q} |-> IF x \in DOMAIN D THEN D[x] ELSE kind]
AddFile(D, q) == With(D, q, "file")
AddDir(D, q)  == With(D, q, "dir")
Drop(D, q)    == [x \in {y \in DOMAIN D : ~IsPrefix(q, y)} |-> D[x]]
VFS_create(p) == Modify(p, TRUE, TRUE, AddFile)
VFS_mkdir(p)  == Modify(p, FALSE, TRUE, AddDir)
VFS_unlink(p) == Modify(p, FALSE, FALSE, Drop)

devfs_add(d) ==
  /\ status = "ok" /\ Len(nodes) < MaxDevices
  /\ nodes' = Append(nodes, [name |-> DevName[d], dev |-> d])
  /\ ref' = [Pinned(<<"dev", d>>) EXCEPT ![<<"slot", Len(nodes) + 1>>] = ref[<<"dev", d>>]]
  /\ Mounted(<<"dev", DevName[d]>>, <<"dev", d>>)
  /\ last' = NoAnswer /\ closed' = Null
  /\ UNCHANGED <<disk, mounted, file, users, status>>

\* the init file's "mount devfs"
devfs_mount(p) ==
  /\ status = "ok"
  /\ Mounted(p, Devfs) /\ ref' = Pinned(Devfs)
  /\ last' = NoAnswer /\ closed' = Null
  /\ UNCHANGED <<nodes, disk, mounted, file, users, status>>

\* mount: find_fs probes for EXT2, then SORFS, each with an open and a close of the device
\* (isExt2 forgets the close when it finds none), and the one found opens it for good.
TypeOn(pl) ==
  IF pl.n[1] = "dev" THEN DiskType[pl.n[2]]
  ELSE IF pl.n[1] = "slot" THEN DiskType[nodes[pl.n[2]].dev] ELSE "none"
DeviceAt(pl) == IF pl.n[1] = "slot" THEN nodes[pl.n[2]].dev ELSE pl.n[2]
KeptOpen(type) == CASE type = "ext2" -> 1 [] type = "sorfs" -> 2 [] OTHER -> 1

\* EXT2_init, init_sorfs: the root that is made is mounted on p, and pinned
MountRoot(device, p, counts) ==
  LET root == <<"fs", Len(mounted) + 1>> IN
  /\ Len(mounted) < MaxMounts
  /\ mounted' = Append(mounted, device)
  /\ ref' = [counts EXCEPT ![root] = -1]
  /\ Mounted(p, root)

mount(devpath, p) ==
  /\ status = "ok"
  /\ last' = NoAnswer /\ closed' = Null
  /\ \E pl \in Resolve(devpath) :
       \/ /\ pl.n = Null          \* the probes read nothing and find nothing
          /\ UNCHANGED <<tree, vfs_root, odd, ref, mounted, users, status>>
       \/ /\ pl.n = Wild \/ (pl.n[1] = "slot" /\ nodes[pl.n[2]] = Cleared)
          /\ status' = "wild"
          /\ UNCHANGED <<tree, vfs_root, odd, ref, mounted, users>>
       \/ /\ pl.n[1] \in {"dev", "slot"} /\ ~(pl.n[1] = "slot" /\ nodes[pl.n[2]] = Cleared)
          /\ LET opens   == KeptOpen(TypeOn(pl))
                 counted == IF ref[pl.n] >= 0 THEN [ref EXCEPT ![pl.n] = @ + opens] ELSE ref
             IN  /\ pl.n \in Counted => users[pl.n] < MaxUsers
                 /\ users' = OneMore(pl.n, opens)
                 /\ IF TypeOn(pl) = "none"
                    THEN ref' = counted /\ UNCHANGED <<tree, vfs_root, odd, mounted>>
                    ELSE MountRoot(DeviceAt(pl), p, counted)
          /\ UNCHANGED status
  /\ UNCHANGED <<nodes, disk, file>>

VfsNext ==
  \/ \E p \in Paths : file_open(p) \/ VFS_listdir(p)
  \/ \E n \in Nodes : VFS_close(n)
  \/ \E p \in ModPaths : VFS_create(p) \/ VFS_mkdir(p) \/ VFS_unlink(p)
  \/ \E d \in Devs : devfs_add(d)
  \/ \E p \in MountPaths : VFS_unmount(p) \/ devfs_mount(p)
  \/ \E d \in DevPaths, p \in MountPaths : mount(d, p)

VfsSpec == VfsInit /\ [][VfsNext]_vvars

-----------------------------------------------------------------------------
(* Properties. *)

(* A path is answered by the node mounted at the longest entry of the tree above it (up to
   an empty token), with the file that the rest of the path names there; it is refused only
   when that entry is empty or the file does not exist (file_open, get_mountpoint_recur).
   SORFS keeps that promise for what is in the root mounted last. A path that goes on below an
   earlier SORFS root, or below an entry of the last one, strays: it is answered with the last
   root itself, whatever the name was, or with the entry of it that the last token names, and
   is refused only below an entry or from a third token on (sorfs_finddir).
   The entry is defined here without the descent that the code makes. While a file system is
   mounted on "/", the node that file_open("/") answers with is the one that every longer path
   starts from (vfs_root and the tree's root entry). *)
NearestEntry(p) ==
  CHOOSE q \in DOMAIN tree : /\ IsPrefix(q, Point(p))
                             /\ \A r \in DOMAIN tree : IsPrefix(r, Point(p)) => Len(r) <= Len(q)
Rest(p) == LET q == NearestEntry(p)
           IN  SubSeq(p, Len(q) + (IF q = Point(p) THEN 2 ELSE 1), Len(p))
Strays(e, rest) ==
  IsSorfs(e) /\ rest # <<>> /\ (e # SorfsRoot \/ (Len(rest) > 1 /\ <<rest[1]>> \in DOMAIN disk[DeviceOf(e)]))
StrayAnswer(rest) ==
  \/ last.res = Null /\ Len(rest) > 1
  \/ last.res = SorfsRoot
  \/ /\ Len(rest) > 1 /\ last.below = <<Last(rest)>> /\ last.below \in DOMAIN disk[DeviceOf(SorfsRoot)]
     /\ file[last.res[2]] = [at |-> SorfsRoot, path |-> last.below]
AnswerRight(p) ==
  LET e == tree[NearestEntry(p)] IN
  IF Strays(e, Rest(p)) THEN StrayAnswer(Rest(p))
  ELSE IF last.res = Null
  THEN e # Null => /\ Rest(p) # <<>>
                   /\ e[1] = "fs" => ~(Rest(p) \in DOMAIN disk[DeviceOf(e)])
  ELSE /\ last.start = e
       /\ IF Rest(p) = <<>> THEN last.res = e
          ELSE \/ last.below = Rest(p) /\ file[last.res[2]] = [at |-> e, path |-> Rest(p)]
               \/ e = Devfs /\ last.res[1] = "slot" /\ <<nodes[last.res[2]].name>> = Rest(p)
RootAgrees == tree[<<>>] \in {Null, vfs_root}
NearestMountAnswers ==
  /\ (last.path # <<>> /\ last.path \notin {Root, Relative}) => AnswerRight(last.path)
  /\ ~odd => RootAgrees

(* A node that was never pinned by a mount counts exactly the opens not yet closed; SORFS and
   procfs nodes start from what was in memory, and clearing a device's slot clears its count
   under those who have it open. A node's close callback runs only when nobody has it open any
   more (VFS_open, VFS_close, VFS_mount, devfs_remove, mount). *)
Uncleared(n) == ~(n[1] = "slot" /\ n[2] <= Len(nodes) /\ nodes[n[2]] = Cleared)
Zeroed(n)    == n[1] = "file" /\ n[2] <= Len(file) =>
                  file[n[2]].at[1] = "fs" /\ DiskType[DeviceOf(file[n[2]].at)] = "ext2"
CountsUsers ==
  /\ \A n \in Counted : ref[n] = -1 \/ ~Uncleared(n) \/ (IF Zeroed(n) THEN ref[n] = users[n] ELSE ref[n] >= users[n])
  /\ closed # Null => users[closed] = 0
=============================================================================
