-------------------------------- MODULE Ext2 --------------------------------
(***************************************************************************)
(* EXT2's directories, inodes and allocation on disk (fs/ext2.c), with     *)
(* every disk write a step of its own and power losses between them.       *)
(*                                                                         *)
(* One block group; a directory is one block, in units of four bytes. An   *)
(* operation reads the disk, which nobody else changes while it runs, so   *)
(* it is the sequence of disk images that its writes produce: `todo` holds *)
(* the images to come. Free blocks are zero, as mkfs leaves them. What     *)
(* files contain is the subject of Ext2File.                               *)
(***************************************************************************)
EXTENDS Integers, Sequences, FiniteSetsExt, SequencesExt, TLC

CONSTANTS
  BlockUnits,     \* block_size / 4
  NumBlocks,      \* bits of the block bitmap; bit b stands for block b + 1
  NumInodes,      \* bits of the inode bitmap; bit i stands for inode i + 1
  Names, NameLen, \* names of files and their lengths
  Disk0,          \* the disk that mkfs made
  MaxOps, MaxCrashes   \* bounds

ASSUME Ext2Assumption ==
  /\ BlockUnits \in Nat /\ NumBlocks \in Nat /\ NumInodes \in Nat
  /\ NameLen \in [Names -> Nat] /\ MaxOps \in Nat /\ MaxCrashes \in Nat

VARIABLES
  disk,     \* [bbm, ibm: used bits; fb, fi: the descriptor's free counts;
            \*  inode: number -> [type, links, block, by]; dir: block -> offset -> entry; boot]
  bgd,      \* fs->bgd, the descriptor in memory: [fb, fi]
  todo,     \* the disk images that the writes of the running operation produce
  ops, crashes,
  status    \* "ok", or "wild" once memory outside the buffers is read or written

vars == <<disk, bgd, todo, ops, crashes, status>>

ROOT_INODE_NUMBER == 2
NoBlock == -1
NoName  == "no name"
Blank   == [ino |-> 0, rec |-> 0, name |-> NoName]
LenOf(n) == IF n = NoName THEN 0 ELSE NameLen[n]

Init ==
  /\ disk = Disk0
  /\ bgd = [fb |-> Disk0.fb, fi |-> Disk0.fi]
  /\ todo = <<>> /\ ops = 0 /\ crashes = 0 /\ status = "ok"

-----------------------------------------------------------------------------
(* Directory entries. The lookup expects an entry to be as long as its name needs; the other
   three functions expect four bytes more when the length is a multiple of four. The entry
   whose length is not the expected one is taken for the last. *)

Rounded(n)  == (8 + LenOf(n) + 3) \div 4       \* EXT2_finddir
ExpectedShort(n) == (8 + LenOf(n)) \div 4      \* mutant of Expected
Expected(n) == (8 + LenOf(n)) \div 4 + 1       \* createEntry, removeEntry, listdir
At(b, o) == IF o \in DOMAIN b THEN b[o] ELSE Blank
Live(e, name) == e.ino # 0 /\ e.name = name

\* the offsets a scan visits, in order, given the length it expects of a name
Chain(b, Len4(_)) ==
  LET from[o \in 0..2 * BlockUnits] ==
        IF o >= BlockUnits THEN <<>>
        ELSE IF At(b, o).rec # Len4(At(b, o).name) THEN <<o>>
        ELSE <<o>> \o from[o + At(b, o).rec]
  IN  from[0]

EXT2_finddir(b, name) ==
  LET hits == {o \in Range(Chain(b, Rounded)) : Live(At(b, o), name)}
  IN  IF hits = {} THEN 0 ELSE At(b, Min(hits)).ino

EXT2_listdir(b) == {o \in Range(Chain(b, Expected)) : At(b, o).ino # 0}
NamedOnce(b) == \A o, q \in EXT2_listdir(b) : At(b, o).name = At(b, q).name => o = q

\* EXT2_createEntry: the new entry follows the last one, whose length is cut to what is
\* expected; it reaches to the end of the block. There is no test that it fits.
Last4(b) == Last(Chain(b, Expected))
Free4(b) == Last4(b) + Expected(At(b, Last4(b)).name)
IsLast(b) == At(b, Last4(b)).rec # Expected(At(b, Last4(b)).name)
Exists(b, name) ==
  \/ \E o \in EXT2_listdir(b) : At(b, o).name = name
  \/ IsLast(b) /\ Live(At(b, Free4(b)), name)
CreatesAgain(b, name) == IsLast(b) /\ Free4(b) < BlockUnits      \* mutant: a name that is there is not refused
Creates(b, name) == ~Exists(b, name) /\ IsLast(b) /\ Free4(b) < BlockUnits
Overruns(b, name) == Creates(b, name) /\ Free4(b) + Rounded(name) > BlockUnits
Fits(d, dirblock, name) == dirblock \in DOMAIN d.dir /\ ~Overruns(d.dir[dirblock], name)
WithEntry(b, name, ino) ==
  LET new  == Free4(b)
      prev == At(b, Last4(b))
      kept == {o \in DOMAIN b : o < new - 1 \/ o >= new + Rounded(name)}
  IN  [o \in {new, Last4(b)} \cup kept |->
         IF o = new THEN [ino |-> ino, rec |-> BlockUnits - new, name |-> name]
         ELSE IF o = Last4(b) THEN [prev EXCEPT !.rec = Expected(prev.name)] ELSE b[o]]

\* EXT2_removeEntry only clears the inode number.
EXT2_removeEntry(b, name) ==
  LET hits == {o \in EXT2_listdir(b) : At(b, o).name = name}
  IN  IF hits = {} THEN b ELSE [b EXCEPT ![Min(hits)].ino = 0]

-----------------------------------------------------------------------------
(* Allocation. The number returned is the bit's index, though inode and block numbers start
   at one. The bitmap is written before the descriptor. *)

ZeroBits(used, n) == {k \in 0..n - 1 : k \notin used}
CanAlloc(count, used, n) == count # 0 /\ ZeroBits(used, n) # {}

\* What mkfs leaves: no inode of the code's, every bit that is clear has its inode, the descriptor
\* counts the clear bits, and no directory lists a name twice.
ASSUME MkfsAssumption ==
  /\ DOMAIN Disk0 = {"bbm", "ibm", "fb", "fi", "inode", "dir", "boot"}
  /\ \A i \in DOMAIN Disk0.inode :
       DOMAIN Disk0.inode[i] = {"type", "links", "block", "by"} /\ Disk0.inode[i].by = "mkfs"
  /\ \A b \in DOMAIN Disk0.dir : \A o \in DOMAIN Disk0.dir[b] : DOMAIN Disk0.dir[b][o] = {"ino", "rec", "name"}
  /\ ZeroBits(Disk0.ibm, NumInodes) \subseteq DOMAIN Disk0.inode
  /\ Disk0.fb = Cardinality(ZeroBits(Disk0.bbm, NumBlocks))
  /\ Disk0.fi = Cardinality(ZeroBits(Disk0.ibm, NumInodes))
  /\ \A b \in DOMAIN Disk0.dir :
       /\ \A o \in DOMAIN Disk0.dir[b] : Disk0.dir[b][o].name \in Names \cup {NoName}
       /\ NamedOnce(Disk0.dir[b])
\* An entry of any name fits in a block.
ASSUME NamesAssumption == \A n \in Names \cup {NoName} : Expected(n) <= BlockUnits

alloc_inode(d, mem) ==
  LET k  == Min(ZeroBits(d.ibm, NumInodes))
      d1 == [d EXCEPT !.ibm = @ \cup {k}]
  IN  [num |-> k, mem |-> [mem EXCEPT !.fi = @ - 1], images |-> <<d1, [d1 EXCEPT !.fi = mem.fi - 1, !.fb = mem.fb]>>]

\* mutants of EXT2_alloc_block: a full disk yields its last block; the descriptor is written first
EXT2_alloc_blockLast(d, mem) ==
  IF ~CanAlloc(mem.fb, d.bbm, NumBlocks) THEN [num |-> NumBlocks - 1, mem |-> mem, images |-> <<d>>]
  ELSE LET k  == Min(ZeroBits(d.bbm, NumBlocks))
           d1 == [d EXCEPT !.bbm = @ \cup {k}]
       IN  [num |-> k, mem |-> [mem EXCEPT !.fb = @ - 1], images |-> <<d1, [d1 EXCEPT !.fb = mem.fb - 1, !.fi = mem.fi]>>]
EXT2_alloc_blockCountFirst(d, mem) ==
  IF ~CanAlloc(mem.fb, d.bbm, NumBlocks) THEN [num |-> NoBlock, mem |-> mem, images |-> <<d>>]
  ELSE LET k  == Min(ZeroBits(d.bbm, NumBlocks))
           d1 == [d EXCEPT !.fb = mem.fb - 1, !.fi = mem.fi]
       IN  [num |-> k, mem |-> [mem EXCEPT !.fb = @ - 1], images |-> <<d1, [d1 EXCEPT !.bbm = @ \cup {k}]>>]

\* Out of blocks: -1 is returned and used as the number.
EXT2_alloc_block(d, mem) ==
  IF ~CanAlloc(mem.fb, d.bbm, NumBlocks) THEN [num |-> NoBlock, mem |-> mem, images |-> <<d>>]
  ELSE LET k  == Min(ZeroBits(d.bbm, NumBlocks))
           d1 == [d EXCEPT !.bbm = @ \cup {k}]
       IN  [num |-> k, mem |-> [mem EXCEPT !.fb = @ - 1], images |-> <<d1, [d1 EXCEPT !.fb = mem.fb - 1, !.fi = mem.fi]>>]

\* createEntry's writes: the directory block, and eight zero bytes at the start of what it
\* takes for the next block of the directory. The directory has no second block, and number
\* zero in the inode is block zero of the disk.
EXT2_createEntry(d, dirblock, name, ino) ==
  IF (dirblock \notin DOMAIN d.dir) \/ ~Creates(d.dir[dirblock], name) THEN <<d>>
  ELSE LET d1 == [d EXCEPT !.dir[dirblock] = WithEntry(@, name, ino)]
       IN  <<d1, [d1 EXCEPT !.boot = "cleared"]>>

\* write_inode_metadata of the parent after its link count changed, and rewrite_bgd
LinkParent(d, mem, parent, change) ==
  LET d1 == [d EXCEPT !.inode[parent].links = (@ + change) % 65536]
  IN  <<d1, [d1 EXCEPT !.fb = mem.fb, !.fi = mem.fi]>>

MakeEntryFirst(type, parent, name) ==            \* mutant: the entry is written before the inode
  LET a  == alloc_inode(disk, bgd)
      b  == EXT2_alloc_block(Last(a.images), a.mem)
      e  == EXT2_createEntry(Last(b.images), Last(b.images).inode[parent].block, name, a.num)
      d1 == [Last(e) EXCEPT !.inode[a.num] = [type |-> type, links |-> 2, block |-> b.num, by |-> "code"]]
      p  == LinkParent(d1, b.mem, parent, 1)
  IN  [images |-> a.images \o b.images \o e \o <<d1, d1>> \o p, mem |-> b.mem, made |-> d1]
\* EXT2_mkdir and EXT2_mkfile, which differ in the type they give the inode
Make(type, parent, name) ==
  LET a  == alloc_inode(disk, bgd)
      b  == EXT2_alloc_block(Last(a.images), a.mem)
      d1 == [Last(b.images) EXCEPT !.inode[a.num] = [type |-> type, links |-> 2, block |-> b.num, by |-> "code"]]
      \* alloc_IBlock and then the function itself write the same inode
      e  == EXT2_createEntry(d1, d1.inode[parent].block, name, a.num)
      p  == LinkParent(Last(e), b.mem, parent, 1)
  IN  [images |-> a.images \o b.images \o <<d1, d1>> \o e \o p, mem |-> b.mem, made |-> d1]

-----------------------------------------------------------------------------
(* Operations on the nodes that VFS_finddir finds from the root. *)

BlockOf(d, ino) == d.inode[ino].block
IsDir(d, ino) == d.inode[ino].type = "dir" /\ BlockOf(d, ino) \in DOMAIN d.dir
Subdirs(d) == {EXT2_finddir(d.dir[BlockOf(d, ROOT_INODE_NUMBER)], n) : n \in Names}
Dirs == {i \in {ROOT_INODE_NUMBER} \cup (Subdirs(disk) \ {0}) : IsDir(disk, i)}

EXT2_make(type, parent, name) ==
  /\ status = "ok" /\ todo = <<>> /\ ops < MaxOps
  /\ ops' = ops + 1
  /\ IF ~CanAlloc(bgd.fi, disk.ibm, NumInodes)
     THEN status' = "wild" /\ UNCHANGED <<bgd, todo>>     \* inode number -1 is outside the group table
     ELSE LET m == Make(type, parent, name) IN
          /\ status' = IF Fits(m.made, BlockOf(m.made, parent), name) THEN "ok" ELSE "wild"
          /\ bgd' = m.mem /\ todo' = m.images
  /\ UNCHANGED <<disk, crashes>>
EXT2_mkfile(parent, name) == EXT2_make("file", parent, name)
EXT2_mkdir(parent, name)  == EXT2_make("dir", parent, name)

EXT2_unlink(parent, name) ==
  /\ status = "ok" /\ todo = <<>> /\ ops < MaxOps
  /\ ops' = ops + 1
  /\ LET d1 == [disk EXCEPT !.dir[BlockOf(disk, parent)] = EXT2_removeEntry(@, name)]
     IN  todo' = <<d1>> \o LinkParent(d1, bgd, parent, -1)
  /\ UNCHANGED <<disk, bgd, crashes, status>>

write_disk_block ==
  /\ todo # <<>> /\ status = "ok"
  /\ disk' = Head(todo) /\ todo' = Tail(todo)
  /\ UNCHANGED <<bgd, ops, crashes, status>>

\* The power fails, and EXT2_init reads the descriptor from the disk at the next start.
Crash ==
  /\ status = "ok" /\ crashes < MaxCrashes
  /\ crashes' = crashes + 1
  /\ todo' = <<>> /\ bgd' = [fb |-> disk.fb, fi |-> disk.fi]
  /\ UNCHANGED <<disk, ops, status>>

Next ==
  \/ \E p \in Dirs, n \in Names : EXT2_mkfile(p, n) \/ EXT2_mkdir(p, n) \/ EXT2_unlink(p, n)
  \/ write_disk_block
  \/ Crash

Spec == Init /\ [][Next]_vars

-----------------------------------------------------------------------------
(* Properties. *)

(* At every moment the power may fail, two inodes that the code has written do not own the same
   block: the bitmap is on disk before the inode that uses the block (EXT2_alloc_block). *)
ByCode == {i \in DOMAIN disk.inode : disk.inode[i].by = "code"}
NoSharedBlocks ==
  \A i, j \in ByCode : i # j /\ BlockOf(disk, i) # NoBlock => BlockOf(disk, i) # BlockOf(disk, j)

(* At every moment the power may fail, an entry that the code has added names an inode that it
   has written, whose bit and whose block's bit are taken (the order of writes in EXT2_mkfile). *)
ByMkfs(b, o) == b \in DOMAIN Disk0.dir /\ o \in DOMAIN Disk0.dir[b] /\ disk.dir[b][o].name = Disk0.dir[b][o].name
EntryAfterInode ==
  \A b \in DOMAIN disk.dir : \A o \in DOMAIN disk.dir[b] :
    LET i == disk.dir[b][o].ino IN
    (i # 0 /\ ~ByMkfs(b, o)) => /\ i \in ByCode /\ i \in disk.ibm
                                /\ BlockOf(disk, i) \in disk.bbm \cup {NoBlock}

(* The free counts on disk are never below the number of zero bits, and each power loss can leave
   them at most one too high (alloc_inode and EXT2_alloc_block, rewrite_bgd). *)
CountsTrail ==
  LET late == crashes + (IF todo = <<>> THEN 0 ELSE 1) IN
  /\ disk.fb - Cardinality(ZeroBits(disk.bbm, NumBlocks)) \in 0..late
  /\ disk.fi - Cardinality(ZeroBits(disk.ibm, NumInodes)) \in 0..late

(* At every moment the power may fail, no directory lists a name twice: a second entry is refused
   however far the scan of the directory came (EXT2_createEntry). *)
NamesOnce == \A b \in DOMAIN disk.dir : NamedOnce(disk.dir[b])

(* What is listed is found, as long as no entry whose name's length is a multiple of four comes
   before it (EXT2_createEntry writes lengths that EXT2_finddir does not expect there). *)
FoundUntilFour ==
  \A i \in Dirs : LET b == disk.dir[BlockOf(disk, i)] IN
    \A o \in EXT2_listdir(b) :
      (\A q \in Range(Chain(b, Expected)) : q < o => LenOf(At(b, q).name) % 4 # 0)
        => EXT2_finddir(b, At(b, o).name) = At(b, o).ino
=============================================================================
