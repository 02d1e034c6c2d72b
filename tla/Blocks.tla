------------------------------- MODULE Blocks -------------------------------
(***************************************************************************)
(* Reading and writing block devices by byte: the sector loops of the two  *)
(* ATA drivers (drivers/storage/ata_pio.c, ata.c), partitions (fs/mbr.c),  *)
(* RAM disks, null and random (ramdisk.c, nulldev.c, randomdev.c).         *)
(*                                                                         *)
(* A call runs to its end undisturbed: after boot, files are read and      *)
(* written only inside interrupts. Offsets are unsigned machine words:     *)
(* Wide stands for 2^32. (So a sector number is below 2^23, and the high   *)
(* bits that the PIO driver drops for a master are zero.) A byte carries   *)
(* its origin, so that one that ends in the wrong place is told apart.     *)
(*                                                                         *)
(* A disk's name is put together with sprintf, which writes where the word *)
(* at address 0 says and moves it on (vsprintf, common/printf.c): from the *)
(* second disk on, and from the first if the word was not 0, a partition   *)
(* table is looked for on what the memory of the name held before.         *)
(***************************************************************************)
EXTENDS Integers, Sequences, SequencesExt, FiniteSets, TLC

CONSTANTS
  SECTOR_SIZE, Wide,
  NumSectors,      \* of every disk
  Answers,         \* what may happen when the four units are identified
  Table,           \* unit -> the entries of its partition table, or NoTable
  Beyond,          \* what the "fifth entry", past the sector's buffer, may hold
  RamSize,         \* bytes of the RAM disk
  Offsets, Sizes,  \* of the calls
  MaxCalls         \* bound

\* words of 32 bits, and a partition table of what the four entries hold
ASSUME BlocksAssumption ==
  /\ SECTOR_SIZE \in Nat \ {0} /\ Wide \in Nat \ {0} /\ NumSectors \in Nat /\ RamSize \in Nat
  /\ Offsets \subseteq 0..Wide - 1 /\ Sizes \subseteq 0..Wide - 1
  /\ \A u \in 0..3 : Table[u] = "no table" \/ Table[u] \in Seq([id : Nat, start : Nat, length : Nat])
  /\ Beyond \subseteq [id : Nat, start : Nat, length : Nat]

VARIABLES
  driver,     \* "pio", which kernelmain starts, or "dma" (init_ata)
  displaced,  \* *pos, the word at address 0, is not 0
  answers, up,     \* what the units answer; the number of units identified so far
  parts,      \* <<unit, num>> -> [start, length] in sectors
  disk, ram,  \* unit -> bytes; the RAM disk's bytes
  call,       \* the last call and its result
  calls,
  bstatus     \* "ok", or "wild" once memory outside a buffer is read or written

bvars == <<driver, displaced, answers, up, parts, disk, ram, call, calls, bstatus>>

Units   == 0..3
NoTable == "no table"
Junk    == <<"junk">>
RAM     == <<"ram">>
NULLDEV == <<"null">>
Refused == -1
Bytes   == 0..NumSectors * SECTOR_SIZE - 1
NoParts == [p \in {} |-> <<>>]
NoCall  == [op |-> "none", node |-> NULLDEV, off |-> 0, n |-> 0, total |-> 0, data |-> <<>>, lost |-> {}, was |-> [disk |-> <<>>, ram |-> <<>>]]

BlocksInit ==
  /\ driver \in {"pio", "dma"} /\ displaced \in BOOLEAN /\ answers \in Answers /\ up = 0
  /\ parts = NoParts
  /\ disk = [u \in Units |-> [b \in Bytes |-> <<"disk", u, b>>]]
  /\ ram = [b \in 0..RamSize - 1 |-> <<"ram", b>>]
  /\ call = NoCall /\ calls = 0 /\ bstatus = "ok"

-----------------------------------------------------------------------------
(* The sector loop, the same in ata_read, ata_write, ata_pio_read and ata_pio_write. *)

First(off) == off \div SECTOR_SIZE
Final(off, n) == ((off + n + Wide - 1) % Wide) \div SECTOR_SIZE
PieceToEnd(c, off, n) ==       \* mutant: the final sector is taken as a whole
  LET at == IF c = First(off) THEN off % SECTOR_SIZE ELSE 0
  IN  [at |-> at, len |-> IF c = Final(off, n) /\ c # First(off) THEN SECTOR_SIZE
                          ELSE IF c = Final(off, n) THEN ((off + n - 1) % SECTOR_SIZE) - at + 1
                          ELSE SECTOR_SIZE - at]
Piece(c, off, n) ==
  LET at == IF c = First(off) THEN off % SECTOR_SIZE ELSE 0
  IN  [at |-> at, len |-> IF c = Final(off, n) THEN (((off + n + Wide - 1) % Wide) % SECTOR_SIZE) - at + 1
                          ELSE SECTOR_SIZE - at]
Done(c, off, n) ==             \* buf_curr - buffer, when the loop reaches sector c
  LET before[i \in First(off)..c] == IF i = First(off) THEN 0 ELSE before[i - 1] + Piece(i - 1, off, n).len
  IN  before[c]

\* The sectors that the device refuses: all that it does not have, and any it fails at.
\* Only the PIO driver sees the error, and then leaves the buffer as kmalloc returned it.
sector_read(D, bad, b) ==
  IF b \div SECTOR_SIZE \in bad \/ b \notin Bytes THEN Junk ELSE D[b]

ata_read(D, off, n, bad) ==
  [total |-> IF First(off) > Final(off, n) THEN 0 ELSE Done(Final(off, n), off, n) + Piece(Final(off, n), off, n).len,
   data  |-> FlattenSeq([i \in 1..Final(off, n) - First(off) + 1 |->
               LET c == First(off) + i - 1
                   p == Piece(c, off, n)
               IN  [j \in 1..p.len |-> sector_read(D, bad, c * SECTOR_SIZE + p.at + j - 1)]])]

New(w, j) == <<"new", w, j>>       \* byte j of the buffer of write w

\* Every sector is read, changed in the buffer and written back.
ata_writeKeepsBad(D, off, n, bad, lost, w) ==     \* mutant: the offset is forgotten in the first sector
  [b \in Bytes |->
     LET c == b \div SECTOR_SIZE
         p == Piece(c, off, n)
         j == b % SECTOR_SIZE
     IN  IF c \notin First(off)..Final(off, n) \/ c \in lost THEN D[b]
         ELSE IF j \in 0..p.len - 1 THEN New(w, Done(c, off, n) + j)
         ELSE IF c \in bad THEN Junk ELSE D[b]]
ata_write(D, off, n, bad, lost, w) ==
  [b \in Bytes |->
     LET c == b \div SECTOR_SIZE
         p == Piece(c, off, n)
         j == b % SECTOR_SIZE
     IN  IF c \notin First(off)..Final(off, n) \/ c \in lost THEN D[b]
         ELSE IF j \in p.at..p.at + p.len - 1 THEN New(w, Done(c, off, n) + j - p.at)
         ELSE IF c \in bad THEN Junk ELSE D[b]]

\* With a size of zero at offset zero the final sector is the last of the address space.
RunsAway(off, n) == n = 0 /\ off = 0

-----------------------------------------------------------------------------
(* Partitions. *)

mbr_bound(p, off, n) == (off + n) % Wide <= parts[p].length * SECTOR_SIZE
mbr_readSector(p, off) == (parts[p].start + off) % Wide      \* mutant: as mbr_write does it
mbr_read(p, off)  == (parts[p].start * SECTOR_SIZE + off) % Wide
mbr_write(p, off) == (parts[p].start + off) % Wide

\* probe_partitions: four entries and a fifth past the end of the buffer
probe_partitions(u, fifth) ==
  LET entries == IF Table[u] = NoTable THEN <<>> ELSE Append(Table[u], fifth)
  IN  [k \in {<<u, i - 1>> : i \in {i \in DOMAIN entries : entries[i].id # 0}} |->
         [start |-> entries[k[2] + 1].start, length |-> entries[k[2] + 1].length]]

\* ata_pio_identify and ata_device_detect: a unit that is not found, is not a disk, reports
\* an error or (DMA) is not ready after 100 polls is left out. Both write the identification
\* past the 256 bytes they have allocated for it; that is below this model.
ata_pio_identify(u)  == driver = "pio" /\ answers[u + 1] = "found"
ata_device_detect(u) == driver = "dma" /\ answers[u + 1] = "found"
Found(u) == ata_pio_identify(u) \/ ata_device_detect(u)

\* the disks whose name sprintf(name, "/dev/%s", ...) may leave in the buffer of kmalloc for the one
\* of unit u; the name of anything else, as of a partition, leads to no table
sprintf(u) == IF displaced THEN {v \in 0..u : Found(v)} ELSE {u}
\* what a unit that was identified may add: the partitions of the disk that the name names, if any
Probes(u) ==
  CASE ~Found(u) -> {NoParts}
    [] displaced -> {NoParts} \cup {probe_partitions(v, fifth) : v \in sprintf(u), fifth \in Beyond}
    [] OTHER -> {probe_partitions(v, fifth) : v \in sprintf(u), fifth \in Beyond}
\* init_ata_pio, init_ata: one unit after the other; a partition that is there already stays
identify ==
  /\ up < Cardinality(Units) /\ bstatus = "ok"
  /\ up' = up + 1
  /\ \E new \in Probes(up) :
       parts' = [p \in DOMAIN parts \cup DOMAIN new |-> IF p \in DOMAIN parts THEN parts[p] ELSE new[p]]
  /\ displaced' = (displaced \/ Found(up))
  /\ bstatus' \in IF Found(up) /\ displaced THEN {"ok", "wild"} ELSE {"ok"}     \* the text lands behind the buffer
  /\ UNCHANGED <<driver, answers, disk, ram, call, calls>>

-----------------------------------------------------------------------------
(* VFS_read and VFS_write on the nodes. *)

Nodes == {<<"unit", u>> : u \in {u \in Units : u < up /\ answers[u + 1] = "found"}}
         \cup {<<"part", p>> : p \in DOMAIN parts} \cup {RAM, NULLDEV}
OnDisk(node) == node[1] \in {"unit", "part"}
UnitOf(node) == IF node[1] = "unit" THEN node[2] ELSE node[2][1]
\* the DMA driver does not look at the error bit (STATUS_ERR is 0)
Failing == IF driver = "pio" THEN SUBSET (0..NumSectors - 1) ELSE {{}}

Ran(op, node, off, n, r, lost) ==
  /\ call' = [op |-> op, node |-> node, off |-> off, n |-> n, total |-> r.total, data |-> r.data, lost |-> lost,
              was |-> [disk |-> disk, ram |-> ram]]
  /\ calls' = calls + 1 /\ UNCHANGED <<driver, displaced, answers, up, parts>>
Ready == bstatus = "ok" /\ up = Cardinality(Units) /\ calls < MaxCalls
Refuse == [total |-> Refused, data |-> <<>>]
Count(n) == [total |-> n, data |-> <<>>]

\* ramdisk_read and ramdisk_write: the bound is tested in machine arithmetic
RamBound(off, n) == (off + n) % Wide <= RamSize
RamInside(off, n) == off + n <= RamSize
PastEnd(node, off, n) ==
  \/ node[1] = "part" /\ ~mbr_bound(node[2], off, n)
  \/ node = RAM /\ ~RamBound(off, n)

VFS_read(node, off, n) ==
  /\ Ready
  /\ \/ /\ OnDisk(node) /\ (node[1] = "part" => mbr_bound(node[2], off, n))
        /\ LET at == IF node[1] = "part" THEN mbr_read(node[2], off) ELSE off IN
           IF RunsAway(at, n) THEN bstatus' = "wild" /\ Ran("read", node, off, n, Refuse, {})
           ELSE \E bad \in Failing :
                  /\ bad \subseteq First(at)..Final(at, n)
                  /\ Ran("read", node, off, n, ata_read(disk[UnitOf(node)], at, n, bad), bad)
                  /\ UNCHANGED bstatus
     \/ /\ PastEnd(node, off, n)
        /\ Ran("read", node, off, n, Refuse, {}) /\ UNCHANGED bstatus
     \/ /\ node = RAM /\ RamBound(off, n)
        /\ IF RamInside(off, n)
           THEN /\ Ran("read", node, off, n, [total |-> n, data |-> [j \in 1..n |-> ram[off + j - 1]]], {})
                /\ UNCHANGED bstatus
           ELSE bstatus' = "wild" /\ Ran("read", node, off, n, Refuse, {})
     \/ /\ node = NULLDEV          \* null reads zeros, random a pseudo-random byte each
        /\ Ran("read", node, off, n, Count(n), {}) /\ UNCHANGED bstatus
  /\ UNCHANGED <<disk, ram>>

VFS_write(node, off, n) ==
  /\ Ready
  /\ \/ /\ OnDisk(node) /\ (node[1] = "part" => mbr_bound(node[2], off, n))
        /\ LET at == IF node[1] = "part" THEN mbr_write(node[2], off) ELSE off
               u  == UnitOf(node)
           IN  IF RunsAway(at, n)
               THEN bstatus' = "wild" /\ Ran("write", node, off, n, Refuse, {}) /\ UNCHANGED disk
               ELSE \E bad, lost \in Failing :
                      /\ bad \cup lost \subseteq First(at)..Final(at, n)
                      /\ disk' = [disk EXCEPT ![u] = ata_write(@, at, n, bad, lost, calls)]
                      /\ Ran("write", node, off, n, Count(ata_read(disk[u], at, n, {}).total), bad \cup lost)
                      /\ UNCHANGED bstatus
        /\ UNCHANGED ram
     \/ /\ PastEnd(node, off, n)
        /\ Ran("write", node, off, n, Refuse, {}) /\ UNCHANGED <<disk, ram, bstatus>>
     \/ /\ node = RAM /\ RamBound(off, n)
        /\ IF RamInside(off, n)
           THEN /\ ram' = [b \in DOMAIN ram |-> IF b \in off..off + n - 1 THEN New(calls, b - off) ELSE ram[b]]
                /\ Ran("write", node, off, n, Count(n), {}) /\ UNCHANGED bstatus
           ELSE bstatus' = "wild" /\ Ran("write", node, off, n, Refuse, {}) /\ UNCHANGED ram
        /\ UNCHANGED disk
     \/ /\ node = NULLDEV /\ Ran("write", node, off, n, Count(n), {}) /\ UNCHANGED <<disk, ram, bstatus>>

\* devfs_remove passes ramdisk_destroy the ramdisk_t in place of the node: the pointer that
\* it frees is read from behind that structure.
ramdisk_destroy ==
  /\ Ready /\ bstatus' = "wild" /\ call' = NoCall
  /\ UNCHANGED <<driver, displaced, answers, up, parts, disk, ram, calls>>

BlocksNext ==
  \/ identify
  \/ \E node \in Nodes, off \in Offsets, n \in Sizes : VFS_read(node, off, n) \/ VFS_write(node, off, n)
  \/ ramdisk_destroy

BlocksSpec == BlocksInit /\ [][BlocksNext]_bvars

-----------------------------------------------------------------------------
(* Properties. *)

(* The bytes a node consists of, and what is there. *)
Where(node, k) == IF node[1] = "part" THEN (parts[node[2]].start * SECTOR_SIZE + k) % Wide ELSE k
Holds(node, k) == IF node = RAM THEN ram[k] ELSE IF k \in Bytes THEN disk[UnitOf(node)][k] ELSE Junk
Covered == {Where(call.node, call.off + j - 1) : j \in 1..call.n}
NoWrap == Where(call.node, call.off) + call.n <= Wide
Known(b) == b \div SECTOR_SIZE \notin call.lost

(* A read that is not refused returns, byte for byte, the slice of the node that was asked for,
   over any number of sectors and through a partition's start, unless it passes the end of the
   32-bit address space; only the bytes of a sector that
   the disk failed to deliver are junk (ata_read, ata_pio_read, mbr_read, ramdisk_read). *)
ReadsSlice ==
  (call.op = "read" /\ call.total # Refused /\ call.node # NULLDEV /\ NoWrap) =>
    /\ call.total = call.n /\ Len(call.data) = call.n
    /\ \A j \in 1..call.n : LET b == Where(call.node, call.off + j - 1) IN
         call.data[j] = IF call.node # RAM /\ ~Known(b) THEN Junk ELSE Holds(call.node, b)

(* A write to a disk or a RAM disk changes the bytes asked for and no others, except in a sector
   whose reading or writing failed on the way: the read-modify-write of a sector that could not
   be read replaces its other bytes by junk (ata_write, ata_pio_write, ramdisk_write). *)
Right(node, b, now, was) ==
  IF node = call.node /\ b \in Covered
  THEN now = <<"new", calls - 1, b - call.off>> \/ ~Known(b)
  ELSE now = was \/ (node = call.node /\ ~Known(b))
WritesSlice ==
  (call.op = "write" /\ call.total # Refused /\ call.node[1] \in {"unit", "ram"} /\ NoWrap) =>
    /\ call.total = call.n
    /\ \A u \in Units : \A b \in Bytes : Right(<<"unit", u>>, b, disk[u][b], call.was.disk[u][b])
    /\ \A b \in DOMAIN ram : Right(RAM, b, ram[b], call.was.ram[b])

(* A write to a partition leaves everything outside the partition as it was. *)
PartitionsApart ==
  (call.op = "write" /\ call.node[1] = "part" /\ call.total # Refused) =>
    LET p == parts[call.node[2]]
        u == UnitOf(call.node)
    IN  \A b \in Bytes \ (p.start * SECTOR_SIZE..(p.start + p.length) * SECTOR_SIZE - 1) :
          disk[u][b] = call.was.disk[u][b]
=============================================================================
