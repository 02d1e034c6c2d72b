------------------------------ MODULE Ext2File ------------------------------
(***************************************************************************)
(* The contents of EXT2 files: reading and writing by blocks, truncation,  *)
(* and the block map (fs/ext2.c). A file is an inode's size and its block  *)
(* numbers; blocks are allocated only when a file is made, its first one   *)
(* (EXT2_mkfile), so every other number is zero, and zero is block zero of *)
(* the disk. A byte carries its origin.                                    *)
(***************************************************************************)
EXTENDS Integers, Sequences, SequencesExt, FiniteSetsExt, TLC

CONSTANTS
  block_size,        \* bytes
  Files,             \* file -> [size, blocks]: the files when the disk is mounted, blocks in order
  DiskBlocks,        \* number of blocks of the disk
  FileOffsets, FileSizes,     \* of the calls
  MaxWrites,         \* bound
  DIRECT, PerBlock   \* EXT2_DIRECT_BLOCKS, 12; block numbers in an indirect block

VARIABLES
  inode,      \* file -> [size, slots], slots the block numbers in the inode and below its indirect blocks
  content,    \* disk block -> its bytes
  given,      \* history: file -> offset -> the byte a caller gave or that was there
  strained,   \* history: files written across the end of a block, or where no block is allocated
  answer,     \* the last read
  writes,
  overrun,    \* a block's buffer on the heap was written past its end
  fstatus     \* "ok", or "wild" after a copy of negative length or through a block number made of data

fvars == <<inode, content, given, strained, answer, writes, overrun, fstatus>>

NoByte == <<"none">>
Beyond4 == <<"behind the caller's buffer">>
NoAnswer4 == [file |-> 0, off |-> 0, n |-> 0, data |-> <<>>]

\* Where a tool that made the disk put the number of block i: in the inode, or below one, two or
\* three levels of indirect blocks, each full before the next is used.
Entries == 0..PerBlock - 1
Slots ==
  {<<i>> : i \in 0..DIRECT - 1} \cup ({DIRECT} \X Entries)
  \cup ({DIRECT + 1} \X Entries \X Entries) \cup ({DIRECT + 2} \X Entries \X Entries \X Entries)
Earlier(s, t) == \E k \in 1..Len(t) : SubSeq(s, 1, k - 1) = SubSeq(t, 1, k - 1) /\ s[k] < t[k]
SlotOf(i) == CHOOSE t \in Slots : Cardinality({s \in Slots : Earlier(s, t)}) = i
MadeByTool(file) ==
  [size |-> file.size,
   slots |-> [s \in {SlotOf(i - 1) : i \in DOMAIN file.blocks} |->
                file.blocks[1 + CHOOSE i \in 0..Len(file.blocks) - 1 : SlotOf(i) = s]]]

(* The disk that is mounted: no block is in two files or twice in one, none uses the boot block,
   each file has the blocks that its size needs, and the inode has room for their numbers. *)
ASSUME FilesAssumption ==
  /\ block_size \in Nat \ {0} /\ PerBlock \in Nat \ {0} /\ DiskBlocks \in Nat \ {0} /\ DIRECT \in Nat
  /\ FileOffsets \subseteq Nat /\ FileSizes \subseteq Nat
  /\ \A f \in DOMAIN Files :
       /\ Files[f].blocks \in Seq(1..DiskBlocks - 1) /\ Len(Files[f].blocks) <= Cardinality(Slots)
       /\ Files[f].size \in 0..Len(Files[f].blocks) * block_size
  /\ \A f, g \in DOMAIN Files : \A i \in DOMAIN Files[f].blocks, j \in DOMAIN Files[g].blocks :
       Files[f].blocks[i] = Files[g].blocks[j] => f = g /\ i = j

Fresh(b) == [k \in 0..block_size - 1 |-> <<"disk", b, k>>]
FileInit ==
  /\ inode = [f \in DOMAIN Files |-> MadeByTool(Files[f])]
  /\ content = [b \in 0..DiskBlocks - 1 |-> Fresh(b)]
  /\ given = [f \in DOMAIN Files |->
                [k \in 0..Files[f].size - 1 |-> <<"disk", Files[f].blocks[(k \div block_size) + 1], k % block_size>>]]
  /\ strained = {} /\ answer = NoAnswer4 /\ writes = 0 /\ overrun = FALSE /\ fstatus = "ok"

-----------------------------------------------------------------------------
(* get_DBlock_num: the entries visited on the way to the number of block i. *)

get_DBlock_numShort(i) ==      \* mutant: the single indirect block is not subtracted
  LET a == i - DIRECT
      b == a - PerBlock
      c == b - PerBlock * PerBlock
      e == c \div (PerBlock * PerBlock)
      f == (c - e * PerBlock * PerBlock) \div PerBlock
  IN  IF a < 0 THEN <<i>>
      ELSE IF b < 0 THEN <<DIRECT, a>>
      ELSE IF c < 0 THEN <<DIRECT + 1, b % PerBlock, a % PerBlock>>
      ELSE <<DIRECT + 2, e, f, c - e * PerBlock * PerBlock - f * PerBlock>>
get_DBlock_num(i) ==
  LET a == i - DIRECT
      b == a - PerBlock
      c == b - PerBlock * PerBlock
      e == c \div (PerBlock * PerBlock)
      f == (c - e * PerBlock * PerBlock) \div PerBlock
  IN  IF a < 0 THEN <<i>>
      ELSE IF b < 0 THEN <<DIRECT, a>>
      ELSE IF c < 0 THEN <<DIRECT + 1, b \div PerBlock, b - (b \div PerBlock) * PerBlock>>
      ELSE <<DIRECT + 2, e, f, c - e * PerBlock * PerBlock - f * PerBlock>>

\* A number that was never set is zero. Where a table is missing, block zero of the disk is taken
\* for it: the boot block, which holds zeros until somebody writes it.
TableMissing(f, i) ==
  LET s == get_DBlock_num(i) IN Len(s) > 1 /\ \A t \in DOMAIN inode[f].slots : t = <<>> \/ Front(t) # Front(s)
BlockAt(f, i) == LET s == get_DBlock_num(i) IN IF s \in DOMAIN inode[f].slots THEN inode[f].slots[s] ELSE 0

-----------------------------------------------------------------------------
(* read_inode_filedata and write_inode_filedata: from the first block to the one that holds the
   end offset, which is the block after the last if the end is a block's end. *)

FirstBlock(off) == off \div block_size
EndBlock(end) == end \div block_size
LeftOf(i, off) == IF i = FirstBlock(off) THEN off % block_size ELSE 0
ReadEnd(f, off, n) == IF inode[f].size >= off + n THEN off + n ELSE inode[f].size

\* the number of bytes copied for block i, given the last index of a block that is not the last
Copied(i, off, end, last) ==
  (IF i = EndBlock(end) THEN end - EndBlock(end) * block_size - 1 ELSE last) - LeftOf(i, off) + 1
CopiedBefore(i, off, end, last) ==
  LET before[j \in FirstBlock(off)..i] ==
        IF j = FirstBlock(off) THEN 0 ELSE before[j - 1] + Copied(j - 1, off, end, last)
  IN  before[i]

\* An offset behind the end of the file, in the same block, makes the length negative; a table
\* read from block zero after that was written holds any number.
ThroughData(f, i, zeroed) == TableMissing(f, i) /\ (content[0] # Fresh(0) \/ zeroed)
ReadRunsAway(f, off, n) ==
  LET end == ReadEnd(f, off, n) IN
  \/ FirstBlock(off) = EndBlock(end) /\ off > end
  \/ \E i \in FirstBlock(off)..EndBlock(end) : ThroughData(f, i, FALSE)
read_inode_filedata(f, off, n) ==
  LET end == ReadEnd(f, off, n) IN
  FlattenSeq([k \in 1..EndBlock(end) - FirstBlock(off) + 1 |->
    LET i == FirstBlock(off) + k - 1 IN
    [j \in 1..Copied(i, off, end, block_size - 1) |-> content[BlockAt(f, i)][LeftOf(i, off) + j - 1]]])

EXT2_read(f, off, n) ==
  /\ fstatus = "ok"
  /\ IF ReadRunsAway(f, off, n) THEN fstatus' = "wild" /\ answer' = NoAnswer4
     ELSE /\ answer' = [file |-> f, off |-> off, n |-> n, data |-> read_inode_filedata(f, off, n)]
          /\ UNCHANGED fstatus
  /\ UNCHANGED <<inode, content, given, strained, writes, overrun>>

\* What the buffer of block i holds when it is written back. A block that is not the last gets
\* one byte too many: the byte goes behind the buffer, and what follows is shifted by one.
Given(w, n, k) == IF k < n THEN <<"new", w, k>> ELSE Beyond4
BlockFromStart(old, i, off, n, w) ==          \* mutant: `left` is not applied
  LET end   == off + n
      first == CopiedBefore(i, off, end, block_size)
      hit   == 0..Copied(i, off, end, block_size) - 1
  IN  [k \in 0..block_size - 1 |-> IF k \in hit THEN Given(w, n, first + k) ELSE old[k]]
BlockAfter(old, i, off, n, w) ==
  LET end   == off + n
      first == CopiedBefore(i, off, end, block_size)
      left  == LeftOf(i, off)
      hit   == left..left + Copied(i, off, end, block_size) - 1
  IN  [k \in 0..block_size - 1 |-> IF k \in hit THEN Given(w, n, first + k - left) ELSE old[k]]
write_inode_filedata(f, off, n, w) ==
  LET end == off + n
      after[i \in FirstBlock(off) - 1..EndBlock(end)] ==
        IF i < FirstBlock(off) THEN content
        ELSE LET b == BlockAt(f, i) IN
             [after[i - 1] EXCEPT ![b] = BlockAfter(after[i - 1][b], i, off, n, w)]
  IN  after[EndBlock(end)]

WriteRunsAway(f, off, n) ==
  \E i \in FirstBlock(off)..EndBlock(off + n) :
    ThroughData(f, i, \E j \in FirstBlock(off)..i - 1 : BlockAt(f, j) = 0)
CrossesBlock(off, n) == FirstBlock(off) # EndBlock(off + n)
EXT2_write(f, off, n) ==
  /\ fstatus = "ok" /\ writes < MaxWrites /\ n > 0
  /\ inode' = [inode EXCEPT ![f].size = IF off + n > @ THEN off + n ELSE @]
  /\ fstatus' = IF WriteRunsAway(f, off, n) THEN "wild" ELSE "ok"
  /\ content' = IF WriteRunsAway(f, off, n) THEN content ELSE write_inode_filedata(f, off, n, writes)
  /\ overrun' = (overrun \/ CrossesBlock(off, n))
  /\ given' = [given EXCEPT ![f] = [k \in 0..inode'[f].size - 1 |->
                 IF k \in off..off + n - 1 THEN Given(writes, n, k - off)
                 ELSE IF k \in DOMAIN @ THEN @[k] ELSE NoByte]]
  /\ strained' = IF CrossesBlock(off, n) \/ BlockAt(f, FirstBlock(off)) = 0 THEN strained \cup {f} ELSE strained
  /\ writes' = writes + 1 /\ answer' = NoAnswer4

\* EXT2_open with OPEN_TRUNC. The blocks stay with the file.
EXT2_open(f) ==
  /\ fstatus = "ok"
  /\ inode' = [inode EXCEPT ![f].size = 0] /\ given' = [given EXCEPT ![f] = <<>>]
  /\ answer' = NoAnswer4
  /\ UNCHANGED <<content, strained, writes, overrun, fstatus>>

FileNext ==
  \E f \in DOMAIN Files :
    \/ \E off \in FileOffsets, n \in FileSizes : EXT2_read(f, off, n) \/ EXT2_write(f, off, n)
    \/ EXT2_open(f)

-----------------------------------------------------------------------------
(* Properties. *)

ByteOf(f, k) == content[BlockAt(f, k \div block_size)][k % block_size]

(* As long as a file is written only inside blocks that it owns, each byte of it is the last one
   a caller gave for that offset, whatever is written to other files meanwhile, also across the
   end of a block or where they own none, until a table of block numbers is read from the
   boot block after that was written (write_inode_filedata, get_DBlock_num); and a read that
   starts inside the file returns its bytes up to the file's end (read_inode_filedata). *)
FilesKeepBytes == fstatus = "ok" =>
  /\ \A f \in DOMAIN Files \ strained : \A k \in DOMAIN given[f] :
       given[f][k] # NoByte => ByteOf(f, k) = given[f][k]
  /\ (answer.file # 0 /\ answer.off <= inode[answer.file].size) =>
       answer.data = [j \in 1..ReadEnd(answer.file, answer.off, answer.n) - answer.off |->
                        ByteOf(answer.file, answer.off + j - 1)]
=============================================================================
