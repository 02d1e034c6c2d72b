--------------------------- MODULE StorageProofs ---------------------------
(***************************************************************************)
(* The storage below the filesystems, for every size of its parts: the log *)
(* under any number of interrupts that log between the steps of            *)
(* logdisk_putc, the block devices for every sector size, partition table, *)
(* request and failing sector, and the contents of EXT2 files for every    *)
(* size of the blocks and of their map.                                    *)
(***************************************************************************)
EXTENDS MCStorage, FiniteSetTheorems, SequenceTheorems, WellFoundedInduction, TLAPS

(* The log. *)

LogType ==
  /\ buffer \in [Cells -> Nat] /\ pos \in Cells /\ value \in Cells
  /\ at \in {"store", "add", "back", "wrap"}
  /\ put \in Seq(Nat) /\ tangled \in Nat
  /\ logread \in [off : Nat, n : Nat, got : Int] /\ lstatus \in {"ok", "wild"}

\* only between write-back and comparison is the position behind the buffer
Inside == at # "wrap" => pos < LogSize
\* what an undisturbed putc writes back
WritesBack == (at = "back" /\ tangled = 0) => value = pos + 1

Guarded == buffer[LogSize] # NUL => tangled > 0
Unclamped == lstatus = "wild" => logread.off > LogSize \/ logread.off + logread.n >= LogWide

\* where the character after the ones in put will go
Following ==
  CASE at = "store" -> pos
    [] at = "add" -> Wrap(pos + 1)
    [] at = "back" -> Wrap(pos + 1)
    [] at = "wrap" -> Wrap(pos)
RingFrom(q, b, s) == \A k \in 1..LogSize : k <= Len(s) => b[(q - k) % LogSize] = s[Len(s) - k + 1]
Ring == tangled = 0 => RingFrom(Following, buffer, put)

LogInv == LogType /\ Inside /\ WritesBack /\ Guarded /\ Unclamped /\ Ring

-----------------------------------------------------------------------------
(* Arithmetic on the ring. *)

LEMMA Mod ==
  ASSUME NEW N \in Nat \ {0}, NEW x \in Int
  PROVE  /\ 0 <= x /\ x < N => x % N = x
         /\ -N <= x /\ x < 0 => x % N = x + N
         /\ N <= x /\ x < 2 * N => x % N = x - N
  OBVIOUS

\* k places before the write position is a byte of the buffer
LEMMA Back ==
  ASSUME NEW q \in 0..LogSize - 1, NEW k \in 1..LogSize
  PROVE  (q - k) % LogSize = IF q - k >= 0 THEN q - k ELSE q - k + LogSize
<1>1. LogSize \in Nat \ {0}
  BY LogAssumption
<1>2. PICK x \in Int : x = q - k
  BY <1>1
<1>3. -LogSize <= x /\ x < LogSize
  BY <1>1, <1>2
<1>4. CASE x >= 0
  <2>1. x % LogSize = x
    BY <1>1, <1>3, <1>4, Mod
  <2> QED BY <1>2, <1>4, <2>1
<1>5. CASE x < 0
  <2>1. x % LogSize = x + LogSize
    BY <1>1, <1>3, <1>5, Mod
  <2> QED BY <1>2, <1>5, <2>1
<1> QED BY <1>4, <1>5

\* a request that starts inside the buffer and does not overflow is cut to end inside
LEMMA Clamped ==
  ASSUME NEW off \in Nat, NEW n \in Nat, off <= LogSize, off + n < LogWide
  PROVE  off + Clamp(off, n) <= LogSize
<1> USE LogAssumption
<1>1. LogWide \in Nat \ {0}
  OBVIOUS
<1>2. PICK x \in Int : x = off + n
  OBVIOUS
<1>3. x % LogWide = x
  BY <1>1, <1>2, Mod
<1>4. PICK y \in Int : y = LogSize - off + LogWide
  OBVIOUS
<1>5. LogWide <= y /\ y < 2 * LogWide
  BY <1>4
<1>6. y % LogWide = y - LogWide
  BY <1>1, <1>5, Mod
<1>7. Clamp(off, n) = IF x > LogSize THEN y - LogWide ELSE n
  BY <1>2, <1>3, <1>4, <1>6 DEF Clamp
<1> QED BY <1>2, <1>4, <1>7

LEMMA ClampInt ==
  ASSUME NEW off \in Nat, NEW n \in Nat
  PROVE  Clamp(off, n) \in Int
  BY LogAssumption DEF Clamp

\* one more character at the write position, which moves on, keeps the ring
LEMMA OneMore ==
  ASSUME NEW q \in 0..LogSize - 1, NEW b \in [Cells -> Nat], NEW s \in Seq(Nat), NEW ch \in Nat, RingFrom(q, b, s)
  PROVE  RingFrom(Wrap(q + 1), [b EXCEPT ![q] = ch], Append(s, ch))
<1> USE LogAssumption
<1> DEFINE q1 == Wrap(q + 1)
           b1 == [b EXCEPT ![q] = ch]
           s1 == Append(s, ch)
<1>1. q1 \in 0..LogSize - 1 /\ (q1 = IF q + 1 >= LogSize THEN 0 ELSE q + 1)
  BY DEF Wrap
<1>2. Len(s1) = Len(s) + 1 /\ s1[Len(s) + 1] = ch /\ \A i \in 1..Len(s) : s1[i] = s[i]
  OBVIOUS
<1>3. SUFFICES ASSUME NEW k \in 1..LogSize, k <= Len(s1)
               PROVE  b1[(q1 - k) % LogSize] = s1[Len(s1) - k + 1]
  BY DEF RingFrom
<1>4. (q1 - k) % LogSize = IF q1 - k >= 0 THEN q1 - k ELSE q1 - k + LogSize
  BY <1>1, Back
<1>5. CASE k = 1
  <2>1. (q1 - k) % LogSize = q
    <3> HIDE DEF q1, s1, b1
    <3>1. (IF q1 - k >= 0 THEN q1 - k ELSE q1 - k + LogSize) = q
      <4>1. CASE q + 1 >= LogSize
        BY <1>1, <1>5, <4>1
      <4>2. CASE q + 1 < LogSize
        BY <1>1, <1>5, <4>2
      <4> QED BY <1>1, <4>1, <4>2
    <3> QED BY <1>4, <3>1, Zenon
  <2>2. b1[q] = ch
    BY DEF Cells
  <2> QED BY <2>1, <2>2, <1>2, <1>5
<1>6. CASE k > 1
  <2>1. k - 1 \in 1..LogSize /\ k - 1 <= Len(s)
    BY <1>2, <1>6, <1>3
  <2>2. (q - (k - 1)) % LogSize = IF q - (k - 1) >= 0 THEN q - (k - 1) ELSE q - (k - 1) + LogSize
    BY <2>1, Back
  <2>3. PICK m \in Int : m = (q - (k - 1)) % LogSize
    BY <2>2
  <2>7. m = (IF q - (k - 1) >= 0 THEN q - (k - 1) ELSE q - (k - 1) + LogSize)
    BY <2>2, <2>3
  <2>8. m # q /\ m \in Cells
    BY <1>6, <2>1, <2>7 DEF Cells
  <2>9. (IF q1 - k >= 0 THEN q1 - k ELSE q1 - k + LogSize) = m
    <3> HIDE DEF q1
    <3>1. CASE q + 1 >= LogSize
      BY <1>1, <1>6, <2>1, <2>7, <3>1
    <3>2. CASE q + 1 < LogSize
      BY <1>1, <1>6, <2>1, <2>7, <3>2
    <3> QED BY <3>1, <3>2
  <2>10. (q1 - k) % LogSize = m
    BY <1>4, <2>9
  <2>4. b1[(q1 - k) % LogSize] = b[(q - (k - 1)) % LogSize]
    BY <2>3, <2>8, <2>10
  <2>5. b[(q - (k - 1)) % LogSize] = s[Len(s) - (k - 1) + 1]
    BY <2>1 DEF RingFrom
  <2>6. Len(s) - (k - 1) + 1 = Len(s1) - k + 1 /\ Len(s1) - k + 1 \in 1..Len(s)
    BY <1>2, <1>6, <2>1
  <2> QED BY <2>4, <2>5, <2>6, <1>2
<1>7. k = 1 \/ k > 1
  OBVIOUS
<1> QED BY <1>5, <1>6, <1>7

-----------------------------------------------------------------------------
(* The invariant. *)

LEMMA LogStarts == LogInit => LogInv
<1> SUFFICES ASSUME LogInit PROVE LogInv
  OBVIOUS
<1> USE LogAssumption DEF LogInit, NUL, Cells
<1>1. LogType
  BY DEF LogType
<1>2. Inside /\ WritesBack /\ Guarded /\ Unclamped
  BY DEF Inside, WritesBack, Guarded, Unclamped
<1>3. Ring
  BY DEF Ring, RingFrom
<1> QED BY <1>1, <1>2, <1>3 DEF LogInv

LEMMA StoreKeeps == LogInv /\ store => LogInv'
<1> SUFFICES ASSUME LogInv, store PROVE LogInv'
  OBVIOUS
<1> USE LogAssumption DEF store
<1>1. LogType /\ pos \in 0..LogSize - 1
  BY DEF LogInv, LogType, Inside, Cells
<1>2. Char \in Nat /\ put' = Append(put, Char) /\ buffer' = [buffer EXCEPT ![pos] = Char] /\ pos' = pos /\ at' = "add"
  BY <1>1 DEF Char, LogType
<1>3. LogType'
  BY <1>1, <1>2 DEF LogType
<1>4. Inside' /\ WritesBack' /\ Unclamped'
  BY <1>1, <1>2 DEF Inside, WritesBack, Unclamped, LogInv
<1>5. Guarded'
  BY <1>1, <1>2 DEF Guarded, LogInv, LogType, Cells
<1>6. Ring'
  <2>1. SUFFICES ASSUME tangled = 0 PROVE RingFrom(Wrap(pos + 1), buffer', put')
    BY <1>2 DEF Ring, Following
  <2>2. RingFrom(pos, buffer, put)
    BY <2>1 DEF LogInv, Ring, Following
  <2>3. RingFrom(Wrap(pos + 1), [buffer EXCEPT ![pos] = Char], Append(put, Char))
    BY <1>1, <1>2, <2>2, OneMore DEF LogType
  <2> QED BY <1>2, <2>3
<1> QED BY <1>3, <1>4, <1>5, <1>6 DEF LogInv

LEMMA AddKeeps == LogInv /\ add => LogInv'
<1> SUFFICES ASSUME LogInv, add PROVE LogInv'
  OBVIOUS
<1> USE LogAssumption DEF add
<1>1. LogType'
  BY DEF LogInv, LogType, Inside, Cells
<1>2. Inside' /\ WritesBack' /\ Guarded' /\ Unclamped'
  BY DEF LogInv, Inside, WritesBack, Guarded, Unclamped
<1>3. Following' = Following
  BY DEF Following
<1>4. Ring'
  BY <1>3 DEF LogInv, Ring, RingFrom
<1> QED BY <1>1, <1>2, <1>4 DEF LogInv

LEMMA BackKeeps == LogInv /\ back => LogInv'
<1> SUFFICES ASSUME LogInv, back PROVE LogInv'
  OBVIOUS
<1> USE LogAssumption DEF back
<1>1. LogType'
  BY DEF LogInv, LogType
<1>2. Inside' /\ WritesBack' /\ Guarded' /\ Unclamped'
  BY DEF LogInv, Inside, WritesBack, Guarded, Unclamped
<1>3. tangled = 0 => Following' = Following
  BY DEF LogInv, WritesBack, Following
<1>4. Ring'
  BY <1>3 DEF LogInv, Ring, RingFrom
<1> QED BY <1>1, <1>2, <1>4 DEF LogInv

LEMMA WrapKeeps == LogInv /\ wrap => LogInv'
<1> SUFFICES ASSUME LogInv, wrap PROVE LogInv'
  OBVIOUS
<1> USE LogAssumption DEF wrap
<1>1. pos' \in 0..LogSize - 1
  BY DEF LogInv, LogType, Cells, Wrap
<1>2. LogType'
  BY <1>1 DEF LogInv, LogType, Cells
<1>3. Inside' /\ WritesBack' /\ Guarded' /\ Unclamped'
  BY <1>1 DEF LogInv, Inside, WritesBack, Guarded, Unclamped
<1>4. Following' = Following
  BY DEF Following
<1>5. Ring'
  BY <1>4 DEF LogInv, Ring, RingFrom
<1> QED BY <1>2, <1>3, <1>5 DEF LogInv

LEMMA PrintlKeeps == ASSUME NEW k \in 1..2 PROVE LogInv /\ printl(k) => LogInv'
<1> SUFFICES ASSUME LogInv, printl(k) PROVE LogInv'
  OBVIOUS
<1> DEFINE second == Wrap(pos + 1)
<1>1. /\ buffer' = IF k = 1 THEN [buffer EXCEPT ![pos] = Char] ELSE [buffer EXCEPT ![pos] = Char, ![second] = Char + 1]
      /\ put' = put \o (IF k = 1 THEN <<Char>> ELSE <<Char, Char + 1>>)
      /\ pos' = (IF k = 1 THEN second ELSE Wrap(second + 1))
      /\ tangled' = tangled + 1 /\ at' = at /\ value' = value /\ logread' = logread /\ lstatus' = lstatus
  BY DEF printl
<1>2. LogType
  BY DEF LogInv
<1>3. second \in 0..LogSize - 1 /\ pos' \in 0..LogSize - 1
  BY <1>1, <1>2, LogAssumption DEF LogType, Cells, Wrap
<1>4. Char \in Nat /\ tangled' \in Nat /\ tangled' > 0
  BY <1>1, <1>2 DEF LogType, Char
<1>5. buffer' \in [Cells -> Nat]
  <2>1. CASE k = 1
    BY <1>1, <1>2, <1>4, <2>1 DEF LogType
  <2>2. CASE k = 2
    <3>1. buffer' = [[buffer EXCEPT ![pos] = Char] EXCEPT ![second] = Char + 1] /\ Char + 1 \in Nat
      BY <1>1, <1>4, <2>2
    <3>2. [buffer EXCEPT ![pos] = Char] \in [Cells -> Nat]
      BY <1>2, <1>4 DEF LogType
    <3> HIDE DEF second
    <3> QED BY <3>1, <3>2
  <2> QED BY <2>1, <2>2
<1>6. put' \in Seq(Nat)
  <2>1. (IF k = 1 THEN <<Char>> ELSE <<Char, Char + 1>>) \in Seq(Nat)
    BY <1>4
  <2> QED BY <1>1, <1>2, <2>1 DEF LogType
<1>7. pos' \in Cells
  BY <1>3, LogAssumption DEF Cells
<1>8. LogType'
  BY <1>1, <1>2, <1>4, <1>5, <1>6, <1>7 DEF LogType, Cells
<1>9. Inside' /\ WritesBack' /\ Guarded' /\ Unclamped'
  BY <1>1, <1>3, <1>4, LogAssumption DEF LogInv, Inside, WritesBack, Guarded, Unclamped
<1>10. Ring'
  BY <1>4 DEF Ring
<1> QED BY <1>8, <1>9, <1>10 DEF LogInv

LEMMA ReadKeeps ==
  ASSUME NEW off \in LogOffsets, NEW n \in LogSizes PROVE LogInv /\ logdisk_read(off, n) => LogInv'
<1> SUFFICES ASSUME LogInv, logdisk_read(off, n) PROVE LogInv'
  OBVIOUS
<1>1. off \in Nat /\ n \in Nat
  BY LogAssumption
<1>2. Clamp(off, n) \in Int
  BY <1>1, ClampInt
<1>3. LogType'
  BY <1>1, <1>2 DEF LogInv, LogType, logdisk_read
<1>4. Unclamped'
  <2>1. ~(off > LogSize \/ off + n >= LogWide) => off + Clamp(off, n) <= LogSize
    BY <1>1, Clamped, LogAssumption
  <2> QED BY <1>1, <1>2, <2>1, LogAssumption DEF Unclamped, logdisk_read
<1>5. Inside' /\ WritesBack' /\ Guarded' /\ Ring'
  BY DEF LogInv, Inside, WritesBack, Guarded, Ring, RingFrom, Following, logdisk_read
<1> QED BY <1>3, <1>4, <1>5 DEF LogInv

LEMMA WriteKeeps ==
  ASSUME NEW off \in LogOffsets, NEW n \in LogSizes PROVE LogInv /\ logdisk_write(off, n) => LogInv'
<1> SUFFICES ASSUME LogInv, logdisk_write(off, n) PROVE LogInv'
  OBVIOUS
<1>1. off \in Nat /\ n \in Nat
  BY LogAssumption
<1>2. Clamp(off, n) \in Int
  BY <1>1, ClampInt
<1>3. LogType'
  BY <1>1, <1>2 DEF LogInv, LogType, NUL, logdisk_write
<1>4. Unclamped'
  <2>1. ~(off > LogSize \/ off + n >= LogWide) => off + Clamp(off, n) <= LogSize
    BY <1>1, Clamped, LogAssumption
  <2> QED BY <1>1, <1>2, <2>1, LogAssumption DEF Unclamped, logdisk_write
<1>5. Inside' /\ WritesBack'
  BY DEF LogInv, Inside, WritesBack, logdisk_write
<1>6. Guarded'
  BY LogAssumption DEF LogInv, Guarded, LogType, Cells, logdisk_write
<1>7. Ring'
  <2>1. put' = <<>> /\ Len(put') = 0
    BY DEF logdisk_write
  <2> QED BY <2>1 DEF Ring, RingFrom
<1> QED BY <1>3, <1>4, <1>5, <1>6, <1>7 DEF LogInv

LEMMA LogKeeps == LogInv /\ [LogNext]_lvars => LogInv'
<1> SUFFICES ASSUME LogInv, [LogNext]_lvars PROVE LogInv'
  OBVIOUS
<1>1. CASE store
  BY <1>1, StoreKeeps
<1>2. CASE add
  BY <1>2, AddKeeps
<1>3. CASE back
  BY <1>3, BackKeeps
<1>4. CASE wrap
  BY <1>4, WrapKeeps
<1>5. CASE \E k \in 1..2 : printl(k)
  BY <1>5, PrintlKeeps
<1>6. CASE \E off \in LogOffsets, n \in LogSizes : logdisk_read(off, n) \/ logdisk_write(off, n)
  BY <1>6, ReadKeeps, WriteKeeps
<1>7. CASE UNCHANGED lvars
  BY <1>7 DEF lvars, LogInv, LogType, Inside, WritesBack, Guarded, Unclamped, Ring, RingFrom, Following
<1> QED BY <1>1, <1>2, <1>3, <1>4, <1>5, <1>6, <1>7 DEF LogNext

LEMMA LogInvariance == LogSpec => []LogInv
<1> QED BY LogStarts, LogKeeps, PTL DEF LogSpec

-----------------------------------------------------------------------------
(* The properties. *)

\* Wherever interrupts cut into logdisk_putc, nothing is stored further than one byte behind the
\* buffer, and no accepted request for /dev/log that starts inside reaches outside.
THEOREM StaysInBuffer == LogSpec => []LogInBuffer
<1>1. LogInv => LogInBuffer
  BY DEF LogInv, LogType, Guarded, Unclamped, LogInBuffer
<1> QED BY <1>1, LogInvariance, PTL

\* Undisturbed, the buffer is a ring of the last LogSize characters (logdisk_putc).
THEOREM KeepsLast == LogSpec => []LogKeepsLast
<1>1. LogInv => LogKeepsLast
  BY DEF LogInv, Ring, RingFrom, Following, LogKeepsLast
<1> QED BY <1>1, LogInvariance, PTL

-----------------------------------------------------------------------------
(* Numbers, and sequences in pieces. *)
LEMMA LeastOf ==
  ASSUME NEW S \in SUBSET Int, NEW a \in Int, \A s \in S : a <= s, S # {}
  PROVE  \E x \in S : \A y \in S : x <= y
<1> DEFINE T == {s - a : s \in S}
<1>1. T \in SUBSET Nat /\ T # {}
  <2>1. \A s \in S : s - a \in Nat
    OBVIOUS
  <2> QED BY <2>1
<1> HIDE DEF T
<1>2. PICK t \in T : \A u \in T : ~(<<u, t>> \in OpToRel(<, Nat))
  BY <1>1, NatLessThanWellFounded, WFMin
<1>3. \A u \in T : t <= u
  <2>1. SUFFICES ASSUME NEW u \in T, ~(t <= u) PROVE FALSE
    OBVIOUS
  <2>2. <<u, t>> \in OpToRel(<, Nat)
    BY <1>1, <2>1 DEF OpToRel
  <2> QED BY <1>2, <2>2
<1>4. PICK x \in S : t = x - a
  BY DEF T
<1>5. \A y \in S : y - a \in T
  BY DEF T
<1> QED BY <1>3, <1>4, <1>5

LEMMA RangeInduct ==
  ASSUME NEW a \in Int, NEW b \in Int, NEW S, a \in S, \A v \in a + 1..b : v - 1 \in S => v \in S
  PROVE  \A v \in a..b : v \in S
<1> DEFINE B == {v \in a..b : v \notin S}
<1>1. SUFFICES ASSUME B # {} PROVE FALSE
  OBVIOUS
<1>2. B \in SUBSET Int /\ \A v \in B : a <= v
  OBVIOUS
<1>3. PICK x \in B : \A y \in B : x <= y
  <2> HIDE DEF B
  <2> QED BY <1>1, <1>2, LeastOf
<1>4. x \in a + 1..b /\ x - 1 \in a..b /\ x \notin S
  BY <1>3
<1>5. x - 1 \notin B
  BY <1>2, <1>3, <1>4
<1> QED BY <1>4, <1>5

LEMMA Quotient ==
  ASSUME NEW K \in Nat \ {0}, NEW t \in Nat
  PROVE  t \div K \in Nat /\ t % K \in 0..K - 1 /\ t = (t \div K) * K + (t % K)
<1>1. K \in Int /\ K > 0 /\ t \in Int /\ t >= 0
  OBVIOUS
<1>2. t \div K \in Int /\ t % K \in 0..K - 1
  BY <1>1
<1>3. t = (t \div K) * K + (t % K)
  BY <1>1
<1>4. t \div K >= 0
  BY <1>1
<1> QED BY <1>2, <1>3, <1>4

-----------------------------------------------------------------------------
(* Pieces of a function put together by FlattenSeq. *)

FirstOf(F, p) == [j \in 1..p |-> F[j]]
Stretch(F, p, q) == [j \in 1..q - p |-> F[p + j]]

LEMMA Joined ==
  ASSUME NEW p \in Nat, NEW q \in Nat, p <= q, NEW F
  PROVE  FirstOf(F, p) \o Stretch(F, p, q) = FirstOf(F, q)
<1>0. PICK A, B, C : /\ A = FirstOf(F, p) /\ B = Stretch(F, p, q) /\ C = FirstOf(F, q)
                     /\ A = [j \in 1..p |-> F[j]] /\ B = [j \in 1..q - p |-> F[p + j]] /\ C = [j \in 1..q |-> F[j]]
  BY DEF FirstOf, Stretch
<1>1. PICK k \in Nat : k = q - p
  OBVIOUS
<1>2. PICK S : S = {F[j] : j \in 1..q}
  OBVIOUS
<1>3. A \in Seq(S) /\ Len(A) = p
  BY <1>0, <1>2
<1>4. B \in Seq(S) /\ Len(B) = k
  BY <1>0, <1>1, <1>2
<1>5. C \in Seq(S) /\ Len(C) = q
  BY <1>0, <1>2
<1>6. A \o B \in Seq(S) /\ Len(A \o B) = q
  <2>1. A \o B \in Seq(S) /\ Len(A \o B) = Len(A) + Len(B)
    BY <1>3, <1>4, ConcatProperties
  <2> QED BY <1>1, <1>3, <1>4, <2>1
<1>7. ASSUME NEW j \in 1..q PROVE (A \o B)[j] = C[j]
  <2>1. CASE j <= p
    <3>1. A[j] = F[j] /\ C[j] = F[j] /\ j \in 1..p
      BY <1>0, <2>1
    <3>2. (A \o B)[j] = A[j]
      BY <1>1, <1>3, <1>4, <2>1, ConcatProperties
    <3> QED BY <3>1, <3>2
  <2>2. CASE j > p
    <3>1. B[j - p] = F[j] /\ C[j] = F[j] /\ j - p \in 1..k
      BY <1>0, <1>1, <2>2
    <3>2. (A \o B)[j] = B[j - p]
      BY <1>1, <1>3, <1>4, <2>2, ConcatProperties
    <3> QED BY <3>1, <3>2
  <2>3. j <= p \/ j > p
    OBVIOUS
  <2> QED BY <2>1, <2>2, <2>3, Zenon
<1>8. A \o B = C
  BY <1>5, <1>6, <1>7, SeqEqual
<1> QED BY <1>0, <1>8

\* flatten[i] of FlattenSeq
Flattens(g, seqs) == g = [i \in 1..Len(seqs) |-> IF i = 1 THEN seqs[i] ELSE g[i - 1] \o seqs[i]]

LEMMA FlattenPieces ==
  ASSUME NEW m \in Nat, NEW P \in [1..m + 1 -> Nat], P[1] = 0, \A i \in 1..m : P[i] <= P[i + 1], NEW F,
         NEW seqs, seqs = [i \in 1..m |-> Stretch(F, P[i], P[i + 1])]
  PROVE  FlattenSeq(seqs) = FirstOf(F, P[m + 1])
<1>1. Len(seqs) = m
  OBVIOUS
<1>2. CASE m = 0
  <2>1. seqs = <<>>
    BY <1>2
  <2>2. FirstOf(F, P[m + 1]) = <<>>
    BY <1>2 DEF FirstOf
  <2> QED BY <1>1, <1>2, <2>1, <2>2 DEF FlattenSeq
<1>3. CASE m # 0
  <2> DEFINE h == [i \in 1..m |-> FirstOf(F, P[i + 1])]
  <2>1. ASSUME NEW i \in 1..m PROVE h[i] = IF i = 1 THEN seqs[i] ELSE h[i - 1] \o seqs[i]
    <3>1. seqs[i] = Stretch(F, P[i], P[i + 1]) /\ P[i] \in Nat /\ P[i + 1] \in Nat /\ P[i] <= P[i + 1]
      OBVIOUS
    <3>2. CASE i = 1
      <4>1. P[i + 1] - P[i] = P[i + 1] /\ \A j \in 1..P[i + 1] : P[i] + j = j
        BY <3>1, <3>2
      <4>2. seqs[i] = FirstOf(F, P[i + 1])
        BY <3>1, <4>1 DEF FirstOf, Stretch
      <4> QED BY <3>2, <4>2
    <3>3. CASE i # 1
      <4>1. i - 1 \in 1..m /\ (i - 1) + 1 = i
        BY <3>3
      <4>2. h[i - 1] = FirstOf(F, P[i])
        BY <4>1
      <4>3. h[i] = FirstOf(F, P[i + 1])
        OBVIOUS
      <4> HIDE DEF h
      <4>4. FirstOf(F, P[i]) \o Stretch(F, P[i], P[i + 1]) = FirstOf(F, P[i + 1])
        BY <3>1, Joined
      <4> QED BY <3>1, <3>3, <4>2, <4>3, <4>4, Zenon
    <3> QED BY <3>2, <3>3
  <2>2. Flattens(h, seqs)
    <3>1. h = [i \in 1..m |-> h[i]]
      OBVIOUS
    <3> HIDE DEF h
    <3>2. h = [i \in 1..m |-> IF i = 1 THEN seqs[i] ELSE h[i - 1] \o seqs[i]]
      BY <2>1, <3>1, Zenon
    <3> QED BY <1>1, <3>2, Zenon DEF Flattens
  <2>3. PICK g : g = CHOOSE f : Flattens(f, seqs)
    OBVIOUS
  <2> HIDE DEF h
  <2>4. Flattens(g, seqs)
    BY <2>2, <2>3
  <2>8. \A i \in 1..m : g[i] = IF i = 1 THEN seqs[i] ELSE g[i - 1] \o seqs[i]
    <3>1. g = [i \in 1..m |-> IF i = 1 THEN seqs[i] ELSE g[i - 1] \o seqs[i]]
      BY <1>1, <2>4, Zenon DEF Flattens
    <3> QED BY <3>1, Zenon
  <2>5. FlattenSeq(seqs) = g[m]
    <3>1. Len(seqs) # 0
      BY <1>1, <1>3
    <3>2. FlattenSeq(seqs) = (CHOOSE f : Flattens(f, seqs))[Len(seqs)]
      BY <3>1, Zenon DEF FlattenSeq, Flattens
    <3> QED BY <1>1, <2>3, <3>2
  <2>6. \A i \in 1..m : g[i] = h[i]
    <3> DEFINE S == {i \in 1..m : g[i] = h[i]}
    <3>1. 1 \in S
      <4>1. 1 \in 1..m
        BY <1>3
      <4> QED BY <2>1, <2>8, <4>1
    <3>2. ASSUME NEW i \in 1 + 1..m, i - 1 \in S PROVE i \in S
      <4>1. i \in 1..m /\ i # 1
        OBVIOUS
      <4>2. g[i] = g[i - 1] \o seqs[i]
        BY <2>8, <4>1
      <4>3. h[i] = h[i - 1] \o seqs[i]
        BY <2>1, <4>1
      <4> QED BY <3>2, <4>1, <4>2, <4>3
    <3>3. \A i \in 1..m : i \in S
      <4> HIDE DEF S
      <4>1. 1 \in Int /\ m \in Int
        OBVIOUS
      <4> QED BY <3>1, <3>2, <4>1, RangeInduct
    <3> QED BY <3>3 DEF S
  <2> QED BY <1>3, <2>5, <2>6 DEF h
<1> QED BY <1>2, <1>3

-----------------------------------------------------------------------------
(* The sector loop. *)

\* where the part of sector c starts in the caller's buffer
StartOf(c, off, n) == IF c = First(off) THEN 0 ELSE IF c = Final(off, n) + 1 THEN n ELSE c * SECTOR_SIZE - off

\* a request that does not pass the end of the address space
InSpace(off, n) == off \in Nat /\ n \in Nat /\ off + n <= Wide /\ ~RunsAway(off, n)

LEMMA BlockSizes == SECTOR_SIZE \in Nat \ {0} /\ Wide \in Nat \ {0} /\ NumSectors \in Nat /\ RamSize \in Nat
  BY BlocksAssumption

LEMMA SmallMod ==
  ASSUME NEW N \in Nat \ {0}, NEW x \in Int
  PROVE  /\ 0 <= x /\ x < N => x % N = x
         /\ N <= x /\ x < 2 * N => x % N = x - N
  OBVIOUS

LEMMA EndsAt ==
  ASSUME NEW off, NEW n, InSpace(off, n)
  PROVE  off + n - 1 \in Nat /\ (off + n + Wide - 1) % Wide = off + n - 1
<1>1. off \in Nat /\ n \in Nat /\ off + n <= Wide /\ off + n >= 1 /\ Wide \in Nat \ {0}
  BY BlockSizes DEF InSpace, RunsAway
<1>2. PICK x \in Int : x = off + n + Wide - 1
  BY <1>1
<1>3. Wide <= x /\ x < 2 * Wide
  BY <1>1, <1>2
<1>4. x % Wide = x - Wide
  BY <1>1, <1>3, SmallMod
<1> QED BY <1>1, <1>2, <1>4

\* quotients and remainders of the two ends
EndsAre(off, n, K, u, r, v, s, uK, vK) ==
  /\ K = SECTOR_SIZE /\ First(off) = u /\ off % K = r /\ r < K /\ uK = u * K /\ off = uK + r
  /\ Final(off, n) = v /\ ((off + n + Wide - 1) % Wide) % K = s /\ s < K /\ vK = v * K /\ off + n - 1 = vK + s
  /\ u = v => uK = vK
  /\ \A c \in Int : u < c => uK + K <= c * K
  /\ \A c \in Int : c < v => c * K + K <= vK
  /\ \A c \in Int : (c + 1) * K = c * K + K /\ c * K \in Int

LEMMA Ends ==
  ASSUME NEW off, NEW n, InSpace(off, n)
  PROVE  \E K \in Nat \ {0}, u \in Nat, r \in Nat, v \in Nat, s \in Nat, uK \in Nat, vK \in Nat :
           EndsAre(off, n, K, u, r, v, s, uK, vK)
<1>1. PICK K \in Nat \ {0}, e \in Nat : K = SECTOR_SIZE /\ e = off + n - 1
  BY EndsAt, BlockSizes
<1>2. off \in Nat
  BY DEF InSpace
<1>3. PICK u \in Nat, r \in 0..K - 1 : u = off \div K /\ r = off % K /\ off = u * K + r
  BY ZenonT(60), <1>1, <1>2, Quotient
<1>4. PICK v \in Nat, s \in 0..K - 1 : v = e \div K /\ s = e % K /\ e = v * K + s
  BY ZenonT(60), <1>1, Quotient
<1>5. First(off) = u /\ Final(off, n) = v /\ ((off + n + Wide - 1) % Wide) % K = s
  BY <1>1, <1>3, <1>4, EndsAt DEF First, Final
<1>6. \A c \in Int : (c + 1) * K = c * K + K /\ c * K \in Int
  OBVIOUS
<1>7. ASSUME NEW a \in Int, NEW c \in Int, a < c PROVE a * K + K <= c * K
  <2>1. (a + 1) * K <= c * K
    BY <1>7
  <2> QED BY <2>1, <1>6
<1>8. PICK uK \in Nat, vK \in Nat : uK = u * K /\ vK = v * K
  OBVIOUS
<1>9. \A c \in Int : u < c => uK + K <= c * K
  BY <1>7, <1>8
<1>10. \A c \in Int : c < v => c * K + K <= vK
  BY <1>7, <1>8
<1>11. r \in Nat /\ s \in Nat /\ r < K /\ s < K
  BY <1>3, <1>4
<1>12. u = v => uK = vK
  BY <1>8
<1>13. off = uK + r /\ off + n - 1 = vK + s
  BY <1>1, <1>3, <1>4, <1>8
<1>14. EndsAre(off, n, K, u, r, v, s, uK, vK)
  BY <1>1, <1>3, <1>5, <1>6, <1>8, <1>9, <1>10, <1>11, <1>12, <1>13 DEF EndsAre
<1> QED BY <1>11, <1>14

\* What Piece says of sector c: its bytes from at on go where StartOf says.
LEMMA PieceIs ==
  ASSUME NEW off, NEW n, InSpace(off, n), NEW c \in First(off)..Final(off, n)
  PROVE  LET p == Piece(c, off, n) IN
         /\ p.at \in 0..SECTOR_SIZE - 1
         /\ c * SECTOR_SIZE + p.at = off + StartOf(c, off, n)
         /\ p.len = StartOf(c + 1, off, n) - StartOf(c, off, n)
         /\ p.len \in Nat /\ p.at + p.len <= SECTOR_SIZE
         /\ StartOf(c, off, n) \in 0..n /\ StartOf(c + 1, off, n) \in 0..n
<1>0. PICK K \in Nat \ {0}, u \in Nat, r \in Nat, v \in Nat, s \in Nat, uK \in Nat, vK \in Nat :
        EndsAre(off, n, K, u, r, v, s, uK, vK)
  BY Ends
<1>1. /\ K = SECTOR_SIZE /\ First(off) = u /\ off % K = r /\ r < K /\ uK = u * K /\ off = uK + r
      /\ Final(off, n) = v /\ ((off + n + Wide - 1) % Wide) % K = s /\ s < K /\ vK = v * K /\ off + n - 1 = vK + s
      /\ u = v => uK = vK
      /\ \A d \in Int : u < d => uK + K <= d * K
      /\ \A d \in Int : d < v => d * K + K <= vK
      /\ \A d \in Int : (d + 1) * K = d * K + K /\ d * K \in Int
  BY <1>0 DEF EndsAre
<1>2. c \in Nat /\ u <= c /\ c <= v
  BY <1>1
<1>3. PICK cK \in Int : cK = c * K /\ (c + 1) * K = cK + K
  BY <1>1, <1>2
<1>4. (c = u => cK = uK) /\ (c = v => cK = vK) /\ (c # u => uK + K <= cK) /\ (c # v => cK + K <= vK)
  BY <1>1, <1>2, <1>3
<1>5. off \in Nat /\ n \in Nat
  BY DEF InSpace
<1>6. PICK p : p = Piece(c, off, n)
  OBVIOUS
<1>7. /\ p.at = IF c = u THEN r ELSE 0
      /\ p.len = IF c = v THEN s - p.at + 1 ELSE K - p.at
  BY <1>1, <1>6 DEF Piece
<1>8. StartOf(c, off, n) = (IF c = u THEN 0 ELSE cK - off)
  <2>1. c # v + 1 /\ c * SECTOR_SIZE = cK /\ Final(off, n) + 1 = v + 1
    BY <1>1, <1>2, <1>3
  <2> QED BY <1>1, <2>1 DEF StartOf
<1>9. StartOf(c + 1, off, n) = (IF c = v THEN n ELSE cK + K - off)
  BY <1>1, <1>2, <1>3 DEF StartOf
<1>10. PICK a, b : a = StartOf(c, off, n) /\ b = StartOf(c + 1, off, n)
  OBVIOUS
<1>11. /\ p.at \in 0..K - 1 /\ cK + p.at = off + a /\ p.len = b - a /\ p.len \in Nat /\ p.at + p.len <= K
       /\ a \in 0..n /\ b \in 0..n
  <2>1. CASE c = u /\ c = v
    BY <1>1, <1>4, <1>5, <1>7, <1>8, <1>9, <1>10, <2>1
  <2>2. CASE c = u /\ c # v
    BY <1>1, <1>4, <1>5, <1>7, <1>8, <1>9, <1>10, <2>2
  <2>3. CASE c # u /\ c = v
    BY <1>1, <1>4, <1>5, <1>7, <1>8, <1>9, <1>10, <2>3
  <2>4. CASE c # u /\ c # v
    BY <1>1, <1>4, <1>5, <1>7, <1>8, <1>9, <1>10, <2>4
  <2> QED BY <2>1, <2>2, <2>3, <2>4
<1> QED BY <1>1, <1>3, <1>6, <1>10, <1>11

LEMMA EndsInt ==
  ASSUME NEW off, NEW n, InSpace(off, n)
  PROVE  /\ First(off) \in Nat /\ Final(off, n) \in Int /\ off \in Nat /\ n \in Nat
         /\ First(off) > Final(off, n) => n = 0 /\ Final(off, n) = First(off) - 1
<1>1. off \in Nat /\ n \in Nat
  BY DEF InSpace
<1>2. PICK K \in Nat \ {0}, u \in Nat, r \in Nat, v \in Nat, s \in Nat, uK \in Nat, vK \in Nat :
        EndsAre(off, n, K, u, r, v, s, uK, vK)
  BY Ends
<1>3. /\ First(off) = u /\ Final(off, n) = v /\ off = uK + r /\ off + n - 1 = vK + s /\ r < K /\ s < K
      /\ u < v + 1 \/ vK + K <= uK
      /\ uK = u * K /\ vK = v * K
  <2>1. u > v => v * K + K <= u * K
    <3>1. u > v => (v + 1) * K <= u * K
      OBVIOUS
    <3> QED BY <3>1
  <2> QED BY <1>2, <2>1 DEF EndsAre
<1>4. CASE u > v
  <2>1. n = 0 /\ r = 0 /\ s = K - 1 /\ uK = vK + K
    BY <1>1, <1>3, <1>4
  <2>2. u = v + 1
    <3>1. SUFFICES ASSUME u >= v + 2 PROVE FALSE
      BY <1>4
    <3>2. (v + 2) * K <= u * K
      BY <3>1
    <3>3. (v + 2) * K = v * K + K + K
      OBVIOUS
    <3> QED BY <1>3, <2>1, <3>2, <3>3
  <2> QED BY <1>1, <1>3, <2>1, <2>2
<1>5. CASE ~(u > v)
  BY <1>1, <1>3, <1>5
<1> QED BY <1>4, <1>5

\* before[i] of Done
Adds(g, c, off, n) ==
  g = [i \in First(off)..c |-> IF i = First(off) THEN 0 ELSE g[i - 1] + Piece(i - 1, off, n).len]

LEMMA DoneIs ==
  ASSUME NEW off, NEW n, InSpace(off, n), NEW c \in First(off)..Final(off, n)
  PROVE  Done(c, off, n) = StartOf(c, off, n)
<1>1. PICK a \in Nat, z \in Int : a = First(off) /\ z = Final(off, n)
  BY EndsInt
<1> DEFINE h == [i \in a..c |-> StartOf(i, off, n)]
<1>2. c \in a..z
  BY <1>1
<1>3. StartOf(a, off, n) = 0
  BY <1>1 DEF StartOf
<1>4. ASSUME NEW i \in a + 1..c
      PROVE  StartOf(i, off, n) = StartOf(i - 1, off, n) + Piece(i - 1, off, n).len
  <2>1. PICK d : d = i - 1 /\ d \in First(off)..Final(off, n) /\ d + 1 = i
    BY <1>1, <1>2
  <2>2. PICK p : p = Piece(d, off, n)
    OBVIOUS
  <2>3. p.len = StartOf(d + 1, off, n) - StartOf(d, off, n)
        /\ StartOf(d, off, n) \in 0..n /\ StartOf(d + 1, off, n) \in 0..n
    BY <2>1, <2>2, PieceIs
  <2>4. n \in Nat
    BY EndsInt
  <2>5. StartOf(d + 1, off, n) = StartOf(d, off, n) + p.len
    BY <2>3, <2>4
  <2> QED BY <2>1, <2>2, <2>5
<1>5. Adds(h, c, off, n)
  <2>1. ASSUME NEW i \in a..c PROVE h[i] = IF i = a THEN 0 ELSE h[i - 1] + Piece(i - 1, off, n).len
    <3>1. CASE i = a
      BY <1>3, <3>1
    <3>2. CASE i # a
      <4>1. i \in a + 1..c /\ i - 1 \in a..c
        BY <1>2, <3>2
      <4> QED BY <1>4, <3>2, <4>1
    <3> QED BY <3>1, <3>2
  <2>2. h = [i \in a..c |-> h[i]]
    OBVIOUS
  <2> HIDE DEF h
  <2>3. h = [i \in a..c |-> IF i = a THEN 0 ELSE h[i - 1] + Piece(i - 1, off, n).len]
    BY <2>1, <2>2, Zenon
  <2> QED BY <1>1, <2>3, Zenon DEF Adds
<1>6. PICK g : g = CHOOSE f : Adds(f, c, off, n)
  OBVIOUS
<1>7. Adds(g, c, off, n)
  BY <1>5, <1>6
<1>8. \A i \in a..c : g[i] = IF i = a THEN 0 ELSE g[i - 1] + Piece(i - 1, off, n).len
  <2>1. g = [i \in a..c |-> IF i = a THEN 0 ELSE g[i - 1] + Piece(i - 1, off, n).len]
    BY <1>1, <1>7, Zenon DEF Adds
  <2> QED BY <2>1, Zenon
<1>9. Done(c, off, n) = g[c]
  BY <1>6, Zenon DEF Done, Adds
<1>10. \A i \in a..c : g[i] = StartOf(i, off, n)
  <2> DEFINE S == {i \in a..c : g[i] = StartOf(i, off, n)}
  <2>1. a \in S
    <3>1. a \in a..c
      BY <1>2
    <3> QED BY <1>3, <1>8, <3>1
  <2>2. ASSUME NEW i \in a + 1..c, i - 1 \in S PROVE i \in S
    <3>1. i \in a..c /\ i # a
      BY <1>2
    <3>2. g[i] = g[i - 1] + Piece(i - 1, off, n).len
      BY <1>8, <3>1
    <3> QED BY <1>4, <2>2, <3>1, <3>2
  <2>3. \A i \in a..c : i \in S
    <3> HIDE DEF S
    <3>1. a \in Int /\ c \in Int
      BY <1>2
    <3> QED BY <2>1, <2>2, <3>1, RangeInduct
  <2> QED BY <2>3
<1> QED BY <1>2, <1>9, <1>10

(* Reading: the slice that was asked for. *)
LEMMA TotalIs ==
  ASSUME NEW off, NEW n, InSpace(off, n), NEW D, NEW bad
  PROVE  ata_read(D, off, n, bad).total = n
<1>1. PICK a \in Nat, z \in Int : a = First(off) /\ z = Final(off, n)
  BY EndsInt
<1>2. n \in Nat /\ off \in Nat /\ (a > z => n = 0 /\ z = a - 1)
  BY <1>1, EndsInt
<1>3. StartOf(z + 1, off, n) = n
  <2>1. z + 1 = a => n = 0
    BY <1>1, <1>2
  <2> QED BY <1>1, <2>1 DEF StartOf
<1>4. CASE a > z
  BY <1>1, <1>2, <1>4 DEF ata_read
<1>5. CASE ~(a > z)
  <2>1. z \in First(off)..Final(off, n)
    BY <1>1, <1>5
  <2>2. PICK p : p = Piece(z, off, n)
    OBVIOUS
  <2>3. p.len = n - StartOf(z, off, n) /\ StartOf(z, off, n) \in 0..n
    BY <1>3, <2>1, <2>2, PieceIs
  <2>4. ata_read(D, off, n, bad).total = StartOf(z, off, n) + p.len
    BY <1>1, <1>5, <2>1, <2>2, DoneIs DEF ata_read
  <2> QED BY <1>2, <2>3, <2>4
<1> QED BY <1>4, <1>5

LEMMA ReadIs ==
  ASSUME NEW off, NEW n, InSpace(off, n), NEW D, NEW bad
  PROVE  ata_read(D, off, n, bad).data = [j \in 1..n |-> sector_read(D, bad, off + j - 1)]
<1>1. PICK a \in Nat, z \in Int : a = First(off) /\ z = Final(off, n)
  BY EndsInt
<1>2. n \in Nat /\ off \in Nat /\ (a > z => n = 0 /\ z = a - 1)
  BY <1>1, EndsInt
<1>3. PICK m \in Nat : m = z - a + 1
  BY <1>1, <1>2
<1> DEFINE F == [j \in 1..n |-> sector_read(D, bad, off + j - 1)]
           P == [i \in 1..m + 1 |-> StartOf(a + i - 1, off, n)]
           piece(c) == LET p == Piece(c, off, n) IN [j \in 1..p.len |-> sector_read(D, bad, c * SECTOR_SIZE + p.at + j - 1)]
           seqs == [i \in 1..m |-> piece(a + i - 1)]
<1>4. StartOf(a, off, n) = 0 /\ StartOf(z + 1, off, n) = n
  <2>1. z + 1 = a => n = 0
    BY <1>1, <1>2
  <2> QED BY <1>1, <2>1 DEF StartOf
<1>5. ASSUME NEW i \in 1..m
      PROVE  /\ P[i] \in 0..n /\ P[i + 1] \in 0..n /\ P[i] <= P[i + 1]
             /\ seqs[i] = Stretch(F, P[i], P[i + 1])
  <2>1. PICK c \in Int : c = a + i - 1
    BY <1>5
  <2>2. c \in First(off)..Final(off, n) /\ c + 1 = a + (i + 1) - 1
    BY <1>1, <1>3, <1>5, <2>1
  <2>3. P[i] = StartOf(c, off, n) /\ P[i + 1] = StartOf(c + 1, off, n)
    BY <1>5, <2>1, <2>2
  <2>4. PICK p, x, y : p = Piece(c, off, n) /\ x = P[i] /\ y = P[i + 1]
    OBVIOUS
  <2>5. /\ c * SECTOR_SIZE + p.at = off + x /\ p.len = y - x /\ p.len \in Nat
        /\ x \in 0..n /\ y \in 0..n
    BY <2>2, <2>3, <2>4, PieceIs
  <2>6. x <= y
    BY <1>2, <2>5
  <2>7. piece(c) = Stretch(F, x, y)
    <3>1. piece(c) = [j \in 1..y - x |-> sector_read(D, bad, c * SECTOR_SIZE + p.at + j - 1)]
      BY <2>4, <2>5
    <3>2. ASSUME NEW j \in 1..y - x PROVE sector_read(D, bad, c * SECTOR_SIZE + p.at + j - 1) = F[x + j]
      <4>1. x + j \in 1..n /\ off + (x + j) - 1 = off + x + j - 1
        BY <1>2, <2>5, <2>6
      <4>2. F[x + j] = sector_read(D, bad, off + (x + j) - 1)
        BY <4>1
      <4>3. c * SECTOR_SIZE + p.at + j - 1 = off + (x + j) - 1
        BY <2>5, <4>1
      <4> HIDE DEF F
      <4> QED BY <4>2, <4>3
    <3> HIDE DEF F, piece
    <3> QED BY <3>1, <3>2 DEF Stretch
  <2>8. seqs[i] = piece(c)
    BY <1>5, <2>1
  <2> HIDE DEF P, seqs, F, piece
  <2> QED BY <2>4, <2>5, <2>6, <2>7, <2>8
<1>6. P[1] = 0 /\ P[m + 1] = n /\ P \in [1..m + 1 -> Nat]
  <2>1. a + 1 - 1 = a /\ a + (m + 1) - 1 = z + 1 /\ 1 \in 1..m + 1 /\ m + 1 \in 1..m + 1
    BY <1>3
  <2>2. P[1] = 0 /\ P[m + 1] = n
    BY <1>4, <2>1
  <2>3. ASSUME NEW i \in 1..m + 1 PROVE P[i] \in Nat
    <3>1. CASE i = m + 1
      BY <1>2, <2>2, <3>1
    <3>2. CASE i # m + 1
      <4>1. i \in 1..m
        BY <3>2
      <4>2. P[i] \in 0..n
        BY <1>5, <4>1
      <4> QED BY <1>2, <4>2
    <3> QED BY <3>1, <3>2
  <2>4. P = [i \in 1..m + 1 |-> P[i]]
    OBVIOUS
  <2> HIDE DEF P
  <2> QED BY <2>2, <2>3, <2>4
<1>7. ata_read(D, off, n, bad).data = FlattenSeq(seqs)
  BY <1>1, <1>3 DEF ata_read
<1>8. FlattenSeq(seqs) = FirstOf(F, n)
  <2>1. seqs = [i \in 1..m |-> Stretch(F, P[i], P[i + 1])]
    <3>1. seqs = [i \in 1..m |-> seqs[i]]
      OBVIOUS
    <3> HIDE DEF seqs, F, P
    <3> QED BY <1>5, <3>1, Zenon
  <2>2. \A i \in 1..m : P[i] <= P[i + 1]
    BY <1>5
  <2> HIDE DEF seqs, F, P
  <2> QED BY <1>6, <2>1, <2>2, FlattenPieces
<1>9. FirstOf(F, n) = F
  BY DEF FirstOf
<1> QED BY <1>7, <1>8, <1>9

(* Writing: the bytes given, and no others, but in sectors that fail. *)
LEMMA WriteIs ==
  ASSUME NEW off, NEW n, InSpace(off, n), NEW D, NEW bad, NEW lost, NEW w, NEW b \in Bytes
  PROVE  LET now == ata_write(D, off, n, bad, lost, w)[b] IN
         IF b \in off..off + n - 1 THEN now = New(w, b - off) \/ b \div SECTOR_SIZE \in lost
         ELSE now = D[b] \/ b \div SECTOR_SIZE \in bad \cup lost
<1>0. PICK K \in Nat \ {0}, u \in Nat, r \in Nat, v \in Nat, s \in Nat, uK \in Nat, vK \in Nat :
        EndsAre(off, n, K, u, r, v, s, uK, vK)
  BY Ends
<1>1. /\ K = SECTOR_SIZE /\ First(off) = u /\ Final(off, n) = v /\ off = uK + r /\ off + n - 1 = vK + s
      /\ r < K /\ s < K /\ (u = v => uK = vK) /\ uK = u * K /\ vK = v * K
      /\ \A d \in Int : u < d => uK + K <= d * K
      /\ \A d \in Int : d < v => d * K + K <= vK
      /\ \A d \in Int : (d + 1) * K = d * K + K /\ d * K \in Int
  BY <1>0 DEF EndsAre
<1>2. b \in Nat /\ off \in Nat /\ n \in Nat
  BY EndsInt DEF Bytes
<1>3. PICK c \in Nat, j \in 0..K - 1 : c = b \div K /\ j = b % K /\ b = c * K + j
  BY <1>2, Quotient
<1>4. PICK cK \in Int : cK = c * K /\ b = cK + j /\ (c + 1) * K = cK + K
  BY <1>1, <1>3
<1>5. PICK p : p = Piece(c, off, n)
  OBVIOUS
<1>6. ata_write(D, off, n, bad, lost, w)[b] =
        IF c \notin u..v \/ c \in lost THEN D[b]
        ELSE IF j \in p.at..p.at + p.len - 1 THEN New(w, Done(c, off, n) + j - p.at)
        ELSE IF c \in bad THEN <<"junk">> ELSE D[b]
  BY <1>1, <1>3, <1>5, Zenon DEF ata_write, Junk
<1>7. CASE c \notin u..v
  <2>1. b \notin off..off + n - 1
    <3>1. CASE c < u
      <4>1. (c + 1) * K <= u * K
        BY <3>1
      <4> QED BY <1>1, <1>2, <1>3, <1>4, <4>1
    <3>2. CASE c > v
      <4>1. (v + 1) * K <= c * K
        BY <3>2
      <4>2. (v + 1) * K = vK + K
        BY <1>1
      <4> QED BY <1>1, <1>2, <1>3, <1>4, <4>1, <4>2
    <3> QED BY <1>7, <3>1, <3>2
  <2> QED BY <1>1, <1>3, <1>6, <1>7, <2>1
<1>8. CASE c \in u..v
  <2>1. PICK x, y : x = StartOf(c, off, n) /\ y = StartOf(c + 1, off, n)
    OBVIOUS
  <2>2. /\ p.at \in 0..K - 1 /\ cK + p.at = off + x /\ p.len = y - x /\ p.len \in Nat /\ p.at + p.len <= K
        /\ x \in 0..n /\ y \in 0..n
    BY <1>1, <1>4, <1>5, <1>8, <2>1, PieceIs
  <2>3. (c = u => x = 0) /\ (c # u => p.at = 0) /\ (c = v => y = n) /\ (c # v => y = cK + K - off)
    <3>1. (c = u => x = 0) /\ (c # u => p.at = 0)
      BY <1>1, <1>5, <2>1 DEF Piece, StartOf
    <3>2. c + 1 # u /\ (c + 1 = v + 1 <=> c = v) /\ (c + 1) * SECTOR_SIZE = cK + K
      BY <1>1, <1>4, <1>8
    <3>3. y = IF c = v THEN n ELSE cK + K - off
      BY <1>1, <2>1, <3>2 DEF StartOf
    <3> QED BY <3>1, <3>3
  <2>4. b \in off..off + n - 1 <=> j \in p.at..p.at + p.len - 1
    <3>1. ASSUME j < p.at PROVE b \notin off..off + n - 1
      BY <1>2, <1>3, <1>4, <2>2, <2>3, <3>1
    <3>2. ASSUME j >= p.at + p.len PROVE b \notin off..off + n - 1
      BY <1>2, <1>3, <1>4, <2>2, <2>3, <3>2
    <3>3. ASSUME j >= p.at, j < p.at + p.len PROVE b \in off..off + n - 1
      BY <1>2, <1>3, <1>4, <2>2, <3>3
    <3>4. j \in p.at..p.at + p.len - 1 <=> (j >= p.at /\ j < p.at + p.len)
      BY <1>3, <2>2
    <3>5. j < p.at \/ j >= p.at + p.len \/ (j >= p.at /\ j < p.at + p.len)
      BY <1>3, <2>2
    <3> QED BY <3>1, <3>2, <3>3, <3>4, <3>5
  <2>5. Done(c, off, n) = x
    BY <1>1, <1>8, <2>1, DoneIs
  <2>6. Done(c, off, n) + j - p.at = b - off
    <3>1. PICK d, a : d = Done(c, off, n) /\ a = p.at
      OBVIOUS
    <3>2. d = x /\ x \in Nat /\ a \in Int /\ cK + a = off + x
      BY <1>2, <2>2, <2>5, <3>1
    <3>3. d + j - a = b - off
      BY <1>2, <1>3, <1>4, <3>2
    <3> QED BY <3>1, <3>3
  <2>7. CASE b \in off..off + n - 1
    BY <1>1, <1>3, <1>6, <1>8, <2>4, <2>6, <2>7, Zenon
  <2>8. CASE b \notin off..off + n - 1
    <3>1. c \in bad \cup lost \/ (c \notin bad /\ c \notin lost)
      OBVIOUS
    <3> QED BY <1>1, <1>3, <1>6, <1>8, <2>4, <2>8, <3>1, Zenon
  <2> QED BY <2>7, <2>8
<1> QED BY <1>7, <1>8

-----------------------------------------------------------------------------
(* Block devices. *)

Device4(u) == <<"unit", u>>
PartsOk == \A p \in DOMAIN parts : p[1] \in Units /\ parts[p].start \in Nat
Shapes ==
  /\ up \in Nat /\ (up # Cardinality(Units) => call = NoCall) /\ calls \in Int
  /\ DOMAIN disk = Units /\ (\A u \in Units : DOMAIN disk[u] = Bytes) /\ DOMAIN ram = 0..RamSize - 1
  /\ PartsOk
BlocksInv == Shapes /\ ReadsSlice /\ WritesSlice

LEMMA FourUnits == Cardinality(Units) = 4
<1>1. PICK a \in Int, b \in Int : a = 0 /\ b = 3
  OBVIOUS
<1>2. Cardinality(a..b) = IF a > b THEN 0 ELSE b - a + 1
  BY FS_Interval
<1> QED BY <1>1, <1>2 DEF Units

LEMMA CallSizes == ASSUME NEW off \in Offsets, NEW n \in Sizes PROVE off \in Nat /\ n \in Nat /\ off < Wide /\ n < Wide
<1>1. Offsets \subseteq 0..Wide - 1 /\ Sizes \subseteq 0..Wide - 1 /\ Wide \in Nat
  BY BlocksAssumption
<1>2. off \in 0..Wide - 1 /\ n \in 0..Wide - 1
  BY <1>1
<1> QED BY <1>1, <1>2

LEMMA WrapOn ==
  ASSUME NEW N \in Nat \ {0}, NEW x \in Nat, NEW i \in Nat, (x % N) + i < N
  PROVE  (x + i) % N = (x % N) + i
<1>1. PICK q \in Nat, r \in 0..N - 1 : r = x % N /\ x = q * N + r
  BY Quotient
<1>2. PICK t \in Nat : t = r + i /\ t < N
  <2>1. r + i \in Nat /\ r + i < N
    BY <1>1
  <2> QED BY <2>1
<1>3. PICK qN \in Nat : qN = q * N
  OBVIOUS
<1>4. x + i = q * N + t
  BY <1>1, <1>2, <1>3
<1>5. (q * N + t) % N = t
  BY <1>2
<1> QED BY <1>1, <1>2, <1>4, <1>5

\* where a call on a disk begins, and that its bytes follow one another
LEMMA WhereIs ==
  ASSUME Shapes, NEW node \in Nodes, OnDisk(node), NEW off \in Offsets, NEW n \in Sizes,
         Where(node, off) + n <= Wide, ~RunsAway(Where(node, off), n)
  PROVE  /\ InSpace(Where(node, off), n) /\ Where(node, off) \in Nat /\ n \in Nat /\ UnitOf(node) \in Units
         /\ \A j \in 1..n : Where(node, off + j - 1) = Where(node, off) + j - 1
<1>1. off \in Nat /\ n \in Nat
  BY CallSizes
<1>2. CASE node[1] = "unit"
  <2>1. Where(node, off) = off /\ \A j \in 1..n : Where(node, off + j - 1) = off + j - 1
    BY <1>2 DEF Where
  <2>2. UnitOf(node) \in Units
    BY <1>2 DEF Nodes, UnitOf, RAM, NULLDEV
  <2> QED BY <1>1, <2>1, <2>2 DEF InSpace
<1>3. CASE node[1] = "part"
  <2>1. node[2] \in DOMAIN parts /\ UnitOf(node) = node[2][1]
    BY <1>3 DEF Nodes, UnitOf, RAM, NULLDEV
  <2>2. PICK s \in Nat : s = parts[node[2]].start /\ UnitOf(node) \in Units
    BY <2>1 DEF Shapes, PartsOk
  <2>3. PICK x \in Nat : x = s * SECTOR_SIZE + off
    BY <1>1, BlockSizes
  <2>4. \A k : Where(node, k) = (s * SECTOR_SIZE + k) % Wide
    BY <1>3, <2>2 DEF Where
  <2>5. PICK a \in Nat : a = x % Wide /\ Where(node, off) = a
    BY <2>3, <2>4, BlockSizes, Quotient
  <2>6. ASSUME NEW j \in 1..n PROVE Where(node, off + j - 1) = a + j - 1
    <3>1. PICK i \in Nat : i = j - 1 /\ off + j - 1 = off + i
      BY <1>1, <2>6
    <3>2. a + i < Wide
      BY <1>1, <2>5, <2>6, <3>1, BlockSizes
    <3>3. (x + i) % Wide = a + i
      <4>1. (x % Wide) + i < Wide
        BY <2>5, <3>2
      <4>2. (x + i) % Wide = (x % Wide) + i
        BY <4>1, BlockSizes, WrapOn
      <4> QED BY <2>5, <4>2
    <3>4. PICK sS \in Nat : sS = s * SECTOR_SIZE
      BY BlockSizes
    <3>5. s * SECTOR_SIZE + (off + i) = x + i
      BY <1>1, <2>3, <3>4
    <3>6. Where(node, off + i) = a + i
      BY <2>4, <3>3, <3>5
    <3> QED BY <3>1, <3>6
  <2> QED BY <1>1, <2>2, <2>5, <2>6 DEF InSpace
<1> QED BY <1>2, <1>3 DEF OnDisk

\* VFS_read on a disk, and on the others
LEMMA DiskRead ==
  ASSUME Shapes, NEW node \in Nodes, OnDisk(node), NEW off \in Offsets, NEW n \in Sizes, NEW bad,
         NEW go, go = Where(node, off), ~RunsAway(go, n),
         Ran("read", node, off, n, ata_read(disk[UnitOf(node)], go, n, bad), bad), UNCHANGED <<disk, ram>>
  PROVE  ReadsSlice'
<1>1. PICK r : r = ata_read(disk[UnitOf(node)], go, n, bad)
  OBVIOUS
<1>2. /\ call'.node = node /\ call'.off = off /\ call'.n = n /\ call'.total = r.total /\ call'.data = r.data /\ call'.lost = bad
      /\ parts' = parts /\ disk' = disk /\ ram' = ram
  BY <1>1, SMTT(30) DEF Ran
<1>3. SUFFICES ASSUME NoWrap'
               PROVE  /\ r.total = n /\ Len(r.data) = n
                      /\ \A j \in 1..n : LET b == Where(node, off + j - 1) IN
                           r.data[j] = IF node # RAM /\ b \div SECTOR_SIZE \in bad THEN Junk ELSE Holds(node, b)
  BY <1>2 DEF ReadsSlice, Known, Where, Holds, UnitOf
<1>4. go + n <= Wide
  BY <1>2, <1>3 DEF NoWrap, Where
<1>5. /\ InSpace(go, n) /\ go \in Nat /\ n \in Nat
      /\ \A j \in 1..n : Where(node, off + j - 1) = go + j - 1
  BY <1>4, WhereIs
<1>6. r.total = n /\ r.data = [j \in 1..n |-> sector_read(disk[UnitOf(node)], bad, go + j - 1)]
  BY <1>1, <1>5, TotalIs, ReadIs
<1>7. Len(r.data) = n
  BY <1>5, <1>6
<1>8. ASSUME NEW j \in 1..n
      PROVE  r.data[j] = IF node # RAM /\ (go + j - 1) \div SECTOR_SIZE \in bad THEN Junk ELSE Holds(node, go + j - 1)
  <2>1. PICK b : b = go + j - 1
    OBVIOUS
  <2>2. r.data[j] = sector_read(disk[UnitOf(node)], bad, b)
    BY <1>6, <1>8, <2>1
  <2>3. node # RAM
    BY DEF OnDisk, RAM
  <2> QED BY <2>1, <2>2, <2>3 DEF sector_read, Holds
<1> QED BY <1>5, <1>6, <1>7, <1>8

LEMMA RamRead ==
  ASSUME NEW off \in Offsets, NEW n \in Sizes,
         Ran("read", RAM, off, n, [total |-> n, data |-> [j \in 1..n |-> ram[off + j - 1]]], {}), UNCHANGED <<disk, ram>>
  PROVE  ReadsSlice'
<1>1. /\ call'.node = RAM /\ call'.off = off /\ call'.n = n /\ call'.total = n
      /\ call'.data = [j \in 1..n |-> ram[off + j - 1]] /\ ram' = ram
  BY DEF Ran
<1>2. n \in Nat
  BY CallSizes
<1>3. \A k : Where(RAM, k)' = k /\ Holds(RAM, k)' = ram[k]
  BY <1>1 DEF Where, Holds, RAM
<1>4. Len(call'.data) = n
  BY <1>1, <1>2
<1>5. \A j \in 1..n : call'.data[j] = Holds(RAM, Where(RAM, off + j - 1))'
  BY <1>1, <1>3
<1> QED BY <1>1, <1>4, <1>5 DEF ReadsSlice

LEMMA Reading ==
  ASSUME Shapes, NEW node \in Nodes, NEW off \in Offsets, NEW n \in Sizes, VFS_read(node, off, n)
  PROVE  ReadsSlice' /\ WritesSlice'
<1>1. call'.op = "read"
  BY DEF VFS_read, Ran
<1>2. WritesSlice'
  BY <1>1 DEF WritesSlice
<1>3. ASSUME Ran("read", node, off, n, Refuse, {}) PROVE ReadsSlice'
  BY <1>3 DEF Ran, Refuse, ReadsSlice
<1>4. UNCHANGED <<disk, ram>>
  BY DEF VFS_read
<1>5. ASSUME OnDisk(node), NEW go, go = Where(node, off), ~RunsAway(go, n), NEW bad,
             Ran("read", node, off, n, ata_read(disk[UnitOf(node)], go, n, bad), bad)
      PROVE  ReadsSlice'
  BY <1>4, <1>5, DiskRead
<1>6. Where(node, off) = IF node[1] = "part" THEN mbr_read(node[2], off) ELSE off
  BY DEF Where, mbr_read
<1>7. ASSUME OnDisk(node) /\ (node[1] = "part" => mbr_bound(node[2], off, n)) /\ ~RunsAway(Where(node, off), n)
           /\ \E bad \in Failing : Ran("read", node, off, n, ata_read(disk[UnitOf(node)], Where(node, off), n, bad), bad)
      PROVE  ReadsSlice'
  <2>1. PICK bad : Ran("read", node, off, n, ata_read(disk[UnitOf(node)], Where(node, off), n, bad), bad)
    BY <1>7
  <2> QED BY <1>5, <1>7, <2>1
<1>8. ASSUME node = RAM /\ Ran("read", node, off, n, [total |-> n, data |-> [j \in 1..n |-> ram[off + j - 1]]], {})
      PROVE  ReadsSlice'
  BY <1>4, <1>8, RamRead
<1>9. ASSUME node = NULLDEV /\ Ran("read", node, off, n, Count(n), {})
      PROVE  ReadsSlice'
  BY <1>9 DEF Ran, ReadsSlice
<1>10. \/ Ran("read", node, off, n, Refuse, {})
       \/ /\ OnDisk(node) /\ (node[1] = "part" => mbr_bound(node[2], off, n)) /\ ~RunsAway(Where(node, off), n)
          /\ \E bad \in Failing : Ran("read", node, off, n, ata_read(disk[UnitOf(node)], Where(node, off), n, bad), bad)
       \/ node = RAM /\ Ran("read", node, off, n, [total |-> n, data |-> [j \in 1..n |-> ram[off + j - 1]]], {})
       \/ node = NULLDEV /\ Ran("read", node, off, n, Count(n), {})
  BY <1>6 DEF VFS_read
<1> QED BY <1>2, <1>3, <1>7, <1>8, <1>9, <1>10

\* VFS_write on a whole disk, and on the RAM disk
LEMMA UnitWrite ==
  ASSUME Shapes, NEW node \in Nodes, node[1] = "unit", NEW off \in Offsets, NEW n \in Sizes, ~RunsAway(off, n),
         NEW bad, NEW lost, NEW u, u = UnitOf(node),
         disk' = [disk EXCEPT ![u] = ata_write(@, off, n, bad, lost, calls)], ram' = ram,
         Ran("write", node, off, n, Count(ata_read(disk[u], off, n, {}).total), bad \cup lost)
  PROVE  WritesSlice'
<1>1. PICK t : t = ata_read(disk[u], off, n, {}).total
  OBVIOUS
<1>2. /\ call'.node = node /\ call'.off = off /\ call'.n = n /\ call'.total = t /\ call'.lost = bad \cup lost
      /\ call'.was.disk = disk /\ call'.was.ram = ram /\ calls' = calls + 1
  BY <1>1 DEF Ran, Count
<1>3. u \in Units /\ node = <<"unit", u>> /\ node # RAM
  BY DEF Nodes, UnitOf, RAM, NULLDEV
<1>4. SUFFICES ASSUME NoWrap'
               PROVE  /\ t = n
                      /\ \A v \in Units : \A b \in Bytes : Right(<<"unit", v>>, b, disk[v][b], call.was.disk[v][b])'
                      /\ \A b \in DOMAIN ram : Right(RAM, b, ram[b], call.was.ram[b])'
  BY <1>2 DEF WritesSlice
<1>5. \A k : Where(node, k)' = k
  BY <1>3 DEF Where
<1>6. off \in Nat /\ n \in Nat /\ InSpace(off, n)
  BY <1>2, <1>4, <1>5, CallSizes DEF NoWrap, InSpace
<1>7. t = n
  <2>1. \A D, lot : ata_read(D, off, n, lot).total = n
    BY <1>6, TotalIs
  <2> QED BY <1>1, <2>1, Zenon
<1>8. \A b \in Int : b \in Covered' <=> b \in off..off + n - 1
  <2>1. Covered' = {off + j - 1 : j \in 1..n}
    BY <1>2, <1>5 DEF Covered
  <2>2. ASSUME NEW b \in Int, b \in off..off + n - 1 PROVE \E j \in 1..n : b = off + j - 1
    <3>1. b - off + 1 \in 1..n /\ off + (b - off + 1) - 1 = b
      BY <1>6, <2>2
    <3> QED BY <3>1
  <2>3. ASSUME NEW j \in 1..n PROVE off + j - 1 \in off..off + n - 1
    BY <1>6
  <2> QED BY <2>1, <2>2, <2>3
<1>9. ASSUME NEW b \in DOMAIN ram PROVE Right(RAM, b, ram[b], call.was.ram[b])'
  BY <1>2, <1>3 DEF Right
<1>10. ASSUME NEW v \in Units, NEW b \in Bytes PROVE Right(<<"unit", v>>, b, disk[v][b], call.was.disk[v][b])'
  <2>1. CASE v # u
    BY <1>2, <1>3, <2>1 DEF Right, Shapes
  <2>2. CASE v = u
    <3>1. PICK now, old : now = disk'[u][b] /\ old = disk[u][b]
      OBVIOUS
    <3>2. now = ata_write(disk[u], off, n, bad, lost, calls)[b]
      BY <1>3, <3>1 DEF Shapes
    <3>3. IF b \in off..off + n - 1 THEN now = New(calls, b - off) \/ b \div SECTOR_SIZE \in lost
          ELSE now = old \/ b \div SECTOR_SIZE \in bad \cup lost
      BY <1>6, <3>1, <3>2, WriteIs
    <3>4. b \in Int /\ calls' - 1 = calls
      BY <1>2 DEF Bytes, Shapes
    <3>5. Known(b)' <=> b \div SECTOR_SIZE \notin bad \cup lost
      BY <1>2 DEF Known
    <3>6. b \in Covered' <=> b \in off..off + n - 1
      BY <1>8, <3>4
    <3>7. IF b \in Covered' THEN now = <<"new", calls' - 1, b - off>> \/ ~Known(b)' ELSE now = old \/ ~Known(b)'
      BY <3>3, <3>4, <3>5, <3>6 DEF New
    <3> QED BY <1>2, <1>3, <2>2, <3>1, <3>7, Zenon DEF Right
  <2> QED BY <2>1, <2>2
<1> QED BY <1>7, <1>9, <1>10

LEMMA RamWrite ==
  ASSUME Shapes, NEW off \in Offsets, NEW n \in Sizes, RamInside(off, n), disk' = disk,
         ram' = [b \in DOMAIN ram |-> IF b \in off..off + n - 1 THEN New(calls, b - off) ELSE ram[b]],
         Ran("write", RAM, off, n, Count(n), {})
  PROVE  WritesSlice'
<1>1. /\ call'.node = RAM /\ call'.off = off /\ call'.n = n /\ call'.total = n
      /\ call'.was.disk = disk /\ call'.was.ram = ram /\ calls' = calls + 1
  BY DEF Ran, Count
<1>2. off \in Nat /\ n \in Nat
  BY CallSizes
<1>3. \A k : Where(RAM, k)' = k
  BY DEF Where, RAM
<1>4. \A b \in Int : b \in Covered' <=> b \in off..off + n - 1
  <2>1. Covered' = {off + j - 1 : j \in 1..n}
    BY <1>1, <1>3 DEF Covered
  <2>2. ASSUME NEW b \in Int, b \in off..off + n - 1 PROVE \E j \in 1..n : b = off + j - 1
    <3>1. b - off + 1 \in 1..n /\ off + (b - off + 1) - 1 = b
      BY <1>2, <2>2
    <3> QED BY <3>1
  <2>3. ASSUME NEW j \in 1..n PROVE off + j - 1 \in off..off + n - 1
    BY <1>2
  <2> QED BY <2>1, <2>2, <2>3
<1>5. ASSUME NEW v \in Units, NEW b \in Bytes PROVE Right(<<"unit", v>>, b, disk[v][b], call.was.disk[v][b])'
  BY <1>1 DEF Right, RAM
<1>6. ASSUME NEW b \in DOMAIN ram' PROVE Right(RAM, b, ram[b], call.was.ram[b])'
  <2>1. b \in DOMAIN ram /\ b \in Int /\ calls' - 1 = calls
    BY <1>1 DEF Shapes
  <2>2. ram'[b] = IF b \in off..off + n - 1 THEN <<"new", calls' - 1, b - off>> ELSE ram[b]
    BY <2>1 DEF New
  <2> QED BY <1>1, <1>4, <2>1, <2>2 DEF Right
<1> QED BY <1>1, <1>5, <1>6 DEF WritesSlice

LEMMA Writing ==
  ASSUME Shapes, NEW node \in Nodes, NEW off \in Offsets, NEW n \in Sizes, VFS_write(node, off, n)
  PROVE  ReadsSlice' /\ WritesSlice'
<1>1. call'.op = "write" /\ call'.node = node
  BY DEF VFS_write, Ran
<1>2. ReadsSlice'
  BY <1>1 DEF ReadsSlice
<1>3. ASSUME Ran("write", node, off, n, Refuse, {}) PROVE WritesSlice'
  BY <1>3 DEF Ran, Refuse, WritesSlice
<1>4. ASSUME node[1] \in {"part", "null"} PROVE WritesSlice'
  BY <1>1, <1>4 DEF WritesSlice
<1>5. ASSUME node[1] = "unit", ~RunsAway(off, n), ram' = ram, NEW bad, NEW lost,
             disk' = [disk EXCEPT ![UnitOf(node)] = ata_write(@, off, n, bad, lost, calls)],
             Ran("write", node, off, n, Count(ata_read(disk[UnitOf(node)], off, n, {}).total), bad \cup lost)
      PROVE  WritesSlice'
  BY <1>5, UnitWrite
<1>6. ASSUME node = RAM, RamInside(off, n), disk' = disk,
             ram' = [b \in DOMAIN ram |-> IF b \in off..off + n - 1 THEN New(calls, b - off) ELSE ram[b]],
             Ran("write", RAM, off, n, Count(n), {})
      PROVE  WritesSlice'
  BY <1>6, RamWrite
<1>7. CASE node[1] = "unit"
  <2>1. \/ Ran("write", node, off, n, Refuse, {})
        \/ /\ ~RunsAway(off, n) /\ ram' = ram
           /\ \E bad, lost \in Failing :
                /\ disk' = [disk EXCEPT ![UnitOf(node)] = ata_write(@, off, n, bad, lost, calls)]
                /\ Ran("write", node, off, n, Count(ata_read(disk[UnitOf(node)], off, n, {}).total), bad \cup lost)
    <3>1. node # RAM /\ node # NULLDEV /\ node[1] # "part"
      BY <1>7 DEF RAM, NULLDEV
    <3>2. PICK go, u : go = (IF node[1] = "part" THEN mbr_write(node[2], off) ELSE off) /\ u = UnitOf(node)
      OBVIOUS
    <3>3. go = off
      BY <3>1, <3>2
    <3>4. \/ Ran("write", node, off, n, Refuse, {})
          \/ /\ ~RunsAway(go, n) /\ ram' = ram
             /\ \E bad, lost \in Failing :
                  /\ disk' = [disk EXCEPT ![u] = ata_write(@, go, n, bad, lost, calls)]
                  /\ Ran("write", node, off, n, Count(ata_read(disk[u], go, n, {}).total), bad \cup lost)
      BY <3>1, <3>2, Zenon DEF VFS_write
    <3> QED BY <3>2, <3>3, <3>4, Zenon
  <2>2. CASE Ran("write", node, off, n, Refuse, {})
    BY <1>2, <1>3, <2>2
  <2>3. CASE /\ ~RunsAway(off, n) /\ ram' = ram
             /\ \E bad, lost \in Failing :
                  /\ disk' = [disk EXCEPT ![UnitOf(node)] = ata_write(@, off, n, bad, lost, calls)]
                  /\ Ran("write", node, off, n, Count(ata_read(disk[UnitOf(node)], off, n, {}).total), bad \cup lost)
    <3>1. PICK bad, lost \in Failing :
             /\ disk' = [disk EXCEPT ![UnitOf(node)] = ata_write(@, off, n, bad, lost, calls)]
             /\ Ran("write", node, off, n, Count(ata_read(disk[UnitOf(node)], off, n, {}).total), bad \cup lost)
      BY <2>3
    <3>2. WritesSlice'
      BY <1>5, <1>7, <2>3, <3>1
    <3> QED BY <1>2, <3>2
  <2> QED BY <2>1, <2>2, <2>3
<1>8. CASE node = RAM
  <2>1. \/ Ran("write", node, off, n, Refuse, {})
        \/ /\ RamInside(off, n) /\ disk' = disk
           /\ ram' = [b \in DOMAIN ram |-> IF b \in off..off + n - 1 THEN New(calls, b - off) ELSE ram[b]]
           /\ Ran("write", RAM, off, n, Count(n), {})
    BY <1>8 DEF VFS_write, RAM, NULLDEV, OnDisk
  <2>2. WritesSlice'
    BY <1>3, <1>6, <1>8, <2>1
  <2> QED BY <1>2, <2>2
<1>9. node[1] \in {"part", "null"} \/ node[1] = "unit" \/ node = RAM
  BY DEF Nodes, NULLDEV
<1> QED BY <1>2, <1>4, <1>7, <1>8, <1>9

\* what a call leaves alone
LEMMA CallShapes ==
  ASSUME Shapes, NEW node \in Nodes, NEW off \in Offsets, NEW n \in Sizes,
         VFS_read(node, off, n) \/ VFS_write(node, off, n)
  PROVE  Shapes'
<1>1. up = Cardinality(Units) /\ up' = up /\ parts' = parts /\ calls' = calls + 1
  BY DEF VFS_read, VFS_write, Ran, Ready
<1>2. DOMAIN ram' = DOMAIN ram
  BY DEF VFS_read, VFS_write
<1>3. disk' = disk \/ \E u, go, bad, lost : disk' = [disk EXCEPT ![u] = ata_write(@, go, n, bad, lost, calls)]
  <2>1. CASE VFS_read(node, off, n)
    BY <2>1 DEF VFS_read
  <2>2. CASE VFS_write(node, off, n)
    BY <2>2 DEF VFS_write
  <2> QED BY <2>1, <2>2
<1>4. \A D, go, bad, lost : DOMAIN ata_write(D, go, n, bad, lost, calls) = Bytes
  BY DEF ata_write
<1>5. DOMAIN disk' = Units /\ \A u \in Units : DOMAIN disk'[u] = Bytes
  <2>1. CASE disk' = disk
    BY <2>1 DEF Shapes
  <2>2. CASE disk' # disk
    <3>1. PICK u, go, bad, lost : disk' = [disk EXCEPT ![u] = ata_write(@, go, n, bad, lost, calls)]
      BY <1>3, <2>2
    <3>2. PICK d : d = ata_write(disk[u], go, n, bad, lost, calls) /\ DOMAIN d = Bytes
      BY <1>4
    <3>3. disk' = [disk EXCEPT ![u] = d]
      BY <3>1, <3>2, Zenon
    <3> QED BY <3>2, <3>3 DEF Shapes
  <2> QED BY <2>1, <2>2
<1> QED BY <1>1, <1>2, <1>5 DEF Shapes, PartsOk

\* the entries that a partition table gives
LEMMA Probed ==
  ASSUME NEW u \in Units, NEW fifth \in Beyond
  PROVE  \A p \in DOMAIN probe_partitions(u, fifth) :
           p[1] \in Units /\ probe_partitions(u, fifth)[p].start \in Nat
<1> DEFINE E == [id : Nat, start : Nat, length : Nat]
<1>1. PICK t : t = IF Table[u] = NoTable THEN <<>> ELSE Append(Table[u], fifth)
  OBVIOUS
<1>2. t \in Seq(E)
  <2>1. fifth \in E /\ (Table[u] = "no table" \/ Table[u] \in Seq(E))
    BY BlocksAssumption DEF Units
  <2> HIDE DEF E
  <2>2. CASE Table[u] = "no table"
    <3>1. t = << >>
      BY <1>1, <2>2, Zenon DEF NoTable
    <3> QED BY <3>1
  <2>3. CASE Table[u] # "no table"
    <3>1. PICK s \in Seq(E) : s = Table[u]
      BY <2>1, <2>3
    <3>2. t = Append(s, fifth)
      BY <1>1, <2>3, <3>1, Zenon DEF NoTable
    <3>3. Append(s, fifth) \in Seq(E)
      BY <2>1, AppendProperties
    <3> QED BY <3>2, <3>3
  <2> QED BY <2>2, <2>3
<1>3. probe_partitions(u, fifth) =
        [k \in {<<u, i - 1>> : i \in {i \in DOMAIN t : t[i].id # 0}} |-> [start |-> t[k[2] + 1].start, length |-> t[k[2] + 1].length]]
  BY <1>1, Zenon DEF probe_partitions
<1>4. PICK f : f = probe_partitions(u, fifth)
  OBVIOUS
<1>5. ASSUME NEW p \in DOMAIN f PROVE p[1] \in Units /\ f[p].start \in Nat
  <2>1. DOMAIN f = {<<u, i - 1>> : i \in {i \in DOMAIN t : t[i].id # 0}}
    BY <1>3, <1>4, Zenon
  <2>2. PICK i \in DOMAIN t : p = <<u, i - 1>>
    BY <1>5, <2>1
  <2>3. i \in Int /\ t[i] \in E
    <3> HIDE DEF E
    <3> QED BY <1>2, <2>2
  <2>4. p[1] = u /\ p[2] + 1 = i
    BY <2>2, <2>3
  <2>5. f[p] = [start |-> t[p[2] + 1].start, length |-> t[p[2] + 1].length]
    BY <1>3, <1>4, <1>5, <2>1, Zenon
  <2> QED BY <2>3, <2>4, <2>5
<1> QED BY <1>4, <1>5

LEMMA Identified ==
  ASSUME Shapes, identify
  PROVE  Shapes' /\ call' = NoCall
<1>1. /\ up # Cardinality(Units) /\ up' = up + 1 /\ up \in Units /\ call' = NoCall
      /\ UNCHANGED <<driver, answers, disk, ram, call, calls>>
  BY FourUnits DEF identify, Shapes, Units
<1>2. PICK new \in Probes(up) :
        parts' = [p \in DOMAIN parts \cup DOMAIN new |-> IF p \in DOMAIN parts THEN parts[p] ELSE new[p]]
  BY DEF identify
<1>3. sprintf(up) \subseteq Units
  BY <1>1 DEF sprintf, Units
<1>4. \A p \in DOMAIN new : p[1] \in Units /\ new[p].start \in Nat
  <2>1. CASE new = NoParts
    BY <2>1 DEF NoParts
  <2>2. CASE new # NoParts
    <3>1. PICK v \in sprintf(up), fifth \in Beyond : new = probe_partitions(v, fifth)
      BY <1>2, <2>2 DEF Probes
    <3> QED BY <1>3, <3>1, Probed
  <2> QED BY <2>1, <2>2
<1>5. PartsOk'
  BY <1>2, <1>4 DEF Shapes, PartsOk
<1> QED BY <1>1, <1>5 DEF Shapes

LEMMA BlocksStart == BlocksInit => BlocksInv
<1> SUFFICES ASSUME BlocksInit PROVE BlocksInv
  OBVIOUS
<1>1. call.op = "none"
  BY DEF BlocksInit, NoCall
<1>2. ReadsSlice /\ WritesSlice
  BY <1>1 DEF ReadsSlice, WritesSlice
<1>3. Shapes
  BY DEF BlocksInit, Shapes, PartsOk, NoParts
<1> QED BY <1>2, <1>3 DEF BlocksInv

LEMMA BlocksKeeps == BlocksInv /\ [BlocksNext]_bvars => BlocksInv'
<1> SUFFICES ASSUME BlocksInv, [BlocksNext]_bvars PROVE BlocksInv'
  OBVIOUS
<1>1. Shapes /\ ReadsSlice /\ WritesSlice
  BY DEF BlocksInv
<1>2. ASSUME call' = NoCall PROVE ReadsSlice' /\ WritesSlice'
  <2>1. call'.op = "none"
    BY <1>2 DEF NoCall
  <2> QED BY <2>1 DEF ReadsSlice, WritesSlice
<1>3. CASE identify
  BY <1>1, <1>2, <1>3, Identified DEF BlocksInv
<1>4. CASE \E node \in Nodes, off \in Offsets, n \in Sizes : VFS_read(node, off, n) \/ VFS_write(node, off, n)
  <2>1. PICK node \in Nodes, off \in Offsets, n \in Sizes : VFS_read(node, off, n) \/ VFS_write(node, off, n)
    BY <1>4
  <2>2. Shapes'
    BY <1>1, <2>1, CallShapes
  <2>3. ReadsSlice' /\ WritesSlice'
    BY <1>1, <2>1, Reading, Writing
  <2> QED BY <2>2, <2>3 DEF BlocksInv
<1>5. CASE ramdisk_destroy
  <2>1. call' = NoCall /\ UNCHANGED <<driver, answers, up, parts, disk, ram, calls>>
    BY <1>5 DEF ramdisk_destroy
  <2>2. Shapes'
    BY <1>1, <2>1 DEF Shapes, PartsOk
  <2> QED BY <1>2, <2>1, <2>2 DEF BlocksInv
<1>6. CASE UNCHANGED bvars
  <2>1. UNCHANGED <<up, parts, disk, ram, call, calls>>
    BY <1>6 DEF bvars
  <2>2. Shapes'
    BY <1>1, <2>1, SMTT(30) DEF Shapes, PartsOk
  <2>3. ReadsSlice'
    BY <1>1, <2>1 DEF ReadsSlice, NoWrap, Where, Known, Holds, UnitOf
  <2>4. WritesSlice'
    BY <1>1, <2>1 DEF WritesSlice, NoWrap, Where, Known, Right, Covered
  <2> QED BY <2>2, <2>3, <2>4 DEF BlocksInv
<1> QED BY <1>3, <1>4, <1>5, <1>6 DEF BlocksNext

\* A read that is not refused returns, byte for byte, the slice of the disk, partition or RAM disk
\* that was asked for: the sector loops of ata_read and ata_pio_read, for every offset and length
\* that does not pass the end of the address space, junk only in the sectors that fail.
THEOREM SlicesRead == BlocksSpec => []ReadsSlice
<1>1. BlocksInv => ReadsSlice
  BY DEF BlocksInv
<1> QED BY <1>1, BlocksStart, BlocksKeeps, PTL DEF BlocksSpec

\* A write to a disk or to the RAM disk changes the bytes asked for and no others, but in sectors
\* whose reading or writing fails on the way (ata_write, ata_pio_write, ramdisk_write).
THEOREM SlicesWritten == BlocksSpec => []WritesSlice
<1>1. BlocksInv => WritesSlice
  BY DEF BlocksInv
<1> QED BY <1>1, BlocksStart, BlocksKeeps, PTL DEF BlocksSpec

-----------------------------------------------------------------------------
(* The block map of EXT2. The number of block i is in the inode, or below one, two or three levels
   of indirect blocks: i is written with digits in base PerBlock. *)

Capacity == DIRECT + PerBlock + PerBlock * PerBlock + PerBlock * PerBlock * PerBlock
IsSlot(i, s) ==
  \/ i \in 0..DIRECT - 1 /\ s = <<i>>
  \/ \E a \in Entries : i = DIRECT + a /\ s = <<DIRECT, a>>
  \/ \E a, b \in Entries : i = DIRECT + PerBlock + a * PerBlock + b /\ s = <<DIRECT + 1, a, b>>
  \/ \E a, b, c \in Entries :
       /\ i = DIRECT + PerBlock + PerBlock * PerBlock + a * (PerBlock * PerBlock) + b * PerBlock + c
       /\ s = <<DIRECT + 2, a, b, c>>

\* DIRECT and the powers of PerBlock
Powers(D, K, Q, W) ==
  /\ D = DIRECT /\ K = PerBlock /\ Q = K * K /\ W = K * K * K /\ W = K * Q
  /\ D \in Nat /\ K \in Nat \ {0} /\ Q \in Nat \ {0} /\ W \in Nat \ {0}
LEMMA PowersAre == \E D, K, Q, W : Powers(D, K, Q, W)
<1>1. PICK D \in Nat, K \in Nat \ {0} : D = DIRECT /\ K = PerBlock
  BY FilesAssumption
<1>2. PICK Q : Q = K * K /\ Q \in Nat \ {0}
  OBVIOUS
<1>3. K * Q \in Nat \ {0} /\ K * K * K = K * Q
  BY <1>2
<1> QED BY <1>1, <1>2, <1>3 DEF Powers

LEMMA Monotone ==
  ASSUME NEW K \in Nat, NEW a \in Int, NEW b \in Int, a < b
  PROVE  a * K + K <= b * K /\ a * K \in Int /\ b * K \in Int
<1>1. (a + 1) * K <= b * K
  OBVIOUS
<1>2. (a + 1) * K = a * K + K
  OBVIOUS
<1> QED BY <1>1, <1>2

LEMMA QuotientIs ==
  ASSUME NEW K \in Nat \ {0}, NEW q \in Int, NEW r \in 0..K - 1, NEW t \in Int, t = q * K + r
  PROVE  t \div K = q /\ t % K = r
<1>1. PICK d \in Int, m \in 0..K - 1 : d = t \div K /\ m = t % K /\ t = d * K + m
  <2>1. t \div K \in Int /\ t % K \in 0..K - 1
    OBVIOUS
  <2>2. t = (t \div K) * K + (t % K)
    OBVIOUS
  <2> QED BY <2>1, <2>2
<1>2. CASE d < q
  <2>1. d * K + K <= q * K /\ d * K \in Int /\ q * K \in Int
    BY <1>2, Monotone
  <2> QED BY <1>1, <2>1
<1>3. CASE q < d
  <2>1. q * K + K <= d * K /\ d * K \in Int /\ q * K \in Int
    BY <1>3, Monotone
  <2> QED BY <1>1, <2>1
<1>4. CASE q = d
  BY <1>1, <1>4
<1> QED BY <1>2, <1>3, <1>4

\* a number of three digits, or of two
LEMMA Digits ==
  ASSUME NEW D, NEW K, NEW Q, NEW W, Powers(D, K, Q, W), NEW a \in 0..K - 1, NEW b \in 0..K - 1, NEW c \in 0..K - 1
  PROVE  /\ a * K + b \in 0..Q - 1
         /\ a * Q + b * K + c \in 0..W - 1
         /\ a * K \in Nat /\ a * Q \in Nat /\ b * K \in Nat
<1>1. Q = K * K /\ W = K * Q /\ K \in Nat \ {0} /\ Q \in Nat \ {0}
  BY DEF Powers
<1>2. \A x \in 0..K - 1 : x * K + K <= Q /\ x * K \in Nat
  <2>1. SUFFICES ASSUME NEW x \in 0..K - 1 PROVE x * K + K <= Q /\ x * K \in Nat
    OBVIOUS
  <2>2. x \in Nat /\ x < K
    BY <1>1
  <2>3. x * K + K <= K * K
    BY <1>1, <2>2, Monotone
  <2>4. x * K \in Nat
    BY <1>1, <2>2
  <2> QED BY <1>1, <2>3, <2>4
<1>3. a * Q + Q <= W /\ a * Q \in Nat
  <2>1. a \in Nat /\ a < K
    BY <1>1
  <2>2. a * Q + Q <= K * Q
    BY <1>1, <2>1, Monotone
  <2>3. a * Q \in Nat
    BY <1>1, <2>1
  <2> QED BY <1>1, <2>2, <2>3
<1>4. b * K + c \in 0..Q - 1 /\ a * K + b \in 0..Q - 1
  <2>1. PICK aK \in Nat, bK \in Nat : aK = a * K /\ bK = b * K /\ aK + K <= Q /\ bK + K <= Q
    BY <1>2
  <2>2. bK + c \in 0..Q - 1 /\ aK + b \in 0..Q - 1
    BY <1>1, <2>1
  <2> QED BY <2>1, <2>2
<1>5. a * Q + b * K + c \in 0..W - 1
  <2>1. PICK aQ \in Nat, bK \in Nat : aQ = a * Q /\ bK = b * K /\ aQ + Q <= W /\ bK + c \in 0..Q - 1
    BY <1>2, <1>3, <1>4
  <2>2. aQ + bK + c \in 0..W - 1
    BY <1>1, <2>1
  <2> QED BY <2>1, <2>2
<1> QED BY <1>2, <1>3, <1>4, <1>5

\* get_DBlock_num finds these digits.
LEMMA DigitsOf ==
  ASSUME NEW D, NEW K, NEW Q, NEW W, Powers(D, K, Q, W), NEW i \in Nat
  PROVE  LET s == get_DBlock_num(i) IN
         /\ i < Capacity => IsSlot(i, s)
         /\ i >= Capacity => \E e, f, g : s = <<DIRECT + 2, e, f, g>> /\ e \notin Entries
<1>1. /\ D = DIRECT /\ K = PerBlock /\ Q = K * K /\ W = K * K * K /\ W = K * Q /\ D \in Nat
      /\ K \in Nat \ {0} /\ Q \in Nat \ {0} /\ W \in Nat \ {0} /\ Entries = 0..K - 1 /\ Capacity = D + K + Q + W
  BY DEF Powers, Entries, Capacity
<1>2. PICK a \in Int, b \in Int, c \in Int : a = i - D /\ b = a - K /\ c = b - Q
  BY <1>1
<1>3. PICK s : s = get_DBlock_num(i)
  OBVIOUS
<1>4. CASE a < 0
  <2>1. s = <<i>> /\ i \in 0..D - 1 /\ i < Capacity
    BY <1>1, <1>2, <1>3, <1>4 DEF get_DBlock_num
  <2> QED BY <1>1, <1>3, <2>1 DEF IsSlot
<1>5. CASE a >= 0 /\ b < 0
  <2>1. s = <<D, a>>
    BY <1>1, <1>2, <1>3, <1>5 DEF get_DBlock_num
  <2>2. a \in 0..K - 1 /\ i = D + a /\ i < Capacity
    BY <1>1, <1>2, <1>5
  <2> QED BY <1>1, <1>3, <2>1, <2>2 DEF IsSlot
<1>6. CASE a >= 0 /\ b >= 0 /\ c < 0
  <2>1. PICK u \in Nat, v \in 0..K - 1 : u = b \div K /\ v = b % K /\ b = u * K + v
    <3>1. b \in Nat /\ K \in Nat \ {0}
      BY <1>1, <1>6
    <3>2. b \div K \in Nat /\ b % K \in 0..K - 1 /\ b = (b \div K) * K + (b % K)
      BY <3>1, Quotient
    <3> QED BY <3>2, Zenon
  <2>2. s = <<D + 1, u, b - u * K>>
    BY <1>1, <1>2, <1>3, <1>6, <2>1 DEF get_DBlock_num
  <2>3. b - u * K = v
    BY <1>1, <2>1
  <2>4. u < K
    <3>1. SUFFICES ASSUME K < u \/ K = u PROVE FALSE
      BY <1>1
    <3>2. K * K <= u * K
      <4>1. K < u => K * K + K <= u * K /\ K * K \in Int /\ u * K \in Int
        BY <1>1, <2>1, Monotone
      <4>2. K * K \in Int /\ u * K \in Int
        BY <1>1
      <4> QED BY <1>1, <3>1, <4>1, <4>2
    <3>3. PICK uK \in Int : uK = u * K
      BY <1>1
    <3> QED BY <1>1, <1>2, <1>6, <2>1, <3>2, <3>3
  <2>5. u \in Entries /\ v \in Entries /\ i = D + K + u * K + v /\ i < Capacity
    <3>1. PICK uK \in Int : uK = u * K
      BY <1>1
    <3> QED BY <1>1, <1>2, <1>6, <2>1, <2>4, <3>1
  <2> QED BY <1>1, <1>3, <2>2, <2>3, <2>5 DEF IsSlot
<1>7. CASE a >= 0 /\ b >= 0 /\ c >= 0
  <2>1. PICK u \in Nat, x \in 0..Q - 1 : u = c \div Q /\ x = c % Q /\ c = u * Q + x
    <3>1. c \in Nat /\ Q \in Nat \ {0}
      BY <1>1, <1>7
    <3>2. c \div Q \in Nat /\ c % Q \in 0..Q - 1 /\ c = (c \div Q) * Q + (c % Q)
      BY <3>1, Quotient
    <3> QED BY <3>2, Zenon
  <2>2. u * K * K = u * Q
    BY <1>1
  <2>3. PICK uQ \in Int : uQ = u * Q
    BY <1>1
  <2>4. c - u * K * K = x
    BY <1>1, <2>1, <2>2, <2>3
  <2>5. PICK v \in Nat, z \in 0..K - 1 : v = x \div K /\ z = x % K /\ x = v * K + z
    <3>1. x \in Nat /\ K \in Nat \ {0}
      BY <1>1, <2>1
    <3>2. x \div K \in Nat /\ x % K \in 0..K - 1 /\ x = (x \div K) * K + (x % K)
      BY <3>1, Quotient
    <3> QED BY <3>2, Zenon
  <2>7. PICK vK \in Int : vK = v * K
    BY <1>1
  <2>14. c = uQ + x /\ x \in 0..Q - 1 /\ u \in Nat
    BY <2>1, <2>3, Zenon
  <2>15. x = vK + z /\ z \in 0..K - 1 /\ v \in Nat
    BY <2>5, <2>7, Zenon
  <2>8. c - u * K * K - v * K = z
    <3>1. c - u * K * K - v * K = x - v * K
      BY <2>4
    <3> QED BY <1>1, <2>7, <2>14, <2>15, <3>1
  <2>6. s = <<D + 2, u, v, c - u * K * K - v * K>>
    <3>1. s = IF a < 0 THEN <<i>>
              ELSE IF b < 0 THEN <<D, a>>
              ELSE IF c < 0 THEN <<D + 1, b \div K, b - (b \div K) * K>>
              ELSE <<D + 2, c \div Q, (c - (c \div Q) * K * K) \div K,
                     c - (c \div Q) * K * K - ((c - (c \div Q) * K * K) \div K) * K>>
      BY <1>1, <1>2, <1>3, Zenon DEF get_DBlock_num
    <3>2. s = IF a < 0 THEN <<i>>
              ELSE IF b < 0 THEN <<D, a>>
              ELSE IF c < 0 THEN <<D + 1, b \div K, b - (b \div K) * K>>
              ELSE <<D + 2, u, v, c - u * K * K - v * K>>
      BY <2>1, <2>4, <2>5, <3>1, Zenon
    <3>3. ~(a < 0) /\ ~(b < 0) /\ ~(c < 0)
      BY <1>7
    <3> QED BY <3>2, <3>3, Zenon
  <2>9. v < K
    <3>1. SUFFICES ASSUME K < v \/ K = v PROVE FALSE
      BY <1>1
    <3>2. K * K <= vK
      <4>1. K < v => K * K + K <= v * K /\ K * K \in Int /\ v * K \in Int
        BY <1>1, <2>5, Monotone
      <4> QED BY <1>1, <2>7, <3>1, <4>1
    <3>3. Q <= vK /\ x = vK + z /\ x < Q /\ z >= 0 /\ x \in Int /\ z \in Int
      BY <1>1, <2>7, <2>14, <2>15, <3>2
    <3> QED BY <1>1, <2>7, <3>3
  <2>10. s = <<D + 2, u, v, z>> /\ i = D + K + Q + u * Q + v * K + z
    <3>1. s = <<D + 2, u, v, z>>
      BY <2>6, <2>8, Zenon
    <3>2. x = vK + z /\ c = uQ + x /\ i = D + K + Q + c /\ z \in Int /\ x \in Int
      BY <1>1, <1>2, <2>3, <2>7, <2>14, <2>15
    <3>3. i = D + K + Q + uQ + vK + z
      BY <1>1, <2>3, <2>7, <3>2
    <3> QED BY <2>3, <2>7, <3>1, <3>3, Zenon
  <2>11. u < K <=> i < Capacity
    <3>1. CASE u < K
      <4>1. u * Q + Q <= K * Q
        <5>1. Q \in Nat /\ u \in Int /\ K \in Int /\ u < K
          BY <1>1, <2>1, <3>1
        <5> QED BY <5>1, Monotone
      <4>2. uQ + Q <= W /\ c = uQ + x /\ x < Q /\ x \in Int /\ i = D + K + Q + c
        BY <1>1, <1>2, <2>3, <2>14, <4>1
      <4> QED BY <1>1, <2>3, <3>1, <4>2
    <3>2. CASE K < u \/ K = u
      <4>1. K < u => K * Q + Q <= u * Q /\ K * Q \in Int /\ u * Q \in Int
        <5>1. Q \in Nat /\ u \in Int /\ K \in Int
          BY <1>1, <2>1
        <5> QED BY <5>1, Monotone
      <4>2. K = u => u * Q = K * Q
        OBVIOUS
      <4>3. W <= uQ
        BY <1>1, <2>3, <3>2, <4>1, <4>2
      <4>4. W <= uQ /\ c = uQ + x /\ x >= 0 /\ x \in Int /\ i = D + K + Q + c
        BY <1>1, <1>2, <2>3, <2>14, <4>3
      <4> QED BY <1>1, <2>3, <3>2, <4>4
    <3> QED BY <1>1, <3>1, <3>2
  <2>12. CASE u < K
    <3>1. u \in Entries /\ v \in Entries /\ z \in Entries
      BY <1>1, <2>9, <2>12
    <3>2. i = DIRECT + PerBlock + PerBlock * PerBlock + u * (PerBlock * PerBlock) + v * PerBlock + z
      BY <1>1, <2>10
    <3>3. s = <<DIRECT + 2, u, v, z>>
      BY <1>1, <2>10
    <3>4. IsSlot(i, s)
      BY <3>1, <3>2, <3>3, Zenon DEF IsSlot
    <3>5. ~(i >= Capacity)
      BY <1>1, <2>11, <2>12
    <3> QED BY <1>3, <3>4, <3>5
  <2>13. CASE ~(u < K)
    <3>1. u \notin Entries /\ s = <<DIRECT + 2, u, v, z>> /\ ~(i < Capacity)
      BY <1>1, <2>10, <2>11, <2>13
    <3> QED BY <1>3, <3>1
  <2> QED BY <2>12, <2>13
<1> QED BY <1>2, <1>4, <1>5, <1>6, <1>7

LEMMA SlotIn ==
  ASSUME NEW i, NEW s, IsSlot(i, s)
  PROVE  s \in Slots /\ i \in 0..Capacity - 1
<1>0. PICK D, K, Q, W : Powers(D, K, Q, W)
  BY PowersAre
<1>1. /\ D = DIRECT /\ K = PerBlock /\ Q = K * K /\ W = K * K * K /\ D \in Nat
      /\ K \in Nat \ {0} /\ Q \in Nat \ {0} /\ W \in Nat \ {0} /\ Entries = 0..K - 1 /\ Capacity = D + K + Q + W
  BY <1>0 DEF Powers, Entries, Capacity
<1>2. CASE i \in 0..DIRECT - 1 /\ s = <<i>>
  BY <1>1, <1>2 DEF Slots
<1>3. CASE \E a \in Entries : i = DIRECT + a /\ s = <<DIRECT, a>>
  BY <1>1, <1>3 DEF Slots
<1>4. CASE \E a, b \in Entries : i = DIRECT + PerBlock + a * PerBlock + b /\ s = <<DIRECT + 1, a, b>>
  <2>1. PICK a, b : a \in Entries /\ b \in Entries /\ i = D + K + a * K + b /\ s = <<D + 1, a, b>>
    BY <1>1, <1>4
  <2>2. a * K + b \in 0..Q - 1 /\ a * K \in Nat
    BY <1>0, <1>1, <2>1, Digits
  <2>3. i \in 0..Capacity - 1
    BY <1>1, <2>1, <2>2
  <2> QED BY <1>1, <2>1, <2>3 DEF Slots
<1>5. CASE \E a, b, c \in Entries :
             /\ i = DIRECT + PerBlock + PerBlock * PerBlock + a * (PerBlock * PerBlock) + b * PerBlock + c
             /\ s = <<DIRECT + 2, a, b, c>>
  <2>1. PICK a, b, c : /\ a \in Entries /\ b \in Entries /\ c \in Entries
                       /\ i = D + K + Q + a * Q + b * K + c /\ s = <<D + 2, a, b, c>>
    BY <1>1, <1>5
  <2>2. a * Q + b * K + c \in 0..W - 1 /\ a * Q \in Nat /\ b * K \in Nat
    <3>1. Powers(D, K, Q, W) /\ a \in 0..K - 1 /\ b \in 0..K - 1 /\ c \in 0..K - 1
      BY <1>0, <1>1, <2>1
    <3> QED BY <3>1, Digits, ZenonT(60)
  <2>3. i \in 0..Capacity - 1
    <3>1. PICK y \in Nat : y = a * Q + b * K
      BY <2>2
    <3>2. i = D + K + Q + (y + c) /\ y + c \in 0..W - 1 /\ c \in Nat
      BY <1>1, <2>1, <2>2, <3>1
    <3> QED BY <1>1, <3>1, <3>2
  <2> QED BY <1>1, <2>1, <2>3 DEF Slots
<1> QED BY <1>2, <1>3, <1>4, <1>5 DEF IsSlot

LEMMA SlotFrom ==
  ASSUME NEW s \in Slots
  PROVE  \E i \in 0..Capacity - 1 : IsSlot(i, s)
<1>1. SUFFICES \E i : IsSlot(i, s)
  BY SlotIn, Zenon
<1>2. CASE s \in {<<i>> : i \in 0..DIRECT - 1}
  BY <1>2 DEF IsSlot
<1>3. CASE s \in {DIRECT} \X Entries
  <2>1. PICK a \in Entries : s = <<DIRECT, a>>
    BY <1>3
  <2> QED BY <2>1 DEF IsSlot
<1>4. CASE s \in {DIRECT + 1} \X Entries \X Entries
  <2>1. PICK a, b : a \in Entries /\ b \in Entries /\ s = <<DIRECT + 1, a, b>>
    BY <1>4
  <2> QED BY <2>1 DEF IsSlot
<1>5. CASE s \in {DIRECT + 2} \X Entries \X Entries \X Entries
  <2>1. PICK a, b, c : a \in Entries /\ b \in Entries /\ c \in Entries /\ s = <<DIRECT + 2, a, b, c>>
    BY <1>5
  <2> QED BY <2>1, Zenon DEF IsSlot
<1> QED BY <1>2, <1>3, <1>4, <1>5 DEF Slots
\* No two blocks share a slot, and the slots of earlier blocks come earlier.
EarlierTo(s, t) == \E k \in 1..Len(t) : (\A m \in 1..k - 1 : s[m] = t[m]) /\ s[k] < t[k]

LEMMA OrderOfSlots ==
  ASSUME NEW i, NEW s, IsSlot(i, s), NEW j, NEW t, IsSlot(j, t)
  PROVE  /\ EarlierTo(s, t) <=> i < j
         /\ s = t <=> i = j
<1>0. PICK D, K, Q, W : Powers(D, K, Q, W)
  BY PowersAre
<1>1. /\ D = DIRECT /\ K = PerBlock /\ Q = K * K /\ W = K * K * K /\ W = K * Q /\ D \in Nat
      /\ K \in Nat \ {0} /\ Q \in Nat \ {0} /\ W \in Nat \ {0} /\ Entries = 0..K - 1 /\ Capacity = D + K + Q + W
  BY <1>0 DEF Powers, Entries, Capacity
<1> DEFINE In(x, r) == x \in 0..D - 1 /\ r = <<x>>
           One(x, r, a) == a \in 0..K - 1 /\ x = D + a /\ r = <<D, a>>
           Two(x, r, a, b, aK) == /\ a \in 0..K - 1 /\ b \in 0..K - 1 /\ aK = a * K /\ aK \in Nat /\ aK + b \in 0..Q - 1
                                  /\ x = D + K + aK + b /\ r = <<D + 1, a, b>>
           Three(x, r, a, b, c, aQ, bK) ==
             /\ a \in 0..K - 1 /\ b \in 0..K - 1 /\ c \in 0..K - 1 /\ aQ = a * Q /\ bK = b * K
             /\ aQ \in Nat /\ bK \in Nat /\ bK + c \in 0..Q - 1 /\ aQ + bK + c \in 0..W - 1
             /\ x = D + K + Q + aQ + bK + c /\ r = <<D + 2, a, b, c>>
           Kinds(x, r) == \/ In(x, r)
                          \/ \E a : One(x, r, a)
                          \/ \E a, b, aK : Two(x, r, a, b, aK)
                          \/ \E a, b, c, aQ, bK : Three(x, r, a, b, c, aQ, bK)
<1>2. ASSUME NEW x, NEW r, IsSlot(x, r) PROVE Kinds(x, r)
  <2>1. CASE x \in 0..DIRECT - 1 /\ r = <<x>>
    BY <1>1, <2>1
  <2>2. CASE \E a \in Entries : x = DIRECT + a /\ r = <<DIRECT, a>>
    BY <1>1, <2>2
  <2>3. CASE \E a, b \in Entries : x = DIRECT + PerBlock + a * PerBlock + b /\ r = <<DIRECT + 1, a, b>>
    <3>1. PICK a, b : a \in 0..K - 1 /\ b \in 0..K - 1 /\ x = D + K + a * K + b /\ r = <<D + 1, a, b>>
      BY <1>1, <2>3
    <3>2. a * K + b \in 0..Q - 1 /\ a * K \in Nat
      BY <1>0, <3>1, Digits, ZenonT(60)
    <3> QED BY <3>1, <3>2, Zenon
  <2>4. CASE \E a, b, c \in Entries :
               /\ x = DIRECT + PerBlock + PerBlock * PerBlock + a * (PerBlock * PerBlock) + b * PerBlock + c
               /\ r = <<DIRECT + 2, a, b, c>>
    <3>1. PICK a, b, c : /\ a \in 0..K - 1 /\ b \in 0..K - 1 /\ c \in 0..K - 1
                         /\ x = D + K + Q + a * Q + b * K + c /\ r = <<D + 2, a, b, c>>
      BY <1>1, <2>4
    <3>2. a * Q + b * K + c \in 0..W - 1 /\ a * Q \in Nat /\ b * K \in Nat /\ b * K + c \in 0..Q - 1
      <4>1. a * Q + b * K + c \in 0..W - 1 /\ a * Q \in Nat /\ b * K \in Nat
        BY <1>0, <3>1, Digits, ZenonT(60)
      <4>2. b * K + c \in 0..Q - 1
        BY <1>0, <3>1, Digits, ZenonT(60)
      <4> QED BY <4>1, <4>2
    <3> QED BY <3>1, <3>2, Zenon
  <2> QED BY <1>2, <2>1, <2>2, <2>3, <2>4 DEF IsSlot
<1>3. Kinds(i, s) /\ Kinds(j, t)
  BY <1>2
<1>4. \A x, y \in Int : x < y => x * K + K <= y * K /\ x * Q + Q <= y * Q
  BY <1>1, Monotone
<1>5. PICK goal \in BOOLEAN : goal = ((EarlierTo(s, t) <=> i < j) /\ (s = t <=> i = j))
  OBVIOUS
<1>6. ASSUME i \in Int, j \in Int, s[1] \in Int, t[1] \in Int, Len(t) \in Nat, 1 <= Len(t),
             (s[1] < t[1] /\ i < j) \/ (s[1] > t[1] /\ i > j)
      PROVE  goal
  <2>1. s # t /\ i # j
    BY <1>6
  <2>2. CASE s[1] < t[1] /\ i < j
    <3>1. EarlierTo(s, t)
      <4>1. 1 \in 1..Len(t) /\ \A m \in 1..1 - 1 : s[m] = t[m]
        BY <1>6
      <4> QED BY <2>2, <4>1 DEF EarlierTo
    <3> QED BY <1>5, <2>1, <2>2, <3>1
  <2>3. CASE s[1] > t[1] /\ i > j
    <3>1. ~EarlierTo(s, t)
      <4>1. SUFFICES ASSUME NEW k \in 1..Len(t), \A m \in 1..k - 1 : s[m] = t[m], s[k] < t[k] PROVE FALSE
        BY DEF EarlierTo
      <4>2. k = 1 \/ 1 \in 1..k - 1
        BY <1>6
      <4> QED BY <1>6, <2>3, <4>1, <4>2
    <3>2. ~(i < j)
      BY <1>6, <2>3
    <3> QED BY <1>5, <2>1, <3>1, <3>2
  <2> QED BY <1>6, <2>2, <2>3
<1>7. ASSUME NEW x, NEW r
      PROVE  /\ In(x, r) => x \in Nat /\ x < D /\ r[1] = x /\ Len(r) = 1
             /\ \A a : One(x, r, a) => x \in Nat /\ D <= x /\ x < D + K /\ r[1] = D /\ Len(r) = 2
             /\ \A a, b, aK : Two(x, r, a, b, aK) =>
                  x \in Nat /\ D + K <= x /\ x < D + K + Q /\ r[1] = D + 1 /\ Len(r) = 3
             /\ \A a, b, c, aQ, bK : Three(x, r, a, b, c, aQ, bK) =>
                  x \in Nat /\ D + K + Q <= x /\ r[1] = D + 2 /\ Len(r) = 4
  <2>1. In(x, r) => x \in Nat /\ x < D /\ r[1] = x /\ Len(r) = 1
    BY <1>1
  <2>2. ASSUME NEW a, One(x, r, a) PROVE x \in Nat /\ D <= x /\ x < D + K /\ r[1] = D /\ Len(r) = 2
    BY <1>1, <2>2
  <2>3. ASSUME NEW a, NEW b, NEW aK, Two(x, r, a, b, aK)
        PROVE  x \in Nat /\ D + K <= x /\ x < D + K + Q /\ r[1] = D + 1 /\ Len(r) = 3
    <3>1. aK \in Nat /\ aK + b \in 0..Q - 1 /\ b \in 0..K - 1 /\ x = D + K + aK + b
      BY <2>3
    <3>2. r[1] = D + 1 /\ Len(r) = 3
      BY <1>1, <2>3
    <3> QED BY <1>1, <3>1, <3>2
  <2>4. ASSUME NEW a, NEW b, NEW c, NEW aQ, NEW bK, Three(x, r, a, b, c, aQ, bK)
        PROVE  x \in Nat /\ D + K + Q <= x /\ r[1] = D + 2 /\ Len(r) = 4
    <3>1. aQ \in Nat /\ bK \in Nat /\ c \in 0..K - 1 /\ x = D + K + Q + aQ + bK + c
      BY <2>4
    <3>2. r[1] = D + 2 /\ Len(r) = 4
      BY <1>1, <2>4
    <3> QED BY <1>1, <3>1, <3>2
  <2> QED BY <2>1, <2>2, <2>3, <2>4, Zenon
<1>8. CASE In(i, s) /\ In(j, t)
  <2>1. EarlierTo(s, t) <=> i < j
    BY <1>1, <1>8 DEF EarlierTo
  <2> QED BY <1>1, <1>8, <2>1
<1>9. CASE \E a, d : One(i, s, a) /\ One(j, t, d)
  <2>1. PICK a, d : One(i, s, a) /\ One(j, t, d)
    BY <1>9
  <2>2. s = <<D, a>> /\ t = <<D, d>> /\ a \in Int /\ d \in Int /\ D \in Int
    BY <1>1, <2>1
  <2>3. EarlierTo(s, t) <=> a < d
    BY <2>2 DEF EarlierTo
  <2>4. (i < j <=> a < d) /\ (i = j <=> a = d)
    BY <1>1, <2>1
  <2> QED BY <2>2, <2>3, <2>4
<1>10. CASE \E a, b, aK, d, e, dK : Two(i, s, a, b, aK) /\ Two(j, t, d, e, dK)
  <2>1. PICK a, b, aK, d, e, dK : Two(i, s, a, b, aK) /\ Two(j, t, d, e, dK)
    BY <1>10
  <2>2. s = <<D + 1, a, b>> /\ t = <<D + 1, d, e>> /\ a \in Int /\ d \in Int /\ b \in Int /\ e \in Int /\ D \in Int
    BY <1>1, <2>1
  <2>3. EarlierTo(s, t) <=> a < d \/ (a = d /\ b < e)
    BY <2>2 DEF EarlierTo
  <2>4. /\ aK \in Int /\ dK \in Int /\ b \in 0..K - 1 /\ e \in 0..K - 1 /\ (a = d => aK = dK)
        /\ (a < d => aK + K <= dK) /\ (d < a => dK + K <= aK)
        /\ i = D + K + aK + b /\ j = D + K + dK + e
    BY <1>1, <1>4, <2>1
  <2>5. (i < j <=> a < d \/ (a = d /\ b < e)) /\ (i = j <=> a = d /\ b = e)
    BY <1>1, <2>2, <2>4
  <2>6. s = t <=> a = d /\ b = e
    BY <2>2
  <2> QED BY <2>3, <2>5, <2>6
<1>11. CASE \E a, b, c, aQ, bK, d, e, f, dQ, eK : Three(i, s, a, b, c, aQ, bK) /\ Three(j, t, d, e, f, dQ, eK)
  <2>1. PICK a, b, c, aQ, bK, d, e, f, dQ, eK : Three(i, s, a, b, c, aQ, bK) /\ Three(j, t, d, e, f, dQ, eK)
    BY <1>11
  <2>2. /\ s = <<D + 2, a, b, c>> /\ t = <<D + 2, d, e, f>> /\ a \in Int /\ d \in Int /\ b \in Int /\ e \in Int
        /\ c \in Int /\ f \in Int /\ D \in Int
    BY <1>1, <2>1
  <2>3. EarlierTo(s, t) <=> a < d \/ (a = d /\ b < e) \/ (a = d /\ b = e /\ c < f)
    BY <2>2, SMTT(30) DEF EarlierTo
  <2>4. /\ aQ \in Int /\ dQ \in Int /\ bK \in Int /\ eK \in Int /\ c \in 0..K - 1 /\ f \in 0..K - 1
        /\ (a = d => aQ = dQ) /\ (a < d => aQ + Q <= dQ) /\ (d < a => dQ + Q <= aQ)
        /\ (b = e => bK = eK) /\ (b < e => bK + K <= eK) /\ (e < b => eK + K <= bK)
        /\ bK + c \in 0..Q - 1 /\ eK + f \in 0..Q - 1
        /\ i = D + K + Q + aQ + bK + c /\ j = D + K + Q + dQ + eK + f
    BY <1>1, <1>4, <2>1, SMTT(30)
  <2>5. /\ i < j <=> a < d \/ (a = d /\ b < e) \/ (a = d /\ b = e /\ c < f)
        /\ i = j <=> a = d /\ b = e /\ c = f
    BY <1>1, <2>2, <2>4, SMTT(30)
  <2>6. s = t <=> a = d /\ b = e /\ c = f
    BY <2>2
  <2> QED BY <2>3, <2>5, <2>6
<1> DEFINE Kind(p, x, r) ==
             /\ x \in Nat /\ r[1] \in Int /\ Len(r) \in Nat /\ 1 <= Len(r)
             /\ p = 0 => x < D /\ r[1] < D
             /\ p = 1 => D <= x /\ x < D + K /\ r[1] = D
             /\ p = 2 => D + K <= x /\ x < D + K + Q /\ r[1] = D + 1
             /\ p = 3 => D + K + Q <= x /\ r[1] = D + 2
           Shape4(p, x, r) ==
             /\ p = 0 => In(x, r)
             /\ p = 1 => \E a : One(x, r, a)
             /\ p = 2 => \E a, b, aK : Two(x, r, a, b, aK)
             /\ p = 3 => \E a, b, c, aQ, bK : Three(x, r, a, b, c, aQ, bK)
<1> HIDE DEF In, One, Two, Three
<1>12. ASSUME NEW x, NEW r, Kinds(x, r) PROVE \E p \in 0..3 : Kind(p, x, r) /\ Shape4(p, x, r)
  <2>1. CASE In(x, r)
    <3>1. Kind(0, x, r) /\ Shape4(0, x, r)
      BY <1>1, <1>7, <2>1
    <3> HIDE DEF Kind, Shape4
    <3> QED BY <3>1
  <2>2. CASE \E a : One(x, r, a)
    <3>1. x \in Nat /\ D <= x /\ x < D + K /\ r[1] = D /\ Len(r) = 2
      BY <1>7, <2>2
    <3>2. Kind(1, x, r) /\ Shape4(1, x, r)
      BY <1>1, <3>1, <2>2
    <3> HIDE DEF Kind, Shape4
    <3> QED BY <3>2
  <2>3. CASE \E a, b, aK : Two(x, r, a, b, aK)
    <3>1. x \in Nat /\ D + K <= x /\ x < D + K + Q /\ r[1] = D + 1 /\ Len(r) = 3
      BY <1>7, <2>3
    <3>2. Kind(2, x, r) /\ Shape4(2, x, r)
      BY <1>1, <3>1, <2>3
    <3> HIDE DEF Kind, Shape4
    <3> QED BY <3>2
  <2>4. CASE \E a, b, c, aQ, bK : Three(x, r, a, b, c, aQ, bK)
    <3>1. x \in Nat /\ D + K + Q <= x /\ r[1] = D + 2 /\ Len(r) = 4
      BY <1>7, <2>4
    <3>2. Kind(3, x, r) /\ Shape4(3, x, r)
      BY <1>1, <3>1, <2>4
    <3> HIDE DEF Kind, Shape4
    <3> QED BY <3>2
  <2> QED BY <1>12, <2>1, <2>2, <2>3, <2>4
<1>13. PICK p \in 0..3, q \in 0..3 : Kind(p, i, s) /\ Shape4(p, i, s) /\ Kind(q, j, t) /\ Shape4(q, j, t)
  <2> HIDE DEF Kind, Shape4, Kinds
  <2> QED BY <1>3, <1>12
<1>14. CASE p # q
  <2>0. Kind(p, i, s) /\ Kind(q, j, t)
    <3> HIDE DEF Kind, Shape4
    <3> QED BY <1>13
  <2>4. PICK x, y : x = s[1] /\ y = t[1]
    OBVIOUS
  <2>5. /\ i \in Nat /\ j \in Nat /\ x \in Int /\ y \in Int
        /\ (p = 0 => i < D /\ x < D) /\ (q = 0 => j < D /\ y < D)
        /\ (p = 1 => D <= i /\ i < D + K /\ x = D) /\ (q = 1 => D <= j /\ j < D + K /\ y = D)
        /\ (p = 2 => D + K <= i /\ i < D + K + Q /\ x = D + 1) /\ (q = 2 => D + K <= j /\ j < D + K + Q /\ y = D + 1)
        /\ (p = 3 => D + K + Q <= i /\ x = D + 2) /\ (q = 3 => D + K + Q <= j /\ y = D + 2)
    BY <2>0, <2>4
  <2>6. D \in Nat /\ K \in Nat \ {0} /\ Q \in Nat \ {0}
    BY <1>1
  <2>7. p < q => x < y /\ i < j
    BY <2>5, <2>6
  <2>8. p > q => x > y /\ i > j
    BY <2>5, <2>6
  <2>9. p < q \/ p > q
    BY <1>14
  <2>1. (s[1] < t[1] /\ i < j) \/ (s[1] > t[1] /\ i > j)
    <3>1. (x < y /\ i < j) \/ (x > y /\ i > j)
      BY <2>7, <2>8, <2>9, Zenon
    <3> QED BY <2>4, <3>1, Zenon
  <2>2. i \in Int /\ j \in Int /\ s[1] \in Int /\ t[1] \in Int /\ Len(t) \in Nat /\ 1 <= Len(t)
    BY <1>13
  <2>3. goal
    BY <1>6, <2>1, <2>2
  <2> QED BY <1>5, <2>3
<1>15. CASE p = q
  <2>1. p = 0 \/ p = 1 \/ p = 2 \/ p = 3
    OBVIOUS
  <2> HIDE DEF Kind
  <2>2. CASE p = 0
    BY <1>8, <1>13, <1>15, <2>2
  <2>3. CASE p = 1
    BY <1>9, <1>13, <1>15, <2>3
  <2>4. CASE p = 2
    BY <1>10, <1>13, <1>15, <2>4
  <2>5. CASE p = 3
    BY <1>11, <1>13, <1>15, <2>5
  <2> QED BY <2>1, <2>2, <2>3, <2>4, <2>5
<1> QED BY <1>14, <1>15

\* Earlier is this order on slots.
LEMMA EarlierIs ==
  ASSUME NEW s \in Slots, NEW t \in Slots
  PROVE  Earlier(s, t) <=> EarlierTo(s, t)
<1>1. ASSUME NEW r \in Slots PROVE Len(r) \in 1..4 /\ r \in Seq(Int)
  <2>1. PICK i \in 0..Capacity - 1 : IsSlot(i, r)
    BY SlotFrom
  <2>2. PICK D \in Int, E \in SUBSET Int : D = DIRECT /\ E = Entries
    BY FilesAssumption DEF Entries
  <2>3. \/ \E x \in Int : r = <<x>>
        \/ \E x \in Int, a \in Int : r = <<x, a>>
        \/ \E x \in Int, a \in Int, b \in Int : r = <<x, a, b>>
        \/ \E x \in Int, a \in Int, b \in Int, c \in Int : r = <<x, a, b, c>>
    BY <2>1, <2>2, SMTT(30) DEF IsSlot
  <2>4. CASE \E x \in Int : r = <<x>>
    BY <2>4
  <2>5. CASE \E x \in Int, a \in Int : r = <<x, a>>
    BY <2>5
  <2>6. CASE \E x \in Int, a \in Int, b \in Int : r = <<x, a, b>>
    BY <2>6
  <2>7. CASE \E x \in Int, a \in Int, b \in Int, c \in Int : r = <<x, a, b, c>>
    BY <2>7
  <2> QED BY <2>3, <2>4, <2>5, <2>6, <2>7, Zenon
<1>2. ASSUME s[1] = t[1] PROVE Len(s) = Len(t)
  BY <1>2, FilesAssumption DEF Slots, Entries
<1>3. ASSUME NEW k \in 1..Len(t), k - 1 <= Len(s)
      PROVE  SubSeq(s, 1, k - 1) = SubSeq(t, 1, k - 1) <=> \A m \in 1..k - 1 : s[m] = t[m]
  <2>0. PICK ls \in 1..4, lt \in 1..4 : ls = Len(s) /\ lt = Len(t) /\ s \in Seq(Int) /\ t \in Seq(Int)
    BY <1>1
  <2>1. PICK n \in Nat : n = k - 1 /\ n <= lt /\ n <= ls
    BY <1>3, <2>0
  <2>2. 1 \in 1..ls + 1 /\ n \in 1 - 1..ls /\ 1 \in 1..lt + 1 /\ n \in 1 - 1..lt
    BY <2>0, <2>1
  <2>3. PICK x, y : x = SubSeq(s, 1, n) /\ y = SubSeq(t, 1, n)
    OBVIOUS
  <2>4. x \in Seq(Int) /\ Len(x) = n - 1 + 1 /\ \A m \in 1..n - 1 + 1 : x[m] = s[1 + m - 1]
    BY <2>0, <2>2, <2>3, SubSeqProperties
  <2>5. y \in Seq(Int) /\ Len(y) = n - 1 + 1 /\ \A m \in 1..n - 1 + 1 : y[m] = t[1 + m - 1]
    BY <2>0, <2>2, <2>3, SubSeqProperties
  <2>6. Len(x) = n /\ Len(y) = n /\ \A m \in 1..n : x[m] = s[m] /\ y[m] = t[m]
    BY <2>1, <2>4, <2>5
  <2>7. x = y <=> \A m \in 1..n : x[m] = y[m]
    BY <2>4, <2>5, <2>6, SeqEqual
  <2> QED BY <2>1, <2>3, <2>6, <2>7
<1>4. ASSUME NEW k \in 1..Len(t), ~(k - 1 <= Len(s))
      PROVE  SubSeq(s, 1, k - 1) # SubSeq(t, 1, k - 1) /\ ~(\A m \in 1..k - 1 : s[m] = t[m])
  <2>1. s[1] # t[1] /\ k - 1 >= 1 /\ k - 1 <= Len(t)
    BY <1>1, <1>2, <1>4
  <2>2. SubSeq(s, 1, k - 1)[1] = s[1] /\ SubSeq(t, 1, k - 1)[1] = t[1]
    BY <1>1, <2>1 DEF SubSeq
  <2> QED BY <2>1, <2>2, <1>1
<1> QED BY <1>3, <1>4, <1>1 DEF Earlier, EarlierTo

\* The slot that a tool uses for block i is where get_DBlock_num looks for it.
LEMMA SlotOfIs ==
  /\ Cardinality(Slots) = Capacity /\ Capacity \in Nat
  /\ \A i \in 0..Capacity - 1 : SlotOf(i) = get_DBlock_num(i)
<1>0. PICK M \in Nat : M = Capacity
  BY FilesAssumption DEF Capacity
<1>1. ASSUME NEW i \in 0..M - 1 PROVE IsSlot(i, get_DBlock_num(i))
  <2>1. PICK D, K, Q, W : Powers(D, K, Q, W)
    BY PowersAre
  <2>2. i \in Nat /\ i < Capacity
    BY <1>0
  <2> QED BY <2>1, <2>2, DigitsOf
<1> DEFINE G == [i \in 0..M - 1 |-> get_DBlock_num(i)]
<1>2. \A i \in 0..M - 1 : IsSlot(i, G[i]) /\ G[i] \in Slots
  BY <1>1, SlotIn
<1> HIDE DEF G
<1>3. \A i, j \in 0..M - 1 : G[i] = G[j] <=> i = j
  BY <1>2, OrderOfSlots
<1>4. \A s \in Slots : \E i \in 0..M - 1 : s = G[i]
  BY <1>0, <1>2, SlotFrom, OrderOfSlots
<1>5. \A i, j \in 0..M - 1 : Earlier(G[i], G[j]) <=> i < j
  BY <1>2, EarlierIs, OrderOfSlots
<1>6. ASSUME NEW n \in 0..M PROVE Cardinality({G[i] : i \in 0..n - 1}) = n
  <2> DEFINE S == {G[i] : i \in 0..n - 1}
             g == [i \in 1..n |-> G[i - 1]]
  <2>1. \A i \in 1..n : i - 1 \in 0..n - 1 /\ i - 1 \in 0..M - 1
    OBVIOUS
  <2>2. g \in [1..n -> S]
    BY <2>1
  <2>3. \A a, b \in 1..n : g[a] = g[b] => a = b
    <3>1. SUFFICES ASSUME NEW a \in 1..n, NEW b \in 1..n, G[a - 1] = G[b - 1] PROVE a = b
      OBVIOUS
    <3>2. a - 1 = b - 1
      BY <1>3, <2>1, <3>1
    <3> QED BY <3>2
  <2>4. \A s \in S : \E a \in 1..n : g[a] = s
    <3>1. SUFFICES ASSUME NEW i \in 0..n - 1 PROVE \E a \in 1..n : g[a] = G[i]
      OBVIOUS
    <3>2. i + 1 \in 1..n /\ (i + 1) - 1 = i
      OBVIOUS
    <3> QED BY <3>2
  <2>5. ExistsBijection(1..n, S)
    <3> HIDE DEF g, S
    <3>1. g \in Bijection(1..n, S)
      BY <2>2, <2>3, <2>4 DEF Bijection, Injection, Surjection, IsInjective
    <3> QED BY <3>1 DEF ExistsBijection
  <2>6. n \in Nat
    OBVIOUS
  <2> HIDE DEF S
  <2>7. Cardinality(S) = n
    BY <2>5, <2>6, FS_CountingElements
  <2> QED BY <2>7 DEF S
<1>7. Slots = {G[i] : i \in 0..M - 1}
  BY <1>2, <1>4
<1>8. ASSUME NEW j \in 0..M - 1 PROVE Cardinality({s \in Slots : Earlier(s, G[j])}) = j
  <2>1. {s \in Slots : Earlier(s, G[j])} = {G[i] : i \in 0..j - 1}
    <3>1. ASSUME NEW s \in Slots, Earlier(s, G[j]) PROVE s \in {G[i] : i \in 0..j - 1}
      <4>1. PICK i \in 0..M - 1 : s = G[i]
        BY <1>4
      <4>2. i < j
        BY <1>5, <3>1, <4>1
      <4> QED BY <4>1, <4>2
    <3>2. ASSUME NEW i \in 0..j - 1 PROVE G[i] \in Slots /\ Earlier(G[i], G[j])
      <4>1. i \in 0..M - 1 /\ i < j
        OBVIOUS
      <4> QED BY <1>2, <1>5, <4>1
    <3> QED BY <3>1, <3>2
  <2>2. j \in 0..M
    OBVIOUS
  <2> QED BY <1>6, <2>1, <2>2
<1>9. ASSUME NEW i \in 0..M - 1 PROVE SlotOf(i) = G[i]
  <2>1. \E t \in Slots : Cardinality({s \in Slots : Earlier(s, t)}) = i
    BY <1>2, <1>8
  <2>2. PICK t : t = SlotOf(i)
    OBVIOUS
  <2>3. t \in Slots /\ Cardinality({s \in Slots : Earlier(s, t)}) = i
    BY <2>1, <2>2, Zenon DEF SlotOf
  <2>4. PICK j \in 0..M - 1 : t = G[j]
    BY <1>4, <2>3
  <2>5. j = i
    BY <1>8, <2>3, <2>4
  <2> QED BY <2>2, <2>4, <2>5
<1>10. \A i \in 0..M - 1 : G[i] = get_DBlock_num(i)
  BY DEF G
<1>11. Cardinality(Slots) = M
  <2>1. M \in 0..M
    OBVIOUS
  <2> QED BY <1>6, <1>7, <2>1
<1> QED BY <1>0, <1>9, <1>10, <1>11

\* No two numbers of blocks lead to the same entry of the map.
LEMMA SlotsApart ==
  ASSUME NEW i \in 0..Capacity - 1, NEW j \in Nat, get_DBlock_num(i) = get_DBlock_num(j)
  PROVE  i = j
<1>0. PICK D, K, Q, W : Powers(D, K, Q, W)
  BY PowersAre
<1>1. Capacity \in Nat
  BY SlotOfIs
<1>2. PICK s : s = get_DBlock_num(i) /\ s = get_DBlock_num(j)
  BY Zenon
<1>3. IsSlot(i, s)
  <2>1. i \in Nat /\ i < Capacity
    BY <1>1
  <2> QED BY <1>0, <1>2, <2>1, DigitsOf
<1>4. CASE j < Capacity
  <2>1. IsSlot(j, s)
    BY <1>0, <1>2, <1>4, DigitsOf
  <2> QED BY <1>3, <2>1, OrderOfSlots
<1>5. CASE j >= Capacity
  <2>1. PICK e, f, g : s = <<DIRECT + 2, e, f, g>> /\ e \notin Entries
    BY <1>0, <1>2, <1>5, DigitsOf
  <2>2. PICK E, d : E = Entries /\ d = DIRECT + 2
    OBVIOUS
  <2>3. \E a, b, c \in E : s = <<d, a, b, c>>
    <3>1. Len(s) = 4
      BY <2>1
    <3>2. /\ \A x : s # <<x>>
          /\ \A x, a : s # <<x, a>>
          /\ \A x, a, b : s # <<x, a, b>>
      BY <3>1
    <3>3. \E a, b, c \in Entries : s = <<DIRECT + 2, a, b, c>>
      BY <1>3, <3>2, Zenon DEF IsSlot
    <3> QED BY <2>2, <3>3, Zenon
  <2> QED BY <2>1, <2>2, <2>3
<1> QED BY <1>1, <1>4, <1>5

-----------------------------------------------------------------------------
(* The files. A file holds its blocks where the tool that made it put them, at all times. *)

Held(f, i) == i \in 0..Len(Files[f].blocks) - 1

LEMMA FilesAre ==
  ASSUME NEW f \in DOMAIN Files
  PROVE  /\ block_size \in Nat \ {0} /\ DiskBlocks \in Nat \ {0}
         /\ Files[f].blocks \in Seq(1..DiskBlocks - 1) /\ Len(Files[f].blocks) \in 0..Capacity
         /\ Files[f].size \in 0..Len(Files[f].blocks) * block_size
         /\ \A i : Held(f, i) => i \in 0..Capacity - 1 /\ Files[f].blocks[i + 1] \in 1..DiskBlocks - 1
<1>1. Files[f].blocks \in Seq(1..DiskBlocks - 1) /\ Len(Files[f].blocks) <= Cardinality(Slots)
  BY FilesAssumption
<1>2. Len(Files[f].blocks) \in 0..Capacity /\ Capacity \in Nat
  BY <1>1, SlotOfIs
<1>3. ASSUME NEW i, Held(f, i) PROVE i \in 0..Capacity - 1 /\ Files[f].blocks[i + 1] \in 1..DiskBlocks - 1
  <2>1. i \in 0..Len(Files[f].blocks) - 1
    BY <1>3 DEF Held
  <2>2. PICK B, S : B = Files[f].blocks /\ S = 1..DiskBlocks - 1 /\ B \in Seq(S)
    BY <1>1
  <2>3. i + 1 \in 1..Len(B) /\ i \in 0..Capacity - 1
    BY <1>2, <2>1, <2>2
  <2>4. B[i + 1] \in S
    BY <2>2, <2>3, ElementOfSeq
  <2> QED BY <2>2, <2>3, <2>4
<1> QED BY <1>1, <1>2, <1>3, FilesAssumption

\* the blocks of the inode in the order of the file
MapKept(f) == inode[f].slots = MadeByTool(Files[f]).slots

LEMMA BlockAtIs ==
  ASSUME NEW f \in DOMAIN Files, MapKept(f), NEW i \in Nat
  PROVE  BlockAt(f, i) = IF Held(f, i) THEN Files[f].blocks[i + 1] ELSE 0
<1> DEFINE B == Files[f].blocks
           G(j) == get_DBlock_num(j)
<1>1. PICK n \in Nat : n = Len(B) /\ n <= Capacity /\ Capacity \in Nat /\ DOMAIN B = 1..n
  BY FilesAre, SlotOfIs
<1>2. PICK slots : slots = inode[f].slots
  OBVIOUS
<1>3. slots = [s \in {SlotOf(j - 1) : j \in DOMAIN B} |-> B[1 + CHOOSE j \in 0..Len(B) - 1 : SlotOf(j) = s]]
  BY <1>2 DEF MapKept, MadeByTool
<1>4. \A j \in 0..n - 1 : SlotOf(j) = G(j) /\ j \in 0..Capacity - 1
  BY <1>1, SlotOfIs
<1>5. DOMAIN slots = {G(j) : j \in 0..n - 1}
  <2>1. {SlotOf(j - 1) : j \in DOMAIN B} = {SlotOf(j) : j \in 0..n - 1}
    <3>1. \A j \in 1..n : j - 1 \in 0..n - 1
      BY <1>1
    <3>2. \A j \in 0..n - 1 : j + 1 \in 1..n /\ (j + 1) - 1 = j
      BY <1>1
    <3> QED BY <1>1, <3>1, <3>2
  <2>2. {SlotOf(j) : j \in 0..n - 1} = {G(j) : j \in 0..n - 1}
    BY <1>4
  <2>3. DOMAIN slots = {SlotOf(j - 1) : j \in DOMAIN B}
    BY <1>3
  <2> QED BY <2>1, <2>2, <2>3
<1>6. BlockAt(f, i) = IF G(i) \in DOMAIN slots THEN slots[G(i)] ELSE 0
  BY <1>2, Zenon DEF BlockAt
<1>7. CASE Held(f, i)
  <2>1. i \in 0..n - 1
    BY <1>1, <1>7 DEF Held
  <2>2. G(i) \in DOMAIN slots
    BY <1>5, <2>1
  <2>3. PICK s : s = G(i)
    OBVIOUS
  <2>4. slots[s] = B[1 + CHOOSE j \in 0..n - 1 : SlotOf(j) = s]
    <3>1. s \in {SlotOf(j - 1) : j \in DOMAIN B}
      BY <1>3, <2>2, <2>3
    <3>2. slots[s] = B[1 + CHOOSE j \in 0..Len(B) - 1 : SlotOf(j) = s]
      BY <1>3, <3>1, Zenon
    <3> QED BY <1>1, <3>2
  <2>5. PICK j : j = CHOOSE k \in 0..n - 1 : SlotOf(k) = s
    OBVIOUS
  <2>6. j \in 0..n - 1 /\ SlotOf(j) = s
    <3>1. SlotOf(i) = s
      BY <1>4, <2>1, <2>3
    <3> QED BY <2>1, <2>5, <3>1, Zenon
  <2>7. j = i
    <3>1. get_DBlock_num(j) = get_DBlock_num(i) /\ j \in 0..Capacity - 1
      BY <1>4, <2>3, <2>6
    <3> QED BY <3>1, SlotsApart
  <2>8. slots[s] = B[i + 1]
    <3>1. slots[s] = B[1 + j]
      BY <2>4, <2>5, Zenon
    <3>2. 1 + j = i + 1
      BY <2>7
    <3> QED BY <3>1, <3>2, Zenon
  <2> QED BY <1>6, <1>7, <2>2, <2>3, <2>8
<1>8. CASE ~Held(f, i)
  <2>1. G(i) \notin DOMAIN slots
    <3>1. SUFFICES ASSUME NEW j \in 0..n - 1, G(j) = G(i) PROVE FALSE
      BY <1>5
    <3>2. j = i
      BY <1>4, <3>1, SlotsApart
    <3> QED BY <1>1, <1>8, <3>2 DEF Held
  <2> QED BY <1>6, <1>8, <2>1
<1> QED BY <1>7, <1>8

\* No block is at two places of the files.
LEMMA HeldOnce ==
  ASSUME NEW f \in DOMAIN Files, NEW g \in DOMAIN Files, MapKept(f), MapKept(g), NEW i \in Nat, NEW j \in Nat,
         BlockAt(f, i) = BlockAt(g, j), BlockAt(f, i) # 0
  PROVE  f = g /\ i = j
<1>1. BlockAt(f, i) = IF Held(f, i) THEN Files[f].blocks[i + 1] ELSE 0
  BY BlockAtIs
<1>2. BlockAt(g, j) = IF Held(g, j) THEN Files[g].blocks[j + 1] ELSE 0
  BY BlockAtIs
<1>3. Held(f, i) /\ Held(g, j) /\ Files[f].blocks[i + 1] = Files[g].blocks[j + 1]
  <2>1. PICK x : x = BlockAt(f, i) /\ x = BlockAt(g, j) /\ x # 0
    BY Zenon
  <2>2. Held(f, i) /\ x = Files[f].blocks[i + 1]
    BY <1>1, <2>1
  <2>3. Held(g, j) /\ x = Files[g].blocks[j + 1]
    BY <1>2, <2>1
  <2> QED BY <2>2, <2>3, Zenon
<1>4. i + 1 \in DOMAIN Files[f].blocks /\ j + 1 \in DOMAIN Files[g].blocks
  <2>1. ASSUME NEW h, h = f \/ h = g, NEW n \in Nat, Held(h, n) PROVE n + 1 \in DOMAIN Files[h].blocks
    <3>1. PICK B \in Seq(1..DiskBlocks - 1) : B = Files[h].blocks
      BY <2>1, FilesAre
    <3>2. n + 1 \in 1..Len(B)
      BY <2>1, <3>1 DEF Held
    <3> QED BY <3>1, <3>2
  <2> QED BY <1>3, <2>1
<1>5. f = g /\ i + 1 = j + 1
  BY <1>3, <1>4, FilesAssumption
<1> QED BY <1>5

LEMMA BlockInDisk ==
  ASSUME NEW f \in DOMAIN Files, MapKept(f), NEW i \in Nat
  PROVE  BlockAt(f, i) \in 0..DiskBlocks - 1 /\ (BlockAt(f, i) # 0 <=> Held(f, i))
<1>1. BlockAt(f, i) = IF Held(f, i) THEN Files[f].blocks[i + 1] ELSE 0
  BY BlockAtIs
<1>2. CASE Held(f, i)
  BY <1>1, <1>2, FilesAre
<1>3. CASE ~Held(f, i)
  BY <1>1, <1>3, FilesAre
<1> QED BY <1>2, <1>3

-----------------------------------------------------------------------------
(* The invariant of the files: as long as no block number was made of data. *)

FileShape ==
  /\ DOMAIN inode = DOMAIN Files /\ DOMAIN given = DOMAIN Files /\ DOMAIN content = 0..DiskBlocks - 1
  /\ \A f \in DOMAIN Files :
       /\ MapKept(f) /\ inode[f].size \in Nat /\ inode[f] = [size |-> inode[f].size, slots |-> inode[f].slots]
       /\ DOMAIN given[f] \subseteq Nat

\* what a caller gave, or what was there, is in a block of the file
KeepsBytes(f) == \A k \in DOMAIN given[f] :
  given[f][k] # NoByte => Held(f, k \div block_size) /\ ByteOf(f, k) = given[f][k]
AnswerRight ==
  (answer.file # 0 /\ answer.off <= inode[answer.file].size) =>
    answer.data = [j \in 1..ReadEnd(answer.file, answer.off, answer.n) - answer.off |->
                     ByteOf(answer.file, answer.off + j - 1)]

FileInv == fstatus = "ok" => FileShape /\ (\A f \in DOMAIN Files \ strained : KeepsBytes(f)) /\ AnswerRight

LEMMA FileInvShows == FileInv => FilesKeepBytes
<1> SUFFICES ASSUME FileInv, fstatus = "ok" PROVE FilesKeepBytes
  BY DEF FilesKeepBytes
<1>1. ASSUME NEW f \in DOMAIN Files \ strained, NEW k \in DOMAIN given[f], given[f][k] # NoByte
      PROVE  ByteOf(f, k) = given[f][k]
  <2>1. KeepsBytes(f)
    BY DEF FileInv
  <2> QED BY <1>1, <2>1, Zenon DEF KeepsBytes
<1>2. AnswerRight
  BY DEF FileInv
<1> QED BY <1>1, <1>2, Zenon DEF AnswerRight, FilesKeepBytes

\* byte k of a file is byte k % block_size of its block k \div block_size
LEMMA PlaceOf ==
  ASSUME NEW k \in Nat
  PROVE  /\ k \div block_size \in Nat /\ k % block_size \in 0..block_size - 1
         /\ k = (k \div block_size) * block_size + (k % block_size)
<1>1. block_size \in Nat \ {0}
  BY FilesAssumption
<1> QED BY <1>1, Quotient

LEMMA FilesStart == FileInit => FileInv
<1> SUFFICES ASSUME FileInit PROVE FileInv
  OBVIOUS
<1>1. /\ inode = [f \in DOMAIN Files |-> MadeByTool(Files[f])]
      /\ content = [b \in 0..DiskBlocks - 1 |-> Fresh(b)]
      /\ given = [f \in DOMAIN Files |->
                    [k \in 0..Files[f].size - 1 |-> <<"disk", Files[f].blocks[(k \div block_size) + 1], k % block_size>>]]
      /\ answer = NoAnswer4
  BY DEF FileInit
<1>2. ASSUME NEW f \in DOMAIN Files PROVE MapKept(f)
  BY <1>1 DEF MapKept
<1>3. FileShape
  <2>1. ASSUME NEW f \in DOMAIN Files
        PROVE  /\ inode[f].size \in Nat /\ inode[f] = [size |-> inode[f].size, slots |-> inode[f].slots]
               /\ DOMAIN given[f] \subseteq Nat
    <3>1. inode[f] = MadeByTool(Files[f]) /\ Files[f].size \in Nat
      BY <1>1, FilesAre
    <3>2. inode[f].size \in Nat /\ inode[f] = [size |-> inode[f].size, slots |-> inode[f].slots]
      BY <3>1 DEF MadeByTool
    <3>3. DOMAIN given[f] = 0..Files[f].size - 1
      BY <1>1
    <3> QED BY <3>1, <3>2, <3>3
  <2>2. DOMAIN inode = DOMAIN Files /\ DOMAIN given = DOMAIN Files /\ DOMAIN content = 0..DiskBlocks - 1
    BY <1>1
  <2> QED BY <1>2, <2>1, <2>2 DEF FileShape
<1>4. ASSUME NEW f \in DOMAIN Files PROVE KeepsBytes(f)
  <2>1. SUFFICES ASSUME NEW k \in DOMAIN given[f]
                 PROVE  Held(f, k \div block_size) /\ ByteOf(f, k) = given[f][k]
    BY DEF KeepsBytes
  <2>2. PICK K \in Nat \ {0}, n \in Nat : K = block_size /\ n = Len(Files[f].blocks) /\ Files[f].size \in 0..n * K
    BY FilesAre
  <2>3. k \in 0..Files[f].size - 1 /\ given[f][k] = <<"disk", Files[f].blocks[(k \div K) + 1], k % K>>
    <3>1. given[f] = [x \in 0..Files[f].size - 1 |-> <<"disk", Files[f].blocks[(x \div block_size) + 1], x % block_size>>]
      BY <1>1, Zenon
    <3>2. k \in 0..Files[f].size - 1
      BY <3>1, Zenon
    <3> QED BY <2>2, <3>1, <3>2, Zenon
  <2>4. PICK q, r : q = k \div K /\ r = k % K /\ q \in Nat /\ r \in 0..K - 1 /\ k = q * K + r /\ k \in Nat
    <3>1. k \in Nat
      BY <2>2, <2>3
    <3>2. k \div K \in Nat /\ k % K \in 0..K - 1 /\ k = (k \div K) * K + (k % K)
      BY <3>1, Quotient
    <3> QED BY <3>1, <3>2, Zenon
  <2>5. q < n
    <3>1. SUFFICES ASSUME n < q \/ n = q PROVE FALSE
      BY <2>4
    <3>2. PICK qK \in Int, nK \in Int : qK = q * K /\ nK = n * K
      BY <2>4
    <3>3. nK <= qK
      <4>1. n < q => n * K + K <= q * K
        BY <2>4, Monotone
      <4> QED BY <3>1, <3>2, <4>1
    <3>4. k < nK /\ k = qK + r /\ r >= 0 /\ r \in Int
      BY <2>2, <2>3, <2>4, <3>2
    <3> QED BY <3>2, <3>3, <3>4
  <2>6. Held(f, q)
    BY <2>2, <2>4, <2>5 DEF Held
  <2>7. PICK b : b = Files[f].blocks[q + 1] /\ b \in 0..DiskBlocks - 1
    BY <2>6, FilesAre
  <2>8. BlockAt(f, q) = b
    BY <1>2, <2>4, <2>6, <2>7, BlockAtIs
  <2>9. ByteOf(f, k) = Fresh(b)[r]
    BY <1>1, <2>2, <2>4, <2>7, <2>8, Zenon DEF ByteOf
  <2>10. Fresh(b)[r] = <<"disk", b, r>>
    BY <2>2, <2>4 DEF Fresh
  <2>11. given[f][k] = <<"disk", b, r>>
    BY <2>3, <2>4, <2>7, Zenon
  <2> QED BY <2>2, <2>4, <2>6, <2>9, <2>10, <2>11, Zenon
<1>5. AnswerRight
  BY <1>1 DEF AnswerRight, NoAnswer4
<1> QED BY <1>3, <1>4, <1>5 DEF FileInv

-----------------------------------------------------------------------------
(* Reading a file by blocks. *)

\* where the part of block i starts in the caller's buffer
StartIn(i, off, end) ==
  IF i = FirstBlock(off) THEN 0 ELSE IF i = EndBlock(end) + 1 THEN end - off ELSE i * block_size - off

\* quotients and remainders of the two ends
Spans(off, end, K, a, r, z, s, aK, zK) ==
  /\ K = block_size /\ K \in Nat \ {0} /\ a \in Nat /\ z \in Nat /\ r \in 0..K - 1 /\ s \in 0..K - 1
  /\ FirstBlock(off) = a /\ off % K = r /\ aK = a * K /\ aK \in Nat /\ off = aK + r
  /\ EndBlock(end) = z /\ end % K = s /\ zK = z * K /\ zK \in Nat /\ end = zK + s
  /\ a = z => aK = zK
  /\ \A i \in Int : a < i => aK + K <= i * K
  /\ \A i \in Int : i < z => i * K + K <= zK
  /\ \A i \in Int : (i + 1) * K = i * K + K /\ i * K \in Int

LEMMA SpansAre ==
  ASSUME NEW off \in Nat, NEW end \in Nat
  PROVE  \E K, a, r, z, s, aK, zK : Spans(off, end, K, a, r, z, s, aK, zK)
<1>1. PICK K \in Nat \ {0} : K = block_size
  BY FilesAssumption
<1>2. PICK a, r : a = off \div K /\ r = off % K /\ a \in Nat /\ r \in 0..K - 1 /\ off = a * K + r
  <2>1. off \div K \in Nat /\ off % K \in 0..K - 1 /\ off = (off \div K) * K + (off % K)
    BY Quotient
  <2> QED BY <2>1, Zenon
<1>3. PICK z, s : z = end \div K /\ s = end % K /\ z \in Nat /\ s \in 0..K - 1 /\ end = z * K + s
  <2>1. end \div K \in Nat /\ end % K \in 0..K - 1 /\ end = (end \div K) * K + (end % K)
    BY Quotient
  <2> QED BY <2>1, Zenon
<1>4. a \in Nat /\ z \in Nat /\ r \in 0..K - 1 /\ s \in 0..K - 1 /\ off = a * K + r /\ end = z * K + s
  BY <1>2, <1>3, Zenon
<1>5. PICK aK, zK : aK = a * K /\ zK = z * K /\ aK \in Nat /\ zK \in Nat
  BY <1>4
<1>6. FirstBlock(off) = a /\ EndBlock(end) = z /\ off % K = r /\ end % K = s
  BY <1>1, <1>2, <1>3, Zenon DEF FirstBlock, EndBlock
<1>7. \A i \in Int : (i + 1) * K = i * K + K /\ i * K \in Int
  OBVIOUS
<1>8. \A i \in Int : a < i => aK + K <= i * K
  BY <1>4, <1>5, Monotone
<1>9. \A i \in Int : i < z => i * K + K <= zK
  BY <1>4, <1>5, Monotone
<1>10. off = aK + r /\ end = zK + s /\ (a = z => aK = zK)
  BY <1>4, <1>5, Zenon
<1>11. Spans(off, end, K, a, r, z, s, aK, zK)
  BY <1>1, <1>4, <1>5, <1>6, <1>7, <1>8, <1>9, <1>10, Zenon DEF Spans
<1> QED BY <1>11

\* What is copied for block i: the bytes of the file from where StartIn says.
LEMMA PartIs ==
  ASSUME NEW off \in Nat, NEW end \in Nat, off <= end, NEW i \in FirstBlock(off)..EndBlock(end)
  PROVE  /\ i \in Nat /\ LeftOf(i, off) \in 0..block_size - 1
         /\ i * block_size + LeftOf(i, off) = off + StartIn(i, off, end)
         /\ Copied(i, off, end, block_size - 1) = StartIn(i + 1, off, end) - StartIn(i, off, end)
         /\ Copied(i, off, end, block_size - 1) \in Nat
         /\ LeftOf(i, off) + Copied(i, off, end, block_size - 1) <= block_size
         /\ StartIn(i, off, end) \in 0..end - off /\ StartIn(i + 1, off, end) \in 0..end - off
<1>0. PICK K, a, r, z, s, aK, zK : Spans(off, end, K, a, r, z, s, aK, zK)
  BY SpansAre
<1>1. /\ K = block_size /\ K \in Nat \ {0} /\ a \in Nat /\ z \in Nat /\ r \in 0..K - 1 /\ s \in 0..K - 1
      /\ FirstBlock(off) = a /\ off % K = r /\ aK = a * K /\ aK \in Nat /\ off = aK + r
      /\ EndBlock(end) = z /\ end % K = s /\ zK = z * K /\ zK \in Nat /\ end = zK + s
      /\ a = z => aK = zK
      /\ \A x \in Int : a < x => aK + K <= x * K
      /\ \A x \in Int : x < z => x * K + K <= zK
      /\ \A x \in Int : (x + 1) * K = x * K + K /\ x * K \in Int
  BY <1>0 DEF Spans
<1>2. i \in Nat /\ a <= i /\ i <= z
  BY <1>1
<1>3. PICK iK \in Int : iK = i * K /\ (i + 1) * K = iK + K
  BY <1>1, <1>2
<1>4. (i = a => iK = aK) /\ (i = z => iK = zK) /\ (i # a => aK + K <= iK) /\ (i # z => iK + K <= zK)
  BY <1>1, <1>2, <1>3
<1>5. PICK l, c, x, y : /\ l = LeftOf(i, off) /\ c = Copied(i, off, end, block_size - 1)
                        /\ x = StartIn(i, off, end) /\ y = StartIn(i + 1, off, end)
  OBVIOUS
<1>6. l = IF i = a THEN r ELSE 0
  BY <1>1, <1>5, Zenon DEF LeftOf
<1>7. c = (IF i = z THEN end - zK - 1 ELSE K - 1) - l + 1
  BY <1>1, <1>5, Zenon DEF Copied
<1>8. x = IF i = a THEN 0 ELSE iK - off
  <2>1. i # z + 1
    BY <1>1, <1>2
  <2> QED BY <1>1, <1>3, <1>5, <2>1, Zenon DEF StartIn
<1>9. y = IF i = z THEN end - off ELSE iK + K - off
  <2>1. i + 1 # a /\ (i + 1 = z + 1 <=> i = z)
    BY <1>1, <1>2
  <2>2. PICK e \in Int : e = (i + 1) * K /\ e = iK + K
    BY <1>1, <1>3
  <2>3. y = IF i + 1 = a THEN 0 ELSE IF i + 1 = z + 1 THEN end - off ELSE e - off
    BY <1>1, <1>5, <2>2, Zenon DEF StartIn
  <2>4. y = IF i = z THEN end - off ELSE e - off
    BY <2>1, <2>3, Zenon
  <2> QED BY <1>1, <2>2, <2>4
<1>10. /\ K \in Nat \ {0} /\ aK \in Nat /\ zK \in Nat /\ r \in 0..K - 1 /\ s \in 0..K - 1 /\ off = aK + r /\ end = zK + s
       /\ off <= end
  BY <1>1
<1>11. /\ l \in 0..K - 1 /\ iK + l = off + x /\ c = y - x /\ c \in Nat /\ l + c <= K
       /\ x \in 0..end - off /\ y \in 0..end - off
  <2>1. CASE i = a /\ i = z
    <3>1. l = r /\ c = end - zK - 1 - r + 1 /\ x = 0 /\ y = end - off /\ iK = aK /\ aK = zK
      BY <1>4, <1>6, <1>7, <1>8, <1>9, <2>1
    <3> QED BY <1>10, <3>1
  <2>2. CASE i = a /\ i # z
    <3>1. l = r /\ c = K - 1 - r + 1 /\ x = 0 /\ y = iK + K - off /\ iK = aK /\ iK + K <= zK
      BY <1>4, <1>6, <1>7, <1>8, <1>9, <2>2
    <3> QED BY <1>10, <3>1
  <2>3. CASE i # a /\ i = z
    <3>1. l = 0 /\ c = end - zK - 1 - 0 + 1 /\ x = iK - off /\ y = end - off /\ iK = zK /\ aK + K <= iK
      BY <1>4, <1>6, <1>7, <1>8, <1>9, <2>3
    <3> QED BY <1>10, <3>1
  <2>4. CASE i # a /\ i # z
    <3>1. l = 0 /\ c = K - 1 - 0 + 1 /\ x = iK - off /\ y = iK + K - off /\ iK + K <= zK /\ aK + K <= iK
      BY <1>4, <1>6, <1>7, <1>8, <1>9, <2>4
    <3> QED BY <1>3, <1>10, <3>1
  <2> QED BY <2>1, <2>2, <2>3, <2>4
<1>12. K = block_size /\ iK = i * block_size
  BY <1>1, <1>3
<1> QED BY <1>2, <1>5, <1>11, <1>12, Zenon

\* A read that starts inside the file returns its bytes up to the file's end.
LEMMA FileReadIs ==
  ASSUME NEW f \in DOMAIN Files, FileShape, NEW off \in Nat, NEW n \in Nat, off <= inode[f].size
  PROVE  read_inode_filedata(f, off, n) = [j \in 1..ReadEnd(f, off, n) - off |-> ByteOf(f, off + j - 1)]
<1>1. PICK end \in Nat : end = ReadEnd(f, off, n) /\ off <= end
  <2>1. inode[f].size \in Nat
    BY DEF FileShape
  <2> QED BY <2>1 DEF ReadEnd
<1>2. PICK a \in Nat, z \in Nat : a = FirstBlock(off) /\ z = EndBlock(end) /\ a <= z
  <2>1. PICK K, u, r, v, s, uK, vK : Spans(off, end, K, u, r, v, s, uK, vK)
    BY <1>1, SpansAre
  <2>2. /\ K \in Nat \ {0} /\ u \in Nat /\ v \in Nat /\ uK \in Nat /\ vK \in Nat /\ off = uK + r /\ end = vK + s
        /\ r \in 0..K - 1 /\ s \in 0..K - 1 /\ uK = u * K /\ vK = v * K
        /\ FirstBlock(off) = u /\ EndBlock(end) = v /\ \A i \in Int : i < u => i * K + K <= uK
    <3>1. \A i \in Int : i < u => i * K + K <= u * K
      BY <2>1, Monotone DEF Spans
    <3> QED BY <2>1, <3>1, Zenon DEF Spans
  <2>3. u <= v
    <3>1. SUFFICES ASSUME v < u PROVE FALSE
      BY <2>2
    <3>2. vK + K <= uK
      BY <2>2, <3>1
    <3> QED BY <1>1, <2>2, <3>2
  <2> QED BY <2>2, <2>3
<1>3. PICK m \in Nat : m = z - a + 1
  BY <1>2
<1>4. PICK F : F = [j \in 1..end - off |-> ByteOf(f, off + j - 1)]
  OBVIOUS
<1>5. PICK P : P = [k \in 1..m + 1 |-> StartIn(a + k - 1, off, end)]
  OBVIOUS
<1>6. PICK seqs : seqs = [k \in 1..m |-> LET i == a + k - 1 IN
                    [j \in 1..Copied(i, off, end, block_size - 1) |-> content[BlockAt(f, i)][LeftOf(i, off) + j - 1]]]
  OBVIOUS
<1>7. P[1] = 0 /\ P[m + 1] = end - off
  <2>1. StartIn(a, off, end) = 0
    BY <1>2, Zenon DEF StartIn
  <2>2. StartIn(z + 1, off, end) = end - off
    <3>1. z + 1 # a
      BY <1>2
    <3> QED BY <1>2, <3>1, Zenon DEF StartIn
  <2>3. 1 \in 1..m + 1 /\ a + 1 - 1 = a /\ m + 1 \in 1..m + 1 /\ a + (m + 1) - 1 = z + 1
    BY <1>2, <1>3
  <2>4. P[1] = StartIn(a + 1 - 1, off, end) /\ P[m + 1] = StartIn(a + (m + 1) - 1, off, end)
    BY <1>5, <2>3, Zenon
  <2> QED BY <2>1, <2>2, <2>3, <2>4, Zenon
<1>8. ASSUME NEW k \in 1..m
      PROVE  P[k] \in Nat /\ P[k + 1] \in Nat /\ P[k] <= P[k + 1] /\ seqs[k] = Stretch(F, P[k], P[k + 1])
  <2>1. PICK i \in Nat : i = a + k - 1 /\ i \in a..z /\ i + 1 = a + (k + 1) - 1
    BY <1>2, <1>3
  <2>2. PICK l, c, x, y : /\ l = LeftOf(i, off) /\ c = Copied(i, off, end, block_size - 1)
                          /\ x = StartIn(i, off, end) /\ y = StartIn(i + 1, off, end)
    OBVIOUS
  <2>3. PICK K \in Nat \ {0} : K = block_size
    BY FilesAssumption
  <2>4. /\ l \in 0..K - 1 /\ i * K + l = off + x /\ c = y - x /\ c \in Nat /\ l + c <= K
        /\ x \in 0..end - off /\ y \in 0..end - off
    <3>1. i \in FirstBlock(off)..EndBlock(end)
      BY <1>2, <2>1
    <3> QED BY <1>1, <2>2, <2>3, <3>1, PartIs
  <2>5. P[k] = x /\ P[k + 1] = y
    <3>1. k \in 1..m + 1 /\ k + 1 \in 1..m + 1
      OBVIOUS
    <3>2. P[k] = StartIn(a + k - 1, off, end) /\ P[k + 1] = StartIn(a + (k + 1) - 1, off, end)
      BY <1>5, <3>1, Zenon
    <3> QED BY <2>1, <2>2, <3>2, Zenon
  <2>6. seqs[k] = [j \in 1..c |-> content[BlockAt(f, i)][l + j - 1]]
    BY <1>6, <2>1, <2>2, Zenon
  <2>7. ASSUME NEW j \in 1..y - x PROVE F[x + j] = content[BlockAt(f, i)][l + j - 1]
    <3>1. x + j \in 1..end - off /\ l + j - 1 \in 0..K - 1
      BY <1>1, <2>3, <2>4
    <3>2. PICK t \in Nat : t = off + (x + j) - 1
      BY <1>1, <2>4
    <3>3. t = i * K + (l + j - 1)
      <4>1. PICK iK \in Int : iK = i * K
        BY <2>3
      <4> QED BY <1>1, <2>3, <2>4, <3>2, <4>1
    <3>4. PICK e \in 0..K - 1 : e = l + j - 1
      BY <3>1
    <3>5. t \div K = i /\ t % K = e
      <4>1. K \in Nat \ {0} /\ i \in Int /\ e \in 0..K - 1 /\ t \in Int /\ t = i * K + e
        BY <2>3, <3>3, <3>4
      <4> QED BY <4>1, QuotientIs
    <3>6. F[x + j] = ByteOf(f, t)
      BY <1>4, <3>1, <3>2, Zenon
    <3>7. ByteOf(f, t) = content[BlockAt(f, i)][e]
      BY <2>3, <3>5, Zenon DEF ByteOf
    <3> QED BY <3>4, <3>6, <3>7, Zenon
  <2>8. Stretch(F, P[k], P[k + 1]) = [j \in 1..y - x |-> F[x + j]]
    BY <2>5, Zenon DEF Stretch
  <2>9. [j \in 1..y - x |-> F[x + j]] = [j \in 1..y - x |-> content[BlockAt(f, i)][l + j - 1]]
    BY <2>7, Zenon
  <2>10. seqs[k] = Stretch(F, P[k], P[k + 1])
    BY <2>4, <2>6, <2>8, <2>9, Zenon
  <2>11. x \in Nat /\ y \in Nat /\ x <= y
    BY <1>1, <2>4
  <2> QED BY <2>5, <2>10, <2>11, Zenon
<1>9. P \in [1..m + 1 -> Nat]
  <2>1. ASSUME NEW k \in 1..m + 1 PROVE P[k] \in Nat
    <3>1. CASE k \in 1..m
      BY <1>8, <3>1
    <3>2. CASE k = m + 1
      BY <1>1, <1>7, <3>2
    <3>3. k \in 1..m \/ k = m + 1
      OBVIOUS
    <3> QED BY <3>1, <3>2, <3>3, Zenon
  <2>2. P = [k \in 1..m + 1 |-> P[k]]
    BY <1>5
  <2> QED BY <2>1, <2>2
<1>10. seqs = [k \in 1..m |-> Stretch(F, P[k], P[k + 1])]
  <2>1. seqs = [k \in 1..m |-> seqs[k]]
    BY <1>6
  <2> QED BY <1>8, <2>1, Zenon
<1>11. FlattenSeq(seqs) = FirstOf(F, P[m + 1])
  BY <1>3, <1>7, <1>8, <1>9, <1>10, FlattenPieces
<1>12. FirstOf(F, end - off) = F
  BY <1>4 DEF FirstOf
<1>13. read_inode_filedata(f, off, n) = FlattenSeq(seqs)
  BY <1>1, <1>2, <1>3, <1>6, Zenon DEF read_inode_filedata
<1> QED BY <1>1, <1>4, <1>7, <1>11, <1>12, <1>13, Zenon

-----------------------------------------------------------------------------
(* Writing a file by blocks. *)

\* the disk after the buffer of block i was written back
PutBack(c, f, i, off, n, w) == LET b == BlockAt(f, i) IN [c EXCEPT ![b] = BlockAfter(c[b], i, off, n, w)]
\* after[i] of write_inode_filedata, for the blocks up to v
Afters(g, v, f, off, n, w) ==
  g = [i \in FirstBlock(off) - 1..v |-> IF i < FirstBlock(off) THEN content ELSE PutBack(g[i - 1], f, i, off, n, w)]

LEMMA AftersExists ==
  ASSUME NEW f, NEW off, NEW n, NEW w, FirstBlock(off) \in Int, NEW z \in Int, FirstBlock(off) - 1 <= z
  PROVE  \E g : Afters(g, z, f, off, n, w)
<1>1. PICK a \in Int : a = FirstBlock(off)
  OBVIOUS
<1> DEFINE S == {v \in a - 1..z : \E g : Afters(g, v, f, off, n, w)}
<1>2. a - 1 \in S
  <2> DEFINE g == [i \in a - 1..a - 1 |-> content]
  <2>1. g = [i \in a - 1..a - 1 |-> IF i < a THEN content ELSE PutBack(g[i - 1], f, i, off, n, w)]
    <3>1. \A i \in a - 1..a - 1 : i < a
      OBVIOUS
    <3> QED BY <3>1
  <2>2. Afters(g, a - 1, f, off, n, w)
    BY <1>1, <2>1, Zenon DEF Afters
  <2>3. a - 1 \in a - 1..z
    BY <1>1
  <2> HIDE DEF g
  <2> QED BY <2>2, <2>3
<1>3. ASSUME NEW v \in (a - 1) + 1..z, v - 1 \in S PROVE v \in S
  <2>1. PICK h : Afters(h, v - 1, f, off, n, w)
    BY <1>3
  <2>2. h = [i \in a - 1..v - 1 |-> IF i < a THEN content ELSE PutBack(h[i - 1], f, i, off, n, w)]
    BY <1>1, <2>1, Zenon DEF Afters
  <2> DEFINE g == [i \in a - 1..v |-> IF i = v THEN PutBack(h[v - 1], f, v, off, n, w) ELSE h[i]]
  <2>3. ASSUME NEW i \in a - 1..v PROVE g[i] = IF i < a THEN content ELSE PutBack(g[i - 1], f, i, off, n, w)
    <3>1. CASE i = v
      <4>1. ~(i < a) /\ v - 1 \in a - 1..v /\ v - 1 # v
        BY <3>1
      <4>2. g[i - 1] = h[v - 1]
        BY <3>1, <4>1
      <4>3. g[i] = PutBack(h[v - 1], f, v, off, n, w)
        BY <3>1
      <4> HIDE DEF g
      <4> QED BY <3>1, <4>1, <4>2, <4>3, Zenon
    <3>2. CASE i # v
      <4>1. i \in a - 1..v - 1 /\ g[i] = h[i]
        BY <3>2
      <4>2. ~(i < a) => g[i - 1] = h[i - 1]
        <5>1. ~(i < a) => i - 1 \in a - 1..v /\ i - 1 # v
          BY <4>1
        <5> QED BY <5>1
      <4>3. h[i] = IF i < a THEN content ELSE PutBack(h[i - 1], f, i, off, n, w)
        BY <2>2, <4>1, Zenon
      <4> HIDE DEF g
      <4> QED BY <4>1, <4>2, <4>3, Zenon
    <3> QED BY <3>1, <3>2
  <2>4. g = [i \in a - 1..v |-> g[i]]
    OBVIOUS
  <2> HIDE DEF g
  <2>5. Afters(g, v, f, off, n, w)
    <3>1. g = [i \in a - 1..v |-> IF i < a THEN content ELSE PutBack(g[i - 1], f, i, off, n, w)]
      BY <2>3, <2>4, Zenon
    <3> QED BY <1>1, <3>1, Zenon DEF Afters
  <2>6. v \in a - 1..z
    OBVIOUS
  <2> QED BY <2>5, <2>6
<1>4. z \in S
  <2> HIDE DEF S
  <2>1. \A v \in a - 1..z : v \in S
    BY <1>2, <1>3, RangeInduct
  <2> QED BY <1>1, <2>1
<1> QED BY <1>4

\* Of the disk, only blocks that the written part of the file maps to change; if that is one block,
\* it alone is rewritten.
LEMMA WriteFrames ==
  ASSUME NEW f \in DOMAIN Files, NEW off \in Nat, NEW n \in Nat, NEW w, FirstBlock(off) \in Nat, EndBlock(off + n) \in Nat,
         FirstBlock(off) <= EndBlock(off + n)
  PROVE  LET c == write_inode_filedata(f, off, n, w) IN
         /\ DOMAIN c = DOMAIN content
         /\ \A b \in DOMAIN content : (\A i \in FirstBlock(off)..EndBlock(off + n) : BlockAt(f, i) # b) => c[b] = content[b]
         /\ FirstBlock(off) = EndBlock(off + n) => c = PutBack(content, f, FirstBlock(off), off, n, w)
<1>1. PICK a \in Nat, z \in Nat : a = FirstBlock(off) /\ z = EndBlock(off + n) /\ a <= z
  OBVIOUS
<1>2. PICK g : g = CHOOSE h : Afters(h, z, f, off, n, w)
  OBVIOUS
<1>3. Afters(g, z, f, off, n, w)
  <2>1. \E h : Afters(h, z, f, off, n, w)
    <3>1. FirstBlock(off) \in Int /\ z \in Int /\ FirstBlock(off) - 1 <= z
      BY <1>1
    <3> QED BY <3>1, AftersExists, Zenon
  <2> QED BY <1>2, <2>1, Zenon
<1>4. g = [i \in a - 1..z |-> IF i < a THEN content ELSE PutBack(g[i - 1], f, i, off, n, w)]
  BY <1>1, <1>3, Zenon DEF Afters
<1>5. write_inode_filedata(f, off, n, w) = g[z]
  BY <1>1, <1>2, Zenon DEF write_inode_filedata, Afters, PutBack
<1>6. \A i \in a - 1..z : g[i] = IF i < a THEN content ELSE PutBack(g[i - 1], f, i, off, n, w)
  BY <1>4, Zenon
<1>7. g[a - 1] = content
  <2>1. a - 1 \in a - 1..z /\ a - 1 < a
    BY <1>1
  <2> QED BY <1>6, <2>1, Zenon
<1>8. ASSUME NEW i \in a..z PROVE g[i] = PutBack(g[i - 1], f, i, off, n, w)
  <2>1. i \in a - 1..z /\ ~(i < a)
    OBVIOUS
  <2> QED BY <1>6, <2>1, Zenon
<1> DEFINE Framed(v) == /\ DOMAIN g[v] = DOMAIN content
                        /\ \A b \in DOMAIN content : (\A i \in a..z : BlockAt(f, i) # b) => g[v][b] = content[b]
           S == {v \in a - 1..z : Framed(v)}
<1>9. a - 1 \in S
  <2>1. a - 1 \in a - 1..z
    BY <1>1
  <2> QED BY <1>7, <2>1
<1>10. ASSUME NEW v \in (a - 1) + 1..z, v - 1 \in S PROVE v \in S
  <2>1. v \in a..z /\ v \in a - 1..z
    OBVIOUS
  <2>2. PICK c : c = g[v - 1] /\ DOMAIN c = DOMAIN content
                 /\ \A b \in DOMAIN content : (\A i \in a..z : BlockAt(f, i) # b) => c[b] = content[b]
    BY <1>10
  <2>3. PICK p, q : p = BlockAt(f, v) /\ q = BlockAfter(c[p], v, off, n, w)
    OBVIOUS
  <2>4. g[v] = [c EXCEPT ![p] = q]
    BY <1>8, <2>1, <2>2, <2>3, Zenon DEF PutBack
  <2>5. DOMAIN g[v] = DOMAIN content
    BY <2>2, <2>4
  <2>6. ASSUME NEW b \in DOMAIN content, \A i \in a..z : BlockAt(f, i) # b PROVE g[v][b] = content[b]
    <3>1. p # b /\ c[b] = content[b]
      BY <2>1, <2>2, <2>3, <2>6, Zenon
    <3> QED BY <2>2, <2>4, <3>1
  <2> QED BY <2>1, <2>5, <2>6
<1>11. Framed(z)
  <2> HIDE DEF Framed
  <2>1. S \in SUBSET Int /\ a - 1 \in Int
    OBVIOUS
  <2>2. \A v \in a - 1..z : v \in S
    <3> HIDE DEF S
    <3> QED BY <1>9, <1>10, <2>1, RangeInduct
  <2>3. z \in a - 1..z
    BY <1>1
  <2> QED BY <2>2, <2>3
<1>12. FirstBlock(off) = EndBlock(off + n) => g[z] = PutBack(content, f, FirstBlock(off), off, n, w)
  <2>1. a \in a..z
    BY <1>1
  <2> QED BY <1>1, <1>7, <1>8, <2>1
<1> QED BY <1>1, <1>5, <1>11, <1>12

\* A write that ends in the block it starts in puts the caller's bytes at their place in it.
LEMMA BlockAfterIs ==
  ASSUME NEW off \in Nat, NEW n \in Nat, NEW w, NEW old, ~CrossesBlock(off, n)
  PROVE  LET K == block_size
             r == off % K
         IN  /\ BlockAfter(old, FirstBlock(off), off, n, w) =
                  [k \in 0..K - 1 |-> IF k \in r..r + n - 1 THEN Given(w, n, k - r) ELSE old[k]]
             /\ r + n <= K - 1
<1>1. PICK end \in Nat : end = off + n
  OBVIOUS
<1>2. PICK K, a, r, z, s, aK, zK : Spans(off, end, K, a, r, z, s, aK, zK)
  BY SpansAre
<1>3. /\ K = block_size /\ K \in Nat \ {0} /\ a \in Nat /\ r \in 0..K - 1 /\ s \in 0..K - 1
      /\ FirstBlock(off) = a /\ off % K = r /\ aK = a * K /\ aK \in Nat /\ off = aK + r
      /\ EndBlock(end) = z /\ zK = z * K /\ zK \in Nat /\ end = zK + s /\ (a = z => aK = zK)
  BY <1>2 DEF Spans
<1>4. a = z
  BY <1>1, <1>3 DEF CrossesBlock
<1>5. n = s - r
  BY <1>1, <1>3, <1>4
<1>6. CopiedBefore(a, off, end, K) = 0
  <2> DEFINE Sums(g) == g = [j \in FirstBlock(off)..a |-> IF j = FirstBlock(off) THEN 0 ELSE g[j - 1] + Copied(j - 1, off, end, K)]
             h == [j \in a..a |-> 0]
  <2>1. h = [j \in FirstBlock(off)..a |-> IF j = FirstBlock(off) THEN 0 ELSE h[j - 1] + Copied(j - 1, off, end, K)]
    <3>1. \A j \in a..a : j = a
      BY <1>3
    <3> QED BY <1>3, <3>1
  <2>2. Sums(h)
    <3> HIDE DEF h
    <3> QED BY <2>1, Zenon
  <2> HIDE DEF h
  <2>3. PICK g : g = CHOOSE x : Sums(x)
    OBVIOUS
  <2>4. Sums(g)
    <3> HIDE DEF Sums
    <3> QED BY <2>2, <2>3, Zenon
  <2>5. g[a] = 0
    <3>1. a \in FirstBlock(off)..a
      BY <1>3
    <3>2. g[a] = IF a = FirstBlock(off) THEN 0 ELSE g[a - 1] + Copied(a - 1, off, end, K)
      BY <2>4, <3>1, Zenon
    <3> QED BY <1>3, <3>2, Zenon
  <2>6. CopiedBefore(a, off, end, K) = g[a]
    BY <2>3, Zenon DEF CopiedBefore
  <2> QED BY <2>5, <2>6
<1>7. LeftOf(a, off) = r
  BY <1>3, Zenon DEF LeftOf
<1>8. Copied(a, off, end, K) = n
  <2>1. Copied(a, off, end, K) = end - zK - 1 - r + 1
    BY <1>3, <1>4, <1>7, Zenon DEF Copied
  <2> QED BY <1>3, <1>5, <2>1
<1>9. BlockAfter(old, a, off, n, w) =
        [k \in 0..K - 1 |-> IF k \in r..r + n - 1 THEN Given(w, n, 0 + k - r) ELSE old[k]]
  BY <1>1, <1>3, <1>6, <1>7, <1>8, Zenon DEF BlockAfter
<1>10. \A k \in 0..K - 1 : 0 + k - r = k - r
  BY <1>3
<1>11. BlockAfter(old, a, off, n, w) =
         [k \in 0..K - 1 |-> IF k \in r..r + n - 1 THEN Given(w, n, k - r) ELSE old[k]]
  BY <1>9, <1>10, Zenon
<1>12. r + n <= K - 1
  BY <1>3, <1>5
<1> QED BY <1>3, <1>11, <1>12, Zenon

\* Neither where a file's blocks are nor what other files hold depends on a write.
LEMMA SizeWritten ==
  ASSUME NEW f \in DOMAIN Files, NEW size \in Nat, FileShape,
         inode' = [inode EXCEPT ![f].size = size]
  PROVE  /\ \A g \in DOMAIN Files : /\ MapKept(g)' /\ inode'[g].slots = inode[g].slots
                                    /\ inode'[g].size \in Nat
                                    /\ inode'[g] = [size |-> inode'[g].size, slots |-> inode'[g].slots]
         /\ DOMAIN inode' = DOMAIN Files /\ inode'[f].size = size
<1>1. DOMAIN inode = DOMAIN Files /\ DOMAIN inode' = DOMAIN Files
  BY DEF FileShape
<1>2. ASSUME NEW g \in DOMAIN Files
      PROVE  /\ MapKept(g)' /\ inode'[g].slots = inode[g].slots /\ inode'[g].size \in Nat
             /\ inode'[g] = [size |-> inode'[g].size, slots |-> inode'[g].slots]
             /\ g = f => inode'[g].size = size
  <2>1. MapKept(g) /\ inode[g].size \in Nat /\ inode[g] = [size |-> inode[g].size, slots |-> inode[g].slots]
    BY DEF FileShape
  <2>2. inode'[g] = IF g = f THEN [inode[g] EXCEPT !.size = size] ELSE inode[g]
    BY <1>1
  <2>3. PICK old, new, m, v : /\ old = inode[g] /\ new = inode'[g] /\ m = old.slots /\ v = old.size
                              /\ v \in Nat /\ old = [size |-> v, slots |-> m]
    BY <2>1
  <2>4. new = IF g = f THEN [old EXCEPT !.size = size] ELSE old
    BY <2>2, <2>3
  <2>5. new.slots = m /\ new.size \in Nat /\ new = [size |-> new.size, slots |-> new.slots] /\ (g = f => new.size = size)
    BY <2>3, <2>4
  <2>6. MapKept(g)'
    BY <2>1, <2>3, <2>5, Zenon DEF MapKept
  <2> QED BY <2>3, <2>5, <2>6, Zenon
<1> QED BY <1>1, <1>2

LEMMA BlockAtStays ==
  ASSUME NEW f, NEW i, inode'[f].slots = inode[f].slots
  PROVE  BlockAt(f, i)' = BlockAt(f, i)
  BY Zenon DEF BlockAt

\* A file that is not written keeps its bytes.
LEMMA OthersKeep ==
  ASSUME NEW g \in DOMAIN Files, MapKept(g), KeepsBytes(g), DOMAIN given[g] \subseteq Nat,
         inode'[g].slots = inode[g].slots, given'[g] = given[g],
         \A i \in Nat : Held(g, i) => content'[BlockAt(g, i)] = content[BlockAt(g, i)]
  PROVE  KeepsBytes(g)'
<1>1. SUFFICES ASSUME NEW k \in DOMAIN given[g], given[g][k] # NoByte
               PROVE  Held(g, k \div block_size) /\ ByteOf(g, k)' = given[g][k]
  BY Zenon DEF KeepsBytes, Held, NoByte
<1>2. PICK q : q = k \div block_size /\ q \in Nat
  BY PlaceOf
<1>3. Held(g, q) /\ ByteOf(g, k) = given[g][k]
  BY <1>1, <1>2, Zenon DEF KeepsBytes
<1>4. content'[BlockAt(g, q)] = content[BlockAt(g, q)]
  BY <1>2, <1>3, Zenon
<1>5. BlockAt(g, q)' = BlockAt(g, q)
  BY BlockAtStays
<1>6. ByteOf(g, k)' = content'[BlockAt(g, q)'][k % block_size]
  BY <1>2, Zenon DEF ByteOf
<1>7. ByteOf(g, k) = content[BlockAt(g, q)][k % block_size]
  BY <1>2, Zenon DEF ByteOf
<1> QED BY <1>2, <1>3, <1>4, <1>5, <1>6, <1>7, Zenon

\* A write inside one block of the file: its bytes are the caller's, the others stay.
LEMMA WrittenKeeps ==
  ASSUME NEW f \in DOMAIN Files, NEW off \in Nat, NEW n \in Nat \ {0}, NEW w, NEW size,
         FileShape, KeepsBytes(f), ~CrossesBlock(off, n), BlockAt(f, FirstBlock(off)) # 0,
         inode'[f].slots = inode[f].slots, FirstBlock(off) \in Nat,
         content' = PutBack(content, f, FirstBlock(off), off, n, w),
         given'[f] = [k \in 0..size - 1 |-> IF k \in off..off + n - 1 THEN Given(w, n, k - off)
                                            ELSE IF k \in DOMAIN given[f] THEN given[f][k] ELSE NoByte]
  PROVE  KeepsBytes(f)'
<1>1. PICK a, b, K, r : /\ a = FirstBlock(off) /\ b = BlockAt(f, a) /\ K = block_size /\ r = off % K
                        /\ a \in Nat /\ K \in Nat \ {0} /\ b # 0
  BY FilesAssumption
<1>2. MapKept(f) /\ DOMAIN given[f] \subseteq Nat /\ DOMAIN content = 0..DiskBlocks - 1
  BY DEF FileShape
<1>3. b \in DOMAIN content /\ Held(f, a)
  BY <1>1, <1>2, BlockInDisk
<1>14. n \in Nat /\ n >= 1
  OBVIOUS
<1>4. PICK old, new : /\ old = content[b] /\ new = content'[b]
                      /\ new = [k \in 0..K - 1 |-> IF k \in r..r + n - 1 THEN Given(w, n, k - r) ELSE old[k]]
  <2>1. content' = [content EXCEPT ![b] = BlockAfter(content[b], a, off, n, w)]
    BY <1>1, Zenon DEF PutBack
  <2>2. content'[b] = BlockAfter(content[b], a, off, n, w)
    BY <1>3, <2>1
  <2>3. BlockAfter(content[b], a, off, n, w) =
          [k \in 0..K - 1 |-> IF k \in r..r + n - 1 THEN Given(w, n, k - r) ELSE content[b][k]]
    <3>1. PICK o : o = content[b]
      OBVIOUS
    <3>2. BlockAfter(o, FirstBlock(off), off, n, w) =
            [k \in 0..block_size - 1 |-> IF k \in (off % block_size)..(off % block_size) + n - 1
                                         THEN Given(w, n, k - (off % block_size)) ELSE o[k]]
      BY <1>14, BlockAfterIs
    <3> QED BY <1>1, <3>1, <3>2, Zenon
  <2> QED BY <2>2, <2>3, Zenon
<1>5. \A c \in DOMAIN content : c # b => content'[c] = content[c]
  <2>1. content' = [content EXCEPT ![b] = BlockAfter(content[b], a, off, n, w)]
    BY <1>1, Zenon DEF PutBack
  <2> QED BY <2>1
<1>6. r + n <= K - 1 /\ r \in 0..K - 1
  <2>1. r + n <= K - 1
    BY <1>1, BlockAfterIs
  <2> QED BY <1>1, <2>1, PlaceOf
<1>7. PICK aK \in Nat : aK = a * K /\ off = aK + r
  <2>1. off = (off \div block_size) * block_size + (off % block_size)
    BY PlaceOf
  <2>2. a = off \div block_size
    BY <1>1 DEF FirstBlock
  <2>3. off = a * K + r
    BY <1>1, <2>1, <2>2, Zenon
  <2>4. a * K \in Nat
    BY <1>1
  <2> QED BY <2>3, <2>4, Zenon
<1>8. SUFFICES ASSUME NEW k \in DOMAIN given'[f], given'[f][k] # NoByte
               PROVE  Held(f, k \div block_size) /\ ByteOf(f, k)' = given'[f][k]
  BY Zenon DEF KeepsBytes, Held, NoByte
<1>9. k \in Nat /\ given'[f][k] = IF k \in off..off + n - 1 THEN Given(w, n, k - off)
                                  ELSE IF k \in DOMAIN given[f] THEN given[f][k] ELSE NoByte
  <2>1. k \in 0..size - 1
    BY Zenon
  <2>2. given'[f][k] = IF k \in off..off + n - 1 THEN Given(w, n, k - off)
                       ELSE IF k \in DOMAIN given[f] THEN given[f][k] ELSE NoByte
    BY <2>1, Zenon
  <2>3. k \in Nat
    BY <2>1
  <2> QED BY <2>2, <2>3
<1>10. PICK q, m : q = k \div K /\ m = k % K /\ q \in Nat /\ m \in 0..K - 1 /\ k = q * K + m
  <2>1. /\ k \div block_size \in Nat /\ k % block_size \in 0..block_size - 1
        /\ k = (k \div block_size) * block_size + (k % block_size)
    BY <1>9, PlaceOf
  <2> QED BY <1>1, <2>1, Zenon
<1>11. /\ ByteOf(f, k)' = content'[BlockAt(f, q)][m] /\ ByteOf(f, k) = content[BlockAt(f, q)][m]
  <2>1. BlockAt(f, q)' = BlockAt(f, q)
    BY BlockAtStays
  <2>2. ByteOf(f, k)' = content'[BlockAt(f, q)'][m]
    BY <1>1, <1>10, Zenon DEF ByteOf
  <2>3. ByteOf(f, k) = content[BlockAt(f, q)][m]
    BY <1>1, <1>10, Zenon DEF ByteOf
  <2> QED BY <2>1, <2>2, <2>3, Zenon
<1>12. CASE k \in off..off + n - 1
  <2>1. PICK e \in Int : e = r + (k - off) /\ e \in r..r + n - 1 /\ e \in 0..K - 1 /\ k = aK + e /\ e - r = k - off
    <3>1. PICK x \in Nat, l \in Int : x = off /\ l = r
      BY <1>6
    <3>2. x <= k /\ k <= x + n - 1 /\ x = aK + l /\ 0 <= l /\ l + n <= K - 1
      BY <1>6, <1>7, <1>12, <1>14, <3>1
    <3>3. PICK y \in Int : y = l + (k - x)
      BY <1>9, <3>1
    <3>4. y \in l..l + n - 1 /\ y \in 0..K - 1 /\ k = aK + y /\ y - l = k - x
      BY <1>1, <1>9, <1>14, <3>2, <3>3
    <3> QED BY <3>1, <3>3, <3>4, Zenon
  <2>2. q = a /\ m = e
    <3>1. k = a * K + e /\ a \in Int /\ k \in Int /\ K \in Nat \ {0} /\ e \in 0..K - 1
      BY <1>1, <1>7, <1>9, <2>1
    <3>2. k \div K = a /\ k % K = e
      BY <3>1, QuotientIs
    <3> QED BY <1>10, <3>2, Zenon
  <2>3. new[e] = Given(w, n, e - r)
    BY <1>4, <2>1, Zenon
  <2>4. ByteOf(f, k)' = Given(w, n, k - off)
    BY <1>1, <1>4, <1>11, <2>1, <2>2, <2>3, Zenon
  <2>5. given'[f][k] = Given(w, n, k - off)
    BY <1>9, <1>12, Zenon
  <2> QED BY <1>1, <1>3, <1>10, <2>2, <2>4, <2>5, Zenon
<1>13. CASE k \notin off..off + n - 1
  <2>1. k \in DOMAIN given[f] /\ given'[f][k] = given[f][k] /\ given[f][k] # NoByte
    BY <1>8, <1>9, <1>13, Zenon
  <2>2. Held(f, q) /\ ByteOf(f, k) = given[f][k]
    BY <1>1, <1>10, <2>1, Zenon DEF KeepsBytes
  <2>3. content'[BlockAt(f, q)][m] = content[BlockAt(f, q)][m]
    <3>1. CASE q = a
      <4>1. k = aK + m
        BY <1>7, <1>10, <3>1, Zenon
      <4>2. m \notin r..r + n - 1
        <5>1. m \in Int /\ off \in Int /\ r \in Int
          BY <1>6, <1>10
        <5> QED BY <1>7, <1>13, <4>1, <5>1
      <4>3. new[m] = old[m]
        BY <1>4, <1>10, <4>2, Zenon
      <4> QED BY <1>1, <1>4, <3>1, <4>3, Zenon
    <3>2. CASE q # a
      <4>1. BlockAt(f, q) # b
        <5>1. SUFFICES ASSUME BlockAt(f, q) = b PROVE FALSE
          OBVIOUS
        <5>2. q = a
          <6>1. BlockAt(f, a) = BlockAt(f, q) /\ BlockAt(f, a) # 0
            BY <1>1, <5>1, Zenon
          <6>2. a \in Nat /\ q \in Nat
            BY <1>1, <1>10, Zenon
          <6> QED BY <1>2, <6>1, <6>2, HeldOnce
        <5> QED BY <3>2, <5>2
      <4>2. BlockAt(f, q) \in DOMAIN content
        BY <1>2, <1>10, BlockInDisk
      <4> QED BY <1>5, <4>1, <4>2, Zenon
    <3> QED BY <3>1, <3>2
  <2> QED BY <1>1, <1>10, <1>11, <2>1, <2>2, <2>3, Zenon
<1> QED BY <1>12, <1>13

LEMMA FileReadKeeps ==
  ASSUME NEW f \in DOMAIN Files, NEW off \in FileOffsets, NEW n \in FileSizes, FileInv, EXT2_read(f, off, n)
  PROVE  FileInv'
<1>1. off \in Nat /\ n \in Nat
  BY FilesAssumption
<1>2. fstatus = "ok" /\ UNCHANGED <<inode, content, given, strained>>
  BY DEF EXT2_read
<1>3. FileShape /\ \A g \in DOMAIN Files \ strained : KeepsBytes(g)
  BY <1>2 DEF FileInv
<1>4. SUFFICES ASSUME fstatus' = "ok" PROVE FileShape' /\ (\A g \in DOMAIN Files \ strained' : KeepsBytes(g)') /\ AnswerRight'
  BY DEF FileInv
<1>5. FileShape'
  BY <1>2, <1>3, Zenon DEF FileShape, MapKept
<1>6. ASSUME NEW g \in DOMAIN Files \ strained' PROVE KeepsBytes(g)'
  <2>1. KeepsBytes(g)
    BY <1>2, <1>3, Zenon
  <2> QED BY <1>2, <2>1, Zenon DEF KeepsBytes, ByteOf, BlockAt, Held, NoByte
<1>7. answer' = [file |-> f, off |-> off, n |-> n, data |-> read_inode_filedata(f, off, n)]
  <2>1. ~ReadRunsAway(f, off, n)
    BY <1>4 DEF EXT2_read
  <2> QED BY <2>1, Zenon DEF EXT2_read
<1>8. AnswerRight'
  <2>1. SUFFICES ASSUME off <= inode[f].size
                 PROVE  read_inode_filedata(f, off, n) =
                          [j \in 1..ReadEnd(f, off, n) - off |-> ByteOf(f, off + j - 1)]
    <3>1. answer'.file = f /\ answer'.off = off /\ answer'.n = n /\ answer'.data = read_inode_filedata(f, off, n)
      BY <1>7
    <3>2. ReadEnd(f, off, n)' = ReadEnd(f, off, n)
      BY <1>2, Zenon DEF ReadEnd
    <3>3. \A k : ByteOf(f, k)' = ByteOf(f, k)
      BY <1>2, Zenon DEF ByteOf, BlockAt
    <3> QED BY <1>2, <3>1, <3>2, <3>3, Zenon DEF AnswerRight, ReadEnd, ByteOf, BlockAt
  <2> QED BY <1>1, <1>3, <2>1, FileReadIs
<1> QED BY <1>5, <1>6, <1>8

LEMMA FileWriteKeeps ==
  ASSUME NEW f \in DOMAIN Files, NEW off \in FileOffsets, NEW n \in FileSizes, FileInv, EXT2_write(f, off, n)
  PROVE  FileInv'
<1>1. off \in Nat /\ n \in Nat /\ n > 0 /\ n \in Nat \ {0} /\ off + n \in Nat
  BY FilesAssumption DEF EXT2_write
<1>2. fstatus = "ok" /\ answer' = NoAnswer4
  BY DEF EXT2_write
<1>3. FileShape /\ \A g \in DOMAIN Files \ strained : KeepsBytes(g)
  BY <1>2 DEF FileInv
<1>4. SUFFICES ASSUME fstatus' = "ok" PROVE FileShape' /\ (\A g \in DOMAIN Files \ strained' : KeepsBytes(g)') /\ AnswerRight'
  BY DEF FileInv
<1>5. content' = write_inode_filedata(f, off, n, writes)
  <2>1. ~WriteRunsAway(f, off, n)
    BY <1>4 DEF EXT2_write
  <2> QED BY <2>1, Zenon DEF EXT2_write
<1>6. PICK size \in Nat : inode' = [inode EXCEPT ![f].size = size] /\ size = inode'[f].size
  <2>1. PICK v : v = inode[f].size /\ v \in Nat
    BY <1>3 DEF FileShape
  <2>2. PICK u \in Nat : u = IF off + n > v THEN off + n ELSE v
    BY <1>1, <2>1
  <2>3. inode' = [inode EXCEPT ![f].size = IF off + n > inode[f].size THEN off + n ELSE inode[f].size]
    BY Zenon DEF EXT2_write
  <2>4. inode' = [inode EXCEPT ![f].size = u]
    BY <2>1, <2>2, <2>3, Zenon
  <2>5. inode'[f].size = u
    BY <1>3, <2>4, SizeWritten
  <2> QED BY <2>4, <2>5
<1>7. /\ DOMAIN inode' = DOMAIN Files
      /\ \A g \in DOMAIN Files : /\ MapKept(g)' /\ inode'[g].slots = inode[g].slots /\ inode'[g].size \in Nat
                                 /\ inode'[g] = [size |-> inode'[g].size, slots |-> inode'[g].slots]
  BY <1>3, <1>6, SizeWritten
<1>8. PICK new : /\ given' = [given EXCEPT ![f] = new]
                 /\ new = [k \in 0..size - 1 |-> IF k \in off..off + n - 1 THEN Given(writes, n, k - off)
                             ELSE IF k \in DOMAIN given[f] THEN given[f][k] ELSE NoByte]
  BY <1>6, Zenon DEF EXT2_write
<1>9. /\ given'[f] = new /\ DOMAIN given' = DOMAIN Files
      /\ \A g \in DOMAIN Files : g # f => given'[g] = given[g]
  BY <1>3, <1>8 DEF FileShape
<1>10. PICK a \in Nat, z \in Nat : a = FirstBlock(off) /\ z = EndBlock(off + n) /\ a <= z
  <2>1. PICK K, u, r, v, s, uK, vK : Spans(off, off + n, K, u, r, v, s, uK, vK)
    BY <1>1, SpansAre
  <2>2. /\ K \in Nat \ {0} /\ u \in Nat /\ v \in Nat /\ uK \in Nat /\ vK \in Nat /\ off = uK + r /\ off + n = vK + s
        /\ r \in 0..K - 1 /\ s \in 0..K - 1 /\ uK = u * K /\ vK = v * K
        /\ FirstBlock(off) = u /\ EndBlock(off + n) = v
    BY <2>1, Zenon DEF Spans
  <2>3. u <= v
    <3>1. SUFFICES ASSUME v < u PROVE FALSE
      BY <2>2
    <3>2. vK + K <= uK
      <4>1. v * K + K <= u * K
        BY <2>2, <3>1, Monotone
      <4> QED BY <2>2, <4>1, Zenon
    <3> QED BY <1>1, <2>2, <3>2
  <2> QED BY <2>2, <2>3
<1>11. /\ DOMAIN content' = DOMAIN content
       /\ \A b \in DOMAIN content : (\A i \in a..z : BlockAt(f, i) # b) => content'[b] = content[b]
       /\ a = z => content' = PutBack(content, f, a, off, n, writes)
  BY <1>1, <1>5, <1>10, WriteFrames
<1>12. FileShape'
  <2>1. \A g \in DOMAIN Files : DOMAIN given'[g] \subseteq Nat
    <3>1. DOMAIN new \subseteq Nat
      <4>1. DOMAIN new = 0..size - 1
        BY <1>8, Zenon
      <4> QED BY <4>1
    <3> QED BY <1>3, <1>9, <3>1, Zenon DEF FileShape
  <2>2. DOMAIN content' = 0..DiskBlocks - 1
    BY <1>3, <1>11, Zenon DEF FileShape
  <2> QED BY <1>7, <1>9, <2>1, <2>2, Zenon DEF FileShape, MapKept
<1>13. AnswerRight'
  <2>1. answer'.file = 0
    BY <1>2 DEF NoAnswer4
  <2> QED BY <2>1, Zenon DEF AnswerRight
<1>14. ASSUME NEW g \in DOMAIN Files \ strained' PROVE KeepsBytes(g)'
  <2>1. strained' = IF CrossesBlock(off, n) \/ BlockAt(f, a) = 0 THEN strained \cup {f} ELSE strained
    BY <1>10, Zenon DEF EXT2_write
  <2>2. KeepsBytes(g) /\ MapKept(g) /\ MapKept(f) /\ DOMAIN given[g] \subseteq Nat /\ DOMAIN content = 0..DiskBlocks - 1
    <3>1. g \notin strained
      BY <2>1, Zenon
    <3> QED BY <1>3, <3>1, Zenon DEF FileShape
  <2>3. CASE g = f
    <3>1. ~CrossesBlock(off, n) /\ BlockAt(f, a) # 0
      BY <2>1, <2>3, Zenon
    <3>2. a = z
      BY <1>10, <3>1, Zenon DEF CrossesBlock
    <3>3. content' = PutBack(content, f, FirstBlock(off), off, n, writes) /\ FirstBlock(off) \in Nat
          /\ BlockAt(f, FirstBlock(off)) # 0 /\ inode'[f].slots = inode[f].slots /\ KeepsBytes(f)
      BY <1>7, <1>10, <1>11, <2>2, <2>3, <3>1, <3>2, Zenon
    <3>4. given'[f] = [k \in 0..size - 1 |-> IF k \in off..off + n - 1 THEN Given(writes, n, k - off)
                             ELSE IF k \in DOMAIN given[f] THEN given[f][k] ELSE NoByte]
      BY <1>8, <1>9, Zenon
    <3>5. KeepsBytes(f)'
      BY <1>1, <1>3, <3>1, <3>3, <3>4, WrittenKeeps
    <3> QED BY <2>3, <3>5, Zenon
  <2>4. CASE g # f
    <3>1. ASSUME NEW i \in Nat, Held(g, i) PROVE content'[BlockAt(g, i)] = content[BlockAt(g, i)]
      <4>1. PICK b : b = BlockAt(g, i) /\ b # 0 /\ b \in DOMAIN content
        BY <2>2, <3>1, BlockInDisk
      <4>2. ASSUME NEW j \in a..z, BlockAt(f, j) = b PROVE FALSE
        <5>1. j \in Nat /\ BlockAt(g, i) = BlockAt(f, j) /\ BlockAt(g, i) # 0
          BY <1>10, <4>1, <4>2
        <5>2. g = f
          BY <2>2, <5>1, HeldOnce
        <5> QED BY <2>4, <5>2
      <4> QED BY <1>11, <4>1, <4>2, Zenon
    <3>2. inode'[g].slots = inode[g].slots /\ given'[g] = given[g]
      BY <1>7, <1>9, <2>4, Zenon
    <3> QED BY <2>2, <3>1, <3>2, OthersKeep
  <2> QED BY <2>3, <2>4
<1> QED BY <1>12, <1>13, <1>14

LEMMA FileOpenKeeps ==
  ASSUME NEW f \in DOMAIN Files, FileInv, EXT2_open(f)
  PROVE  FileInv'
<1>1. /\ fstatus = "ok" /\ inode' = [inode EXCEPT ![f].size = 0] /\ given' = [given EXCEPT ![f] = <<>>]
      /\ answer' = NoAnswer4 /\ UNCHANGED <<content, strained>>
  BY DEF EXT2_open
<1>2. FileShape /\ \A g \in DOMAIN Files \ strained : KeepsBytes(g)
  BY <1>1 DEF FileInv
<1>3. /\ DOMAIN inode' = DOMAIN Files
      /\ \A g \in DOMAIN Files : /\ MapKept(g)' /\ inode'[g].slots = inode[g].slots /\ inode'[g].size \in Nat
                                 /\ inode'[g] = [size |-> inode'[g].size, slots |-> inode'[g].slots]
  <2>1. 0 \in Nat
    OBVIOUS
  <2> QED BY <1>1, <1>2, <2>1, SizeWritten
<1>4. DOMAIN given = DOMAIN Files /\ DOMAIN content = 0..DiskBlocks - 1 /\ \A g \in DOMAIN Files : DOMAIN given[g] \subseteq Nat
  BY <1>2 DEF FileShape
<1>5. DOMAIN given' = DOMAIN Files /\ DOMAIN given'[f] = {} /\ \A g \in DOMAIN Files : g # f => given'[g] = given[g]
  BY <1>1, <1>4
<1>6. FileShape'
  <2>1. \A g \in DOMAIN Files : DOMAIN given'[g] \subseteq Nat
    BY <1>4, <1>5
  <2> QED BY <1>1, <1>3, <1>4, <1>5, <2>1, Zenon DEF FileShape, MapKept
<1>7. ASSUME NEW g \in DOMAIN Files \ strained' PROVE KeepsBytes(g)'
  <2>1. CASE g = f
    BY <1>5, <2>1, Zenon DEF KeepsBytes
  <2>2. CASE g # f
    <3>1. KeepsBytes(g) /\ MapKept(g) /\ DOMAIN given[g] \subseteq Nat
      BY <1>1, <1>2, Zenon DEF FileShape
    <3>2. inode'[g].slots = inode[g].slots /\ given'[g] = given[g]
          /\ \A i \in Nat : Held(g, i) => content'[BlockAt(g, i)] = content[BlockAt(g, i)]
      BY <1>1, <1>3, <1>5, <2>2, Zenon
    <3> QED BY <3>1, <3>2, OthersKeep
  <2> QED BY <2>1, <2>2
<1>8. AnswerRight'
  <2>1. answer'.file = 0
    BY <1>1 DEF NoAnswer4
  <2> QED BY <2>1, Zenon DEF AnswerRight
<1> QED BY <1>6, <1>7, <1>8 DEF FileInv

LEMMA FilesKeep == FileInv /\ [FileNext]_fvars => FileInv'
<1> SUFFICES ASSUME FileInv, [FileNext]_fvars PROVE FileInv'
  OBVIOUS
<1>1. CASE FileNext
  <2>1. PICK f \in DOMAIN Files :
          (\E off \in FileOffsets, n \in FileSizes : EXT2_read(f, off, n) \/ EXT2_write(f, off, n)) \/ EXT2_open(f)
    BY <1>1, Zenon DEF FileNext
  <2>2. CASE \E off \in FileOffsets, n \in FileSizes : EXT2_read(f, off, n)
    BY <2>2, FileReadKeeps
  <2>3. CASE \E off \in FileOffsets, n \in FileSizes : EXT2_write(f, off, n)
    BY <2>3, FileWriteKeeps
  <2>4. CASE EXT2_open(f)
    BY <2>4, FileOpenKeeps
  <2> QED BY <2>1, <2>2, <2>3, <2>4, Zenon
<1>2. CASE UNCHANGED fvars
  <2>1. UNCHANGED <<inode, content, given, strained, answer, fstatus>>
    BY <1>2 DEF fvars
  <2>2. SUFFICES ASSUME fstatus = "ok" PROVE FileShape' /\ (\A g \in DOMAIN Files \ strained' : KeepsBytes(g)') /\ AnswerRight'
    BY <2>1, Zenon DEF FileInv
  <2>3. FileShape /\ (\A g \in DOMAIN Files \ strained : KeepsBytes(g)) /\ AnswerRight
    BY <2>2, Zenon DEF FileInv
  <2>4. FileShape'
    BY <2>1, <2>3, Zenon DEF FileShape, MapKept
  <2>5. \A g \in DOMAIN Files \ strained' : KeepsBytes(g)'
    BY <2>1, <2>3, Zenon DEF KeepsBytes, ByteOf, BlockAt, Held, NoByte
  <2>6. AnswerRight'
    BY <2>1, <2>3, Zenon DEF AnswerRight, ReadEnd, ByteOf, BlockAt
  <2> QED BY <2>4, <2>5, <2>6
<1> QED BY <1>1, <1>2

\* On every disk and with every size of blocks, direct numbers and indirect blocks, a file that is
\* written only inside blocks it owns gives back what was last written, and a read inside a file is
\* exact (read_inode_filedata, write_inode_filedata, get_DBlock_num), until a block number is data.
THEOREM FilesKept == FileInit /\ [][FileNext]_fvars => []FilesKeepBytes
<1> QED BY FilesStart, FilesKeep, FileInvShows, PTL

-----------------------------------------------------------------------------
(* The parts together. *)

\* In the composition that the run checks, no step of one part reaches another: the slices of the
\* block devices, the ring of the log and the bytes of the files hold in all its states.
THEOREM StorageHolds == MCSpec => [](ReadsSlice /\ WritesSlice /\ LogInBuffer /\ LogKeepsLast /\ FilesKeepBytes)
<1>1. MCInit => BlocksInv /\ LogInv /\ FileInv
  BY BlocksStart, LogStarts, FilesStart DEF MCInit
<1>2. (BlocksInv /\ LogInv /\ FileInv) /\ [BlocksStep \/ LogStep \/ FileStep]_<<part, bvars, lvars, fvars>> => (BlocksInv /\ LogInv /\ FileInv)'
  <2> SUFFICES ASSUME BlocksInv, LogInv, FileInv, [BlocksStep \/ LogStep \/ FileStep]_<<part, bvars, lvars, fvars>>
               PROVE  BlocksInv' /\ LogInv' /\ FileInv'
    OBVIOUS
  <2>1. [BlocksNext]_bvars /\ [LogNext]_lvars /\ [FileNext]_fvars
    BY Zenon DEF BlocksStep, LogStep, FileStep
  <2> QED BY <2>1, BlocksKeeps, LogKeeps, FilesKeep
<1>3. BlocksInv /\ LogInv /\ FileInv => ReadsSlice /\ WritesSlice /\ LogInBuffer /\ LogKeepsLast /\ FilesKeepBytes
  BY FileInvShows DEF BlocksInv, LogInv, LogType, Guarded, Unclamped, LogInBuffer, Ring, RingFrom, Following, LogKeepsLast
<1> QED BY <1>1, <1>2, <1>3, PTL DEF MCSpec
=============================================================================
