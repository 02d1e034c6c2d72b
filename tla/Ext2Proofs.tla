----------------------------- MODULE Ext2Proofs -----------------------------
(***************************************************************************)
(* A power loss between any two writes leaves a disk on which no two       *)
(* inodes share a block, every entry names an inode that was written, the  *)
(* free counts are off by at most one for each loss, no directory lists a  *)
(* name twice, and what is listed is found while the two agree on lengths; *)
(* for every disk that mkfs may leave, any names and any number of         *)
(* operations and losses. The last two rest on what the scan of a          *)
(* directory visits, which the first part of the module establishes.       *)
(***************************************************************************)
EXTENDS Ext2, FiniteSetTheorems, WellFoundedInduction, TLAPS

ImageFields == {"bbm", "ibm", "fb", "fi", "inode", "dir", "boot"}
InodeFields == {"type", "links", "block", "by"}
EntryFields == {"ino", "rec", "name"}

-----------------------------------------------------------------------------
(* The scan of a directory, given the length it expects of each name. *)

AnyName == Names \cup {NoName}
Offset == 0..2 * BlockUnits
Ahead == [n \in AnyName |-> Expected(n)]
Exact == [n \in AnyName |-> Rounded(n)]
Lengths == [AnyName -> 2..BlockUnits]

\* f[o] is what a scan visits from offset o on
Scans(f, b, L) ==
  \A o \in Offset :
    f[o] = IF o >= BlockUnits THEN <<>>
           ELSE IF At(b, o).rec # L[At(b, o).name] THEN <<o>>
           ELSE <<o>> \o f[o + L[At(b, o).name]]
Readable(b) == \A o \in DOMAIN b : b[o].name \in AnyName

LEMMA RangeInduct ==
  ASSUME NEW a \in Int, NEW z \in Int, NEW S, a \in S, \A v \in a + 1..z : v - 1 \in S => v \in S
  PROVE  \A v \in a..z : v \in S
<1> DEFINE Bad == {v \in a..z : v \notin S}
           T == {v - a : v \in Bad}
<1>1. SUFFICES ASSUME Bad # {} PROVE FALSE
  OBVIOUS
<1>2. T \in SUBSET Nat /\ T # {}
  <2>1. \A v \in Bad : v - a \in Nat
    OBVIOUS
  <2> QED BY <1>1, <2>1
<1>3. PICK t \in T : \A u \in T : ~(<<u, t>> \in OpToRel(<, Nat))
  <2> HIDE DEF T
  <2> QED BY <1>2, NatLessThanWellFounded, WFMin
<1>4. \A u \in T : t <= u
  <2>1. SUFFICES ASSUME NEW u \in T, ~(t <= u) PROVE FALSE
    OBVIOUS
  <2>2. t \in Nat /\ u \in Nat
    BY <1>2
  <2>3. <<u, t>> \in OpToRel(<, Nat)
    <3> HIDE DEF T
    <3> QED BY <2>1, <2>2 DEF OpToRel
  <2> QED BY <1>3, <2>3
<1>5. PICK x \in Bad : t = x - a
  OBVIOUS
<1>6. \A y \in Bad : x <= y
  <2>1. \A y \in Bad : y - a \in T /\ y \in Int
    OBVIOUS
  <2> QED BY <1>4, <1>5, <2>1
<1>7. x \in a + 1..z /\ x - 1 \in a..z /\ x \notin S
  OBVIOUS
<1>8. x - 1 \notin Bad
  BY <1>6, <1>7
<1> QED BY <1>7, <1>8

\* The same from the end of a range to its start.
LEMMA RangeInductDown ==
  ASSUME NEW z \in Nat, NEW S, z \in S, \A v \in 0..z - 1 : (\A w \in v + 1..z : w \in S) => v \in S
  PROVE  \A v \in 0..z : v \in S
<1> DEFINE T == {k \in 0..z : \A w \in z - k..z : w \in S}
<1>1. 0 \in T
  OBVIOUS
<1>2. ASSUME NEW k \in 0 + 1..z, k - 1 \in T PROVE k \in T
  <2>1. \A w \in z - (k - 1)..z : w \in S
    BY <1>2
  <2>2. z - k \in 0..z - 1 /\ (z - k) + 1 = z - (k - 1) /\ k \in 0..z
    OBVIOUS
  <2>3. z - k \in S
    BY <2>1, <2>2
  <2>4. \A w \in z - k..z : w = z - k \/ w \in z - (k - 1)..z
    OBVIOUS
  <2> QED BY <2>1, <2>2, <2>3, <2>4
<1>3. \A k \in 0..z : k \in T
  <2> HIDE DEF T
  <2> QED BY <1>1, <1>2, RangeInduct
<1>4. ASSUME NEW v \in 0..z PROVE v \in S
  <2>1. z - v \in 0..z /\ z - (z - v) = v
    OBVIOUS
  <2>2. \A w \in z - (z - v)..z : w \in S
    BY <1>3, <2>1
  <2> QED BY <2>1, <2>2
<1> QED BY <1>4

LEMMA NameLengths ==
  /\ Ahead \in Lengths /\ Exact \in Lengths /\ BlockUnits \in Nat
  /\ \A n \in AnyName : /\ Expected(n) = Ahead[n] /\ Rounded(n) = Exact[n]
                        /\ LenOf(n) % 4 # 0 => Ahead[n] = Exact[n]
<1>1. ASSUME NEW n \in AnyName
      PROVE  /\ Expected(n) \in 2..BlockUnits /\ Rounded(n) \in 2..BlockUnits
             /\ LenOf(n) % 4 # 0 => Expected(n) = Rounded(n)
  <2>1. LenOf(n) \in Nat
    BY Ext2Assumption DEF LenOf, AnyName
  <2>2. BlockUnits \in Nat /\ Expected(n) <= BlockUnits
    BY Ext2Assumption, NamesAssumption DEF AnyName
  <2>3. PICK l \in Nat : l = LenOf(n)
    BY <2>1
  <2>4. Expected(n) = (8 + l) \div 4 + 1 /\ Rounded(n) = (8 + l + 3) \div 4
    BY <2>3 DEF Expected, Rounded
  <2>5. /\ (8 + l) \div 4 + 1 \in Int /\ (8 + l + 3) \div 4 \in Int
        /\ 2 <= (8 + l + 3) \div 4 /\ (8 + l + 3) \div 4 <= (8 + l) \div 4 + 1
        /\ l % 4 # 0 => (8 + l) \div 4 + 1 = (8 + l + 3) \div 4
    OBVIOUS
  <2> QED BY <2>2, <2>3, <2>4, <2>5
<1>2. BlockUnits \in Nat
  BY Ext2Assumption
<1>3. Ahead \in Lengths /\ Exact \in Lengths
  BY <1>1 DEF Ahead, Exact, Lengths
<1> QED BY <1>1, <1>2, <1>3 DEF Ahead, Exact

\* Where a scan goes from an offset inside the block.
LEMMA ScanStep ==
  ASSUME NEW b, Readable(b), NEW L \in Lengths, NEW o \in 0..BlockUnits - 1
  PROVE  /\ L[At(b, o).name] \in 2..BlockUnits /\ o \in Offset
         /\ o + L[At(b, o).name] \in o + 1..2 * BlockUnits /\ o + L[At(b, o).name] \in Offset
<1>1. BlockUnits \in Nat
  BY NameLengths
<1>2. At(b, o).name \in AnyName
  BY DEF At, Readable, Blank, AnyName
<1>3. PICK l \in 2..BlockUnits : l = L[At(b, o).name]
  BY <1>2 DEF Lengths
<1> QED BY <1>1, <1>3 DEF Offset

LEMMA ScanExists ==
  ASSUME NEW b, Readable(b), NEW L \in Lengths
  PROVE  \E f : f = [o \in Offset |-> f[o]] /\ Scans(f, b, L)
<1> DEFINE Is(f, o) == f[o] = IF o >= BlockUnits THEN <<>>
                              ELSE IF At(b, o).rec # L[At(b, o).name] THEN <<o>>
                              ELSE <<o>> \o f[o + L[At(b, o).name]]
           z == 2 * BlockUnits
           S == {k \in 0..z : \E f : f = [o \in Offset |-> f[o]] /\ \A o \in z - k..z : Is(f, o)}
<1>0. BlockUnits \in Nat /\ z \in Nat /\ \A o \in Offset : o \in 0..z
  BY NameLengths DEF Offset
<1>1. 0 \in S
  <2> DEFINE f == [o \in Offset |-> <<>>]
  <2>1. f = [o \in Offset |-> f[o]]
    OBVIOUS
  <2>2. ASSUME NEW o \in z - 0..z PROVE Is(f, o)
    <3>1. o = z /\ o >= BlockUnits /\ o \in Offset
      BY <1>0 DEF Offset
    <3> QED BY <3>1
  <2> HIDE DEF f, Is, z
  <2>3. 0 \in 0..z
    BY <1>0
  <2> QED BY <2>1, <2>2, <2>3
<1>2. ASSUME NEW k \in 0 + 1..z, k - 1 \in S PROVE k \in S
  <2>1. PICK h : h = [o \in Offset |-> h[o]] /\ \A o \in z - (k - 1)..z : Is(h, o)
    BY <1>2
  <2>2. PICK v : v = z - k
    OBVIOUS
  <2>3. v \in 0..z /\ v \in Offset /\ v + 1 = z - (k - 1) /\ k \in 0..z
    BY <1>0, <2>2 DEF Offset
  <2> DEFINE y == IF v >= BlockUnits THEN <<>>
                  ELSE IF At(b, v).rec # L[At(b, v).name] THEN <<v>>
                  ELSE <<v>> \o h[v + L[At(b, v).name]]
             f == [h EXCEPT ![v] = y]
  <2>4. DOMAIN h = Offset
    BY <2>1
  <2>5. f[v] = y /\ f = [o \in Offset |-> f[o]] /\ \A o \in Offset : o # v => f[o] = h[o]
    BY <2>3, <2>4
  <2> HIDE DEF f
  <2>6. ASSUME NEW o \in v..z PROVE Is(f, o)
    <3>1. o \in 0..z /\ o \in Offset /\ (o = v \/ o \in z - (k - 1)..z)
      BY <1>0, <2>3 DEF Offset
    <3>2. ~(o >= BlockUnits) => o + L[At(b, o).name] \in Offset /\ o + L[At(b, o).name] # v
      <4>1. SUFFICES ASSUME ~(o >= BlockUnits) PROVE o + L[At(b, o).name] \in Offset /\ o + L[At(b, o).name] # v
        OBVIOUS
      <4>2. o \in 0..BlockUnits - 1 /\ o \in Int /\ v \in Int /\ v <= o
        BY <1>0, <2>3, <3>1, <4>1
      <4>3. o + L[At(b, o).name] \in Offset /\ o + L[At(b, o).name] \in o + 1..2 * BlockUnits
        BY <4>2, ScanStep
      <4>4. \A e \in o + 1..2 * BlockUnits : e # v
        BY <1>0, <4>2
      <4> QED BY <4>3, <4>4
    <3>3. ~(o >= BlockUnits) => f[o + L[At(b, o).name]] = h[o + L[At(b, o).name]]
      BY <2>5, <3>2
    <3>4. CASE o = v
      <4> HIDE DEF z
      <4> QED BY <2>5, <3>3, <3>4
    <3>5. CASE o # v
      <4>1. Is(h, o) /\ f[o] = h[o]
        BY <2>1, <2>5, <3>1, <3>5
      <4> HIDE DEF z
      <4> QED BY <3>3, <4>1
    <3> QED BY <3>4, <3>5
  <2> HIDE DEF Is, z
  <2>7. \A o \in z - k..z : Is(f, o)
    BY <2>2, <2>6
  <2> QED BY <2>3, <2>5, <2>7
<1>3. \A k \in 0..z : k \in S
  <2> HIDE DEF S, z
  <2> QED BY <1>0, <1>1, <1>2, RangeInduct
<1>4. PICK f : f = [o \in Offset |-> f[o]] /\ \A o \in z - z..z : Is(f, o)
  <2>1. z \in S
    BY <1>0, <1>3
  <2> QED BY <2>1
<1>5. Scans(f, b, L)
  <2>1. \A o \in Offset : o \in z - z..z
    BY <1>0
  <2>2. \A o \in Offset : Is(f, o)
    BY <1>4, <2>1
  <2> QED BY <2>2 DEF Scans
<1> QED BY <1>4, <1>5

LEMMA ScanIs ==
  ASSUME NEW b, Readable(b)
  PROVE  /\ \E f : Scans(f, b, Ahead) /\ Chain(b, Expected) = f[0]
         /\ \E f : Scans(f, b, Exact) /\ Chain(b, Rounded) = f[0]
<1> DEFINE Body(f, Len4(_)) == f = [o \in 0..2 * BlockUnits |->
              IF o >= BlockUnits THEN <<>>
              ELSE IF At(b, o).rec # Len4(At(b, o).name) THEN <<o>>
              ELSE <<o>> \o f[o + At(b, o).rec]]
<1>0. BlockUnits \in Nat /\ 0 \in Offset /\ Ahead \in Lengths /\ Exact \in Lengths
  BY NameLengths DEF Offset
<1>1. \A o \in Offset : ~(o >= BlockUnits) => /\ Expected(At(b, o).name) = Ahead[At(b, o).name]
                                              /\ Rounded(At(b, o).name) = Exact[At(b, o).name]
  <2>1. \A o : At(b, o).name \in AnyName
    BY DEF At, Readable, Blank, AnyName
  <2> QED BY <2>1, NameLengths
<1>2. \E f : Scans(f, b, Ahead) /\ Chain(b, Expected) = f[0]
  <2>1. PICK f : f = [o \in Offset |-> f[o]] /\ Scans(f, b, Ahead)
    BY <1>0, ScanExists
  <2>2. \A o \in Offset : f[o] = IF o >= BlockUnits THEN <<>>
                                 ELSE IF At(b, o).rec # Expected(At(b, o).name) THEN <<o>>
                                 ELSE <<o>> \o f[o + At(b, o).rec]
    BY <1>1, <2>1 DEF Scans
  <2>3. Body(f, Expected)
    BY <2>1, <2>2 DEF Offset
  <2>4. PICK g : g = CHOOSE h : Body(h, Expected)
    OBVIOUS
  <2>5. Body(g, Expected)
    BY <2>3, <2>4
  <2>6. \A o \in Offset : g[o] = IF o >= BlockUnits THEN <<>>
                                 ELSE IF At(b, o).rec # Expected(At(b, o).name) THEN <<o>>
                                 ELSE <<o>> \o g[o + At(b, o).rec]
    BY <2>5, Zenon DEF Offset
  <2>7. Scans(g, b, Ahead)
    BY <1>1, <2>6 DEF Scans
  <2>8. Chain(b, Expected) = g[0]
    BY <2>4, Zenon DEF Chain
  <2> QED BY <2>7, <2>8
<1>3. \E f : Scans(f, b, Exact) /\ Chain(b, Rounded) = f[0]
  <2>1. PICK f : f = [o \in Offset |-> f[o]] /\ Scans(f, b, Exact)
    BY <1>0, ScanExists
  <2>2. \A o \in Offset : f[o] = IF o >= BlockUnits THEN <<>>
                                 ELSE IF At(b, o).rec # Rounded(At(b, o).name) THEN <<o>>
                                 ELSE <<o>> \o f[o + At(b, o).rec]
    BY <1>1, <2>1 DEF Scans
  <2>3. Body(f, Rounded)
    BY <2>1, <2>2 DEF Offset
  <2>4. PICK g : g = CHOOSE h : Body(h, Rounded)
    OBVIOUS
  <2>5. Body(g, Rounded)
    BY <2>3, <2>4
  <2>6. \A o \in Offset : g[o] = IF o >= BlockUnits THEN <<>>
                                 ELSE IF At(b, o).rec # Rounded(At(b, o).name) THEN <<o>>
                                 ELSE <<o>> \o g[o + At(b, o).rec]
    BY <2>5, Zenon DEF Offset
  <2>7. Scans(g, b, Exact)
    BY <1>1, <2>6 DEF Scans
  <2>8. Chain(b, Rounded) = g[0]
    BY <2>4, Zenon DEF Chain
  <2> QED BY <2>7, <2>8
<1> QED BY <1>2, <1>3

\* One offset more in front.
LEMMA InFront ==
  ASSUME NEW S, NEW o \in S, NEW s \in Seq(S)
  PROVE  /\ <<o>> \o s \in Seq(S) /\ <<o>> \o s # <<>> /\ Range(<<o>> \o s) = {o} \cup Range(s)
         /\ Last(<<o>> \o s) = IF s = <<>> THEN o ELSE Last(s)
         /\ Range(<<o>>) = {o} /\ Last(<<o>>) = o /\ <<o>> \in Seq(S) /\ <<o>> # <<>>
<1>0. PICK t \in Seq(S) : t = <<o>> /\ Len(t) = 1 /\ t[1] = o
  <2>1. <<o>> \in Seq(S) /\ Len(<<o>>) = 1 /\ <<o>>[1] = o
    OBVIOUS
  <2> QED BY <2>1
<1>1. PICK u : u = t \o s
  OBVIOUS
<1>2. u \in Seq(S) /\ Len(u) = Len(s) + 1 /\ u[1] = o /\ \A i \in 1..Len(s) : u[i + 1] = s[i]
  BY <1>0, <1>1
<1>3. Len(s) \in Nat /\ (s = <<>> <=> Len(s) = 0) /\ DOMAIN s = 1..Len(s) /\ DOMAIN u = 1..Len(u)
  BY <1>2
<1>4. Range(u) = {o} \cup Range(s)
  <2>1. ASSUME NEW x \in Range(u) PROVE x \in {o} \cup Range(s)
    <3>1. PICK i \in 1..Len(s) + 1 : x = u[i]
      BY <1>2, <1>3 DEF Range
    <3>2. CASE i = 1
      BY <1>2, <3>1, <3>2
    <3>3. CASE i # 1
      <4>1. i - 1 \in 1..Len(s) /\ (i - 1) + 1 = i
        BY <1>3, <3>3
      <4>2. x = s[i - 1]
        BY <1>2, <3>1, <4>1
      <4> QED BY <1>3, <4>1, <4>2 DEF Range
    <3> QED BY <3>2, <3>3
  <2>2. o \in Range(u)
    <3>1. 1 \in DOMAIN u
      BY <1>2, <1>3
    <3> QED BY <1>2, <3>1 DEF Range
  <2>3. ASSUME NEW x \in Range(s) PROVE x \in Range(u)
    <3>1. PICK i \in 1..Len(s) : x = s[i]
      BY <1>3 DEF Range
    <3>2. i + 1 \in DOMAIN u
      BY <1>2, <1>3
    <3> QED BY <1>2, <3>1, <3>2 DEF Range
  <2> QED BY <2>1, <2>2, <2>3
<1>5. Last(u) = IF s = <<>> THEN o ELSE Last(s)
  <2>1. CASE s = <<>>
    BY <1>2, <1>3, <2>1 DEF Last
  <2>2. CASE s # <<>>
    <3>1. Len(s) \in 1..Len(s)
      BY <1>3, <2>2
    <3> QED BY <1>2, <2>2, <3>1 DEF Last
  <2> QED BY <2>1, <2>2
<1>6. Range(t) = {o} /\ Last(t) = o /\ t # <<>>
  BY <1>0 DEF Range, Last
<1> QED BY <1>0, <1>1, <1>2, <1>3, <1>4, <1>5, <1>6

(* What a scan visits: offsets in the block, from o on; o alone where the length is not the one
   expected, and else what the scan from the next entry visits too. *)
Inside(f, o) == f[o] \in Seq(0..BlockUnits - 1) /\ \A e \in Range(f[o]) : e \in 0..BlockUnits - 1 /\ o <= e

LEMMA ScanEnds ==
  ASSUME NEW b, NEW L, NEW f, Scans(f, b, L), NEW o \in Offset, o >= BlockUnits
  PROVE  f[o] = <<>> /\ Range(f[o]) = {} /\ Inside(f, o)
<1>1. f[o] = <<>>
  BY DEF Scans
<1>2. Range(<<>>) = {} /\ <<>> \in Seq(0..BlockUnits - 1)
  BY DEF Range
<1> QED BY <1>1, <1>2 DEF Inside

LEMMA ScanOne ==
  ASSUME NEW b, Readable(b), NEW L \in Lengths, NEW f, Scans(f, b, L), NEW o \in 0..BlockUnits - 1, At(b, o).rec # L[At(b, o).name]
  PROVE  f[o] # <<>> /\ Range(f[o]) = {o} /\ Last(f[o]) = o /\ Inside(f, o)
<1>1. ~(o >= BlockUnits) /\ o \in Offset /\ o \in Int
  BY NameLengths DEF Offset
<1>2. f[o] = <<o>>
  BY <1>1 DEF Scans
<1>3. PICK T : T = 0..BlockUnits - 1
  OBVIOUS
<1>4. <<>> \in Seq(T) /\ o \in T
  BY <1>3
<1>5. Range(<<o>>) = {o} /\ Last(<<o>>) = o /\ <<o>> \in Seq(T) /\ <<o>> # <<>>
  BY <1>4, InFront
<1> QED BY <1>1, <1>2, <1>3, <1>5 DEF Inside

LEMMA ScansEnd ==
  ASSUME NEW b, Readable(b), NEW L \in Lengths, NEW f, Scans(f, b, L)
  PROVE  \A o \in 0..BlockUnits - 1 : At(b, o).rec # L[At(b, o).name] => Range(f[o]) = {o} /\ Last(f[o]) = o
<1>1. ASSUME NEW o \in 0..BlockUnits - 1, At(b, o).rec # L[At(b, o).name] PROVE Range(f[o]) = {o} /\ Last(f[o]) = o
  BY <1>1, ScanOne
<1> QED BY <1>1

LEMMA ScanGoesOn ==
  ASSUME NEW b, Readable(b), NEW L \in Lengths, NEW f, Scans(f, b, L), NEW o \in 0..BlockUnits - 1, NEW p, p \in Range(f[o]), p # o
  PROVE  At(b, o).rec = L[At(b, o).name]
<1>1. SUFFICES ASSUME At(b, o).rec # L[At(b, o).name] PROVE FALSE
  OBVIOUS
<1>2. Range(f[o]) = {o}
  BY <1>1, ScanOne
<1> QED BY <1>2

LEMMA ScanMore ==
  ASSUME NEW b, Readable(b), NEW L \in Lengths, NEW f, Scans(f, b, L), NEW o \in 0..BlockUnits - 1,
         At(b, o).rec = L[At(b, o).name], NEW up, up = o + L[At(b, o).name], Inside(f, up)
  PROVE  /\ f[o] # <<>> /\ Range(f[o]) = {o} \cup Range(f[up]) /\ Inside(f, o)
         /\ Last(f[o]) = IF f[up] = <<>> THEN o ELSE Last(f[up])
<1>1. ~(o >= BlockUnits) /\ o \in Offset /\ o \in Int
  BY NameLengths DEF Offset
<1>2. f[o] = <<o>> \o f[up]
  BY <1>1 DEF Scans
<1>3. PICK T : T = 0..BlockUnits - 1
  OBVIOUS
<1>4. PICK s \in Seq(T) : s = f[up]
  BY <1>3 DEF Inside
<1>5. /\ <<o>> \o s \in Seq(T) /\ <<o>> \o s # <<>> /\ Range(<<o>> \o s) = {o} \cup Range(s)
      /\ Last(<<o>> \o s) = IF s = <<>> THEN o ELSE Last(s)
  <2>1. o \in T
    BY <1>3
  <2> QED BY <2>1, InFront
<1>6. PICK u \in o + 1..2 * BlockUnits : u = up
  BY ScanStep
<1>7. \A e \in Range(f[o]) : e \in 0..BlockUnits - 1 /\ o <= e
  <2> SUFFICES ASSUME NEW e \in Range(f[o]) PROVE e \in 0..BlockUnits - 1 /\ o <= e
    OBVIOUS
  <2>1. e = o \/ e \in Range(f[up])
    BY <1>2, <1>4, <1>5
  <2>2. e \in Range(f[up]) => e \in 0..BlockUnits - 1 /\ u <= e
    BY <1>6 DEF Inside
  <2> QED BY <1>1, <1>6, <2>1, <2>2
<1> QED BY <1>2, <1>3, <1>4, <1>5, <1>7 DEF Inside

LEMMA ScanInside ==
  ASSUME NEW b, Readable(b), NEW L \in Lengths, NEW f, Scans(f, b, L)
  PROVE  \A o \in Offset : Inside(f, o)
<1>0. BlockUnits \in Nat /\ Offset = 0..2 * BlockUnits /\ 2 * BlockUnits \in Nat
  BY NameLengths DEF Offset
<1> DEFINE S == {v \in Offset : Inside(f, v)}
<1>1. 2 * BlockUnits \in S
  <2>1. 2 * BlockUnits \in Offset /\ 2 * BlockUnits >= BlockUnits
    BY <1>0
  <2> QED BY <2>1, ScanEnds
<1>2. ASSUME NEW v \in 0..2 * BlockUnits - 1, \A w \in v + 1..2 * BlockUnits : w \in S PROVE v \in S
  <2>1. v \in Offset
    BY <1>0
  <2>2. CASE v >= BlockUnits
    BY <2>1, <2>2, ScanEnds
  <2>3. CASE v < BlockUnits
    <3>1. v \in 0..BlockUnits - 1
      BY <1>0, <2>3
    <3>2. PICK up : up = v + L[At(b, v).name]
      OBVIOUS
    <3>3. up \in v + 1..2 * BlockUnits
      BY <3>1, <3>2, ScanStep
    <3>4. Inside(f, up)
      BY <1>2, <3>3
    <3>5. Inside(f, v)
      BY <3>1, <3>2, <3>4, ScanOne, ScanMore
    <3> QED BY <2>1, <3>5
  <2>4. v >= BlockUnits \/ v < BlockUnits
    BY <1>0
  <2> QED BY <2>2, <2>3, <2>4
<1>3. \A o \in 0..2 * BlockUnits : o \in S
  <2> HIDE DEF S
  <2> QED BY <1>0, <1>1, <1>2, RangeInductDown
<1> QED BY <1>0, <1>3

LEMMA ScanNext ==
  ASSUME NEW b, Readable(b), NEW L \in Lengths, NEW f, Scans(f, b, L), NEW o \in 0..BlockUnits - 1,
         At(b, o).rec = L[At(b, o).name], NEW up, up = o + L[At(b, o).name]
  PROVE  /\ up \in o + 1..2 * BlockUnits /\ Range(f[o]) = {o} \cup Range(f[up])
         /\ Last(f[o]) = IF up >= BlockUnits THEN o ELSE Last(f[up])
<1>0. BlockUnits \in Nat /\ Offset = 0..2 * BlockUnits
  BY NameLengths DEF Offset
<1>1. up \in o + 1..2 * BlockUnits
  BY ScanStep
<1>2. up \in Offset /\ up \in Int
  BY <1>0, <1>1
<1>3. Inside(f, up)
  BY <1>2, ScanInside
<1>4. /\ f[o] # <<>> /\ Range(f[o]) = {o} \cup Range(f[up])
      /\ Last(f[o]) = IF f[up] = <<>> THEN o ELSE Last(f[up])
  BY <1>3, ScanMore
<1>5. up >= BlockUnits => f[up] = <<>>
  BY <1>2, ScanEnds
<1>6. ~(up >= BlockUnits) => f[up] # <<>>
  <2>1. SUFFICES ASSUME ~(up >= BlockUnits) PROVE f[up] # <<>>
    OBVIOUS
  <2>2. up \in 0..BlockUnits - 1
    BY <1>0, <1>1, <2>1
  <2>3. PICK next : next = up + L[At(b, up).name]
    OBVIOUS
  <2>4. next \in Offset
    BY <2>2, <2>3, ScanStep
  <2>5. Inside(f, next)
    BY <2>4, ScanInside
  <2> QED BY <2>2, <2>3, <2>5, ScanOne, ScanMore
<1> QED BY <1>1, <1>4, <1>5, <1>6, Zenon

(* An entry whose length reaches the end of the block is the last one that a scan visits. *)
LEMMA ScanToEnd ==
  ASSUME NEW b, Readable(b), NEW L \in Lengths, NEW f, Scans(f, b, L), NEW o \in 0..BlockUnits - 1,
         At(b, o).rec = BlockUnits - o
  PROVE  Range(f[o]) = {o}
<1>1. CASE At(b, o).rec # L[At(b, o).name]
  BY <1>1, ScanOne
<1>2. CASE At(b, o).rec = L[At(b, o).name]
  <2>1. PICK up : up = o + L[At(b, o).name]
    OBVIOUS
  <2>2. Range(f[o]) = {o} \cup Range(f[up])
    BY <1>2, <2>1, ScanNext
  <2>3. up \in Offset
    BY <2>1, ScanStep
  <2>4. up = BlockUnits
    BY <1>2, <2>1, NameLengths
  <2>5. Range(f[up]) = {}
    <3>1. BlockUnits >= BlockUnits
      BY NameLengths
    <3> QED BY <2>3, <2>4, <3>1, ScanEnds
  <2> QED BY <2>2, <2>5
<1> QED BY <1>1, <1>2

LEMMA ScanHere ==
  ASSUME NEW b, Readable(b), NEW L \in Lengths, NEW f, Scans(f, b, L), NEW o \in 0..BlockUnits - 1
  PROVE  f[o] # <<>> /\ o \in Range(f[o])
<1>1. CASE At(b, o).rec # L[At(b, o).name]
  BY <1>1, ScanOne
<1>2. CASE At(b, o).rec = L[At(b, o).name]
  <2>1. PICK up : up = o + L[At(b, o).name]
    OBVIOUS
  <2>2. up \in Offset
    BY <2>1, ScanStep
  <2>3. Inside(f, up)
    BY <2>2, ScanInside
  <2> QED BY <1>2, <2>1, <2>3, ScanMore
<1> QED BY <1>1, <1>2

(* Two scans of blocks whose entries have the same lengths and names visit the same offsets. *)
Alike(b, c) == \A o \in 0..BlockUnits - 1 : At(c, o).rec = At(b, o).rec /\ At(c, o).name = At(b, o).name

LEMMA ScanAgain ==
  ASSUME NEW b, Readable(b), NEW c, Readable(c), NEW L \in Lengths, Alike(b, c),
         NEW f, Scans(f, b, L), NEW g, Scans(g, c, L)
  PROVE  \A o \in Offset : g[o] = f[o]
<1>0. BlockUnits \in Nat /\ Offset = 0..2 * BlockUnits /\ 2 * BlockUnits \in Nat
  BY NameLengths DEF Offset
<1> DEFINE S == {o \in Offset : g[o] = f[o]}
<1>1. ASSUME NEW o \in Offset, o >= BlockUnits PROVE o \in S
  BY <1>1 DEF Scans
<1>2. 2 * BlockUnits \in S
  <2>1. 2 * BlockUnits \in Offset /\ 2 * BlockUnits >= BlockUnits
    BY <1>0
  <2> QED BY <1>1, <2>1
<1>3. ASSUME NEW o \in 0..2 * BlockUnits - 1, \A w \in o + 1..2 * BlockUnits : w \in S PROVE o \in S
  <2>1. o \in Offset
    BY <1>0
  <2>2. CASE o >= BlockUnits
    BY <1>1, <2>1, <2>2
  <2>3. CASE ~(o >= BlockUnits)
    <3>1. o \in 0..BlockUnits - 1
      BY <1>0, <2>3
    <3>2. o + L[At(b, o).name] \in o + 1..2 * BlockUnits
      BY <3>1, ScanStep
    <3>3. g[o + L[At(b, o).name]] = f[o + L[At(b, o).name]]
      BY <1>3, <3>2
    <3>4. At(c, o).rec = At(b, o).rec /\ At(c, o).name = At(b, o).name
      BY <3>1 DEF Alike
    <3>5. f[o] = IF At(b, o).rec # L[At(b, o).name] THEN <<o>> ELSE <<o>> \o f[o + L[At(b, o).name]]
      BY <2>1, <2>3 DEF Scans
    <3>6. g[o] = IF At(c, o).rec # L[At(c, o).name] THEN <<o>> ELSE <<o>> \o g[o + L[At(c, o).name]]
      BY <2>1, <2>3 DEF Scans
    <3> QED BY <2>1, <3>3, <3>4, <3>5, <3>6
  <2> QED BY <2>2, <2>3
<1>4. \A o \in 0..2 * BlockUnits : o \in S
  <2> HIDE DEF S
  <2> QED BY <1>0, <1>2, <1>3, RangeInductDown
<1> QED BY <1>0, <1>4

(* What is listed is found, as long as the lookup expects the same lengths. *)
NoFourBefore(b, p) == \A q \in Range(Chain(b, Expected)) : q < p => LenOf(At(b, q).name) % 4 # 0

LEMMA ListedFound ==
  ASSUME NEW b, Readable(b), NamedOnce(b), NEW p, p \in EXT2_listdir(b), NoFourBefore(b, p)
  PROVE  EXT2_finddir(b, At(b, p).name) = At(b, p).ino
<1>0. BlockUnits \in Nat /\ Offset = 0..2 * BlockUnits /\ Ahead \in Lengths /\ Exact \in Lengths
  BY NameLengths DEF Offset
<1>1. PICK f : Scans(f, b, Ahead) /\ Chain(b, Expected) = f[0]
  BY ScanIs
<1>2. PICK g : Scans(g, b, Exact) /\ Chain(b, Rounded) = g[0]
  BY ScanIs
<1>3. PICK F, G : F = Range(f[0]) /\ G = Range(g[0])
  OBVIOUS
<1>4. p \in F /\ At(b, p).ino # 0
  BY <1>1, <1>3 DEF EXT2_listdir
<1>5. 0 \in Offset /\ \A e \in F \cup G : e \in 0..BlockUnits - 1
  <2>1. 0 \in Offset
    BY <1>0
  <2>2. Inside(f, 0) /\ Inside(g, 0)
    BY <1>0, <1>1, <1>2, <2>1, ScanInside
  <2> QED BY <1>3, <2>1, <2>2 DEF Inside
<1>6. p \in Int /\ p < BlockUnits
  BY <1>0, <1>4, <1>5
<1> DEFINE Agrees(o) == (p \in Range(f[o]) /\ Range(f[o]) \subseteq F)
                          => /\ p \in Range(g[o])
                             /\ \A q \in Range(g[o]) : q < p => q \in F
           S == {o \in Offset : Agrees(o)}
<1>7. \A o \in 0..2 * BlockUnits : o \in S
  <2>1. ASSUME NEW o \in Offset, o >= BlockUnits PROVE o \in S
    BY <1>1, <2>1, ScanEnds
  <2>2. 2 * BlockUnits \in S
    <3>1. 2 * BlockUnits \in Offset /\ 2 * BlockUnits >= BlockUnits
      BY <1>0
    <3> QED BY <2>1, <3>1
  <2>3. ASSUME NEW o \in 0..2 * BlockUnits - 1, \A w \in o + 1..2 * BlockUnits : w \in S PROVE o \in S
    <3>1. o \in Offset
      BY <1>0
    <3>2. CASE o >= BlockUnits
      BY <2>1, <3>1, <3>2
    <3>3. CASE o < BlockUnits
      <4>1. o \in 0..BlockUnits - 1
        BY <1>0, <3>3
      <4>2. /\ o \in Range(g[o]) /\ \A e \in Range(g[o]) : e \in 0..BlockUnits - 1 /\ o <= e
            /\ o \in Range(f[o]) /\ \A e \in Range(f[o]) : e \in 0..BlockUnits - 1 /\ o <= e
        <5>1. Inside(f, o) /\ Inside(g, o)
          BY <1>0, <1>1, <1>2, <3>1, ScanInside
        <5>2. o \in Range(f[o]) /\ o \in Range(g[o])
          BY <1>0, <1>1, <1>2, <4>1, ScanHere
        <5> QED BY <5>1, <5>2 DEF Inside
      <4>3. SUFFICES ASSUME p \in Range(f[o]), Range(f[o]) \subseteq F
                     PROVE  p \in Range(g[o]) /\ \A q \in Range(g[o]) : q < p => q \in F
        BY <3>1
      <4>4. CASE o = p
        BY <1>0, <1>6, <4>2, <4>4
      <4>5. CASE o # p
        <5>1. o < p /\ o \in F
          BY <1>6, <4>1, <4>2, <4>3, <4>5
        <5>2. LenOf(At(b, o).name) % 4 # 0
          BY <1>1, <1>3, <5>1 DEF NoFourBefore
        <5>3. At(b, o).name \in AnyName
          BY DEF At, Readable, Blank, AnyName
        <5>4. PICK up : up = o + Ahead[At(b, o).name] /\ up = o + Exact[At(b, o).name]
                        /\ Ahead[At(b, o).name] = Exact[At(b, o).name]
          BY <5>2, <5>3, NameLengths
        <5>5. up \in o + 1..2 * BlockUnits
          BY <1>0, <4>1, <5>4, ScanStep
        <5>6. At(b, o).rec = Ahead[At(b, o).name]
          <6>1. PICK L \in Lengths : L = Ahead
            BY <1>0
          <6>2. Scans(f, b, L)
            BY <1>1, <6>1
          <6>3. At(b, o).rec = L[At(b, o).name]
            BY <4>1, <4>3, <4>5, <6>2, ScanGoesOn
          <6> QED BY <6>1, <6>3
        <5>7. Range(f[o]) = {o} \cup Range(f[up])
          <6>1. PICK L \in Lengths : L = Ahead
            BY <1>0
          <6>2. Scans(f, b, L) /\ At(b, o).rec = L[At(b, o).name] /\ up = o + L[At(b, o).name]
            BY <1>1, <5>4, <5>6, <6>1
          <6> QED BY <4>1, <6>2, ScanNext
        <5>8. Range(g[o]) = {o} \cup Range(g[up])
          <6>1. PICK L \in Lengths : L = Exact
            BY <1>0
          <6>2. Scans(g, b, L) /\ At(b, o).rec = L[At(b, o).name] /\ up = o + L[At(b, o).name]
            BY <1>2, <5>4, <5>6, <6>1
          <6> QED BY <4>1, <6>2, ScanNext
        <5>9. p \in Range(f[up]) /\ Range(f[up]) \subseteq F
          BY <4>3, <4>5, <5>7
        <5>10. p \in Range(g[up]) /\ \A q \in Range(g[up]) : q < p => q \in F
          BY <2>3, <5>5, <5>9
        <5> QED BY <5>1, <5>8, <5>10
      <4> QED BY <4>4, <4>5
    <3> QED BY <1>0, <3>1, <3>2, <3>3
  <2> HIDE DEF S
  <2>4. 2 * BlockUnits \in Nat
    BY <1>0
  <2> QED BY <2>2, <2>3, <2>4, RangeInductDown
<1>8. Agrees(0)
  <2>1. 0 \in 0..2 * BlockUnits
    BY <1>0
  <2> QED BY <1>7, <2>1
<1>9. p \in G /\ \A q \in G : q < p => q \in F
  BY <1>3, <1>4, <1>8
<1>10. PICK hits : hits = {o \in G : Live(At(b, o), At(b, p).name)}
  OBVIOUS
<1>11. p \in hits
  BY <1>4, <1>9, <1>10 DEF Live
<1>12. ASSUME NEW q \in hits PROVE p <= q
  <2>1. q \in G /\ At(b, q).ino # 0 /\ At(b, q).name = At(b, p).name
    BY <1>10 DEF Live
  <2>2. q \in Int
    BY <1>0, <1>5, <2>1
  <2>3. ASSUME q < p PROVE FALSE
    <3>1. q \in EXT2_listdir(b)
      BY <1>1, <1>3, <1>9, <2>1, <2>3 DEF EXT2_listdir
    <3>2. q = p
      BY <2>1, <3>1 DEF NamedOnce
    <3> QED BY <1>6, <2>3, <3>2
  <2> QED BY <1>6, <2>2, <2>3
<1>13. \A q \in hits : q \in Int
  BY <1>0, <1>5, <1>10
<1>14. Min(hits) = p
  <2>1. Min(hits) \in hits /\ \A q \in hits : Min(hits) <= q
    BY <1>11, <1>12 DEF Min
  <2>2. PICK m \in hits : m = Min(hits)
    BY <2>1
  <2>3. m \in Int /\ m <= p /\ p <= m
    BY <1>11, <1>12, <1>13, <2>1, <2>2
  <2> QED BY <1>6, <2>2, <2>3
<1>15. hits # {}
  BY <1>11
<1>16. EXT2_finddir(b, At(b, p).name) = IF hits = {} THEN 0 ELSE At(b, Min(hits)).ino
  BY <1>2, <1>3, <1>10 DEF EXT2_finddir
<1> QED BY <1>14, <1>15, <1>16

LEMMA LastVisited ==
  ASSUME NEW T, NEW s \in Seq(T), s # <<>>
  PROVE  Last(s) \in Range(s)
<1>1. Len(s) \in DOMAIN s
  OBVIOUS
<1> QED BY <1>1 DEF Last, Range

Plain(b) == \A o \in DOMAIN b : DOMAIN b[o] = EntryFields

(* Directory blocks before and after EXT2_createEntry, entry by entry. *)
LEMMA EntryWritten ==
  ASSUME NEW b, Readable(b), Plain(b), NEW name \in Names, NEW ino, NEW last, NEW new, NEW x,
         last \in 0..BlockUnits - 1, new \in Nat, new >= last + 2,
         last = Last4(b), new = Free4(b), x = WithEntry(b, name, ino)
  PROVE  /\ Readable(x)
         /\ At(x, new) = [ino |-> ino, rec |-> BlockUnits - new, name |-> name]
         /\ At(x, last).ino = At(b, last).ino /\ At(x, last).name = At(b, last).name
         /\ At(x, last).rec = Expected(At(b, last).name)
         /\ \A o \in 0..last - 1 : At(x, o) = At(b, o)
<1>0. PICK prev : prev = At(b, last)
  OBVIOUS
<1>1. PICK kept : kept = {o \in DOMAIN b : o < new - 1 \/ o >= new + Rounded(name)}
  OBVIOUS
<1>2. x = [o \in {new, last} \cup kept |->
             IF o = new THEN [ino |-> ino, rec |-> BlockUnits - new, name |-> name]
             ELSE IF o = last THEN [prev EXCEPT !.rec = Expected(prev.name)] ELSE b[o]]
  BY <1>0, <1>1 DEF WithEntry
<1>3. DOMAIN prev = EntryFields /\ prev.name \in AnyName
  BY <1>0 DEF At, Plain, Blank, EntryFields, Readable, AnyName
<1>4. PICK y : y = [prev EXCEPT !.rec = Expected(prev.name)]
  OBVIOUS
<1>5. y.ino = prev.ino /\ y.name = prev.name /\ y.rec = Expected(prev.name)
  BY <1>3, <1>4 DEF EntryFields
<1>6. PICK z : z = [ino |-> ino, rec |-> BlockUnits - new, name |-> name]
  OBVIOUS
<1>7. new # last
  OBVIOUS
<1>8. DOMAIN x = {new, last} \cup kept /\ x[new] = z /\ x[last] = y
      /\ \A o \in kept : o # new /\ o # last => x[o] = b[o]
  BY <1>2, <1>4, <1>6, <1>7
<1>9. At(x, new) = z /\ At(x, last) = y
  BY <1>8 DEF At
<1>10. ASSUME NEW o \in 0..last - 1 PROVE At(x, o) = At(b, o)
  <2>1. o \in Int /\ o # new /\ o # last /\ o < new - 1
    OBVIOUS
  <2>2. o \in DOMAIN x <=> o \in DOMAIN b
    BY <1>1, <1>8, <2>1
  <2>3. o \in DOMAIN b => x[o] = b[o]
    BY <1>1, <1>8, <2>1
  <2> QED BY <2>2, <2>3 DEF At
<1>11. Readable(x)
  <2>1. SUFFICES ASSUME NEW o \in DOMAIN x PROVE x[o].name \in AnyName
    BY DEF Readable
  <2>2. z.name \in AnyName /\ y.name \in AnyName
    BY <1>3, <1>5, <1>6 DEF AnyName
  <2>3. o \in kept => b[o].name \in AnyName
    BY <1>1 DEF Readable
  <2> QED BY <1>8, <2>2, <2>3
<1> QED BY <1>0, <1>5, <1>6, <1>9, <1>10, <1>11

(* After EXT2_createEntry the scan visits what it visited before, and the new entry. *)
LEMMA EntryVisited ==
  ASSUME NEW b, Readable(b), NEW x, Readable(x), NEW f, Scans(f, b, Ahead), NEW g, Scans(g, x, Ahead),
         NEW last \in Nat, NEW new \in Nat, new < BlockUnits, last = Last(f[0]), new = last + Ahead[At(b, last).name],
         At(b, last).rec # Ahead[At(b, last).name],
         At(x, new).rec = BlockUnits - new,
         At(x, last).name = At(b, last).name, At(x, last).rec = Ahead[At(b, last).name],
         \A o \in 0..last - 1 : At(x, o) = At(b, o), 0 < BlockUnits
  PROVE  Range(g[0]) = Range(f[0]) \cup {new} /\ \A e \in Range(f[0]) : e \in 0..last
<1>0. BlockUnits \in Nat /\ Offset = 0..2 * BlockUnits /\ 2 * BlockUnits \in Nat
  BY NameLengths DEF Offset
<1>1. PICK L \in Lengths : L = Ahead
  BY NameLengths
<1>2. Scans(f, b, L) /\ Scans(g, x, L)
  BY <1>1
<1>3. \A o \in 0..BlockUnits - 1 : o \in Offset
  BY <1>0
<1>4. \A o \in Offset : Inside(f, o) /\ Inside(g, o)
  BY <1>2, ScanInside
<1>5. Range(g[new]) = {new}
  <2>1. new \in 0..BlockUnits - 1
    BY <1>0
  <2> QED BY <1>2, <2>1, ScanToEnd
<1>5a. \A o \in 0..BlockUnits - 1 : At(b, o).rec # L[At(b, o).name] => Range(f[o]) = {o} /\ Last(f[o]) = o
  BY <1>2, ScansEnd
<1> DEFINE Ends(o) == o < BlockUnits /\ Last(f[o]) = last
                        => Range(g[o]) = Range(f[o]) \cup {new} /\ \A e \in Range(f[o]) : e \in 0..last
           S == {o \in Offset : Ends(o)}
<1>6. 2 * BlockUnits \in S
  BY <1>0
<1>7. ASSUME NEW o \in 0..2 * BlockUnits - 1, \A w \in o + 1..2 * BlockUnits : w \in S PROVE o \in S
  <2>1. o \in Offset
    BY <1>0
  <2>2. SUFFICES ASSUME o < BlockUnits, Last(f[o]) = last
                 PROVE  Range(g[o]) = Range(f[o]) \cup {new} /\ \A e \in Range(f[o]) : e \in 0..last
    BY <2>1
  <2>3. o \in 0..BlockUnits - 1 /\ o \in Nat
    BY <1>0, <2>2
  <2>4. PICK up : up = o + L[At(b, o).name]
    OBVIOUS
  <2>5. CASE At(b, o).rec # L[At(b, o).name]
    <3>1. Range(f[o]) = {o} /\ Last(f[o]) = o
      BY <1>5a, <2>3, <2>5, Zenon
    <3>2. o = last
      BY <2>2, <3>1
    <3>3. At(x, o).rec = L[At(x, o).name] /\ new = o + L[At(x, o).name]
      BY <1>1, <3>2
    <3>4. Range(g[o]) = {o} \cup Range(g[new])
      BY <1>2, <2>3, <3>3, ScanNext
    <3> QED BY <1>5, <2>3, <3>1, <3>2, <3>4
  <2>6. CASE At(b, o).rec = L[At(b, o).name]
    <3>1. /\ up \in o + 1..2 * BlockUnits /\ Range(f[o]) = {o} \cup Range(f[up])
          /\ Last(f[o]) = IF up >= BlockUnits THEN o ELSE Last(f[up])
      BY <1>2, <2>3, <2>4, <2>6, ScanNext
    <3>2. o # last
      BY <1>1, <2>6
    <3>3. up < BlockUnits /\ Last(f[up]) = last
      BY <1>0, <2>2, <2>3, <3>1, <3>2
    <3>4. up \in 0..BlockUnits - 1
      BY <1>0, <2>3, <3>1, <3>3
    <3>5. last \in Range(f[up])
      <4>1. f[up] # <<>> /\ f[up] \in Seq(0..BlockUnits - 1)
        BY <1>2, <1>3, <1>4, <3>4, ScanHere DEF Inside
      <4> QED BY <3>3, <4>1, LastVisited
    <3>6. up <= last
      BY <1>3, <1>4, <3>4, <3>5 DEF Inside
    <3>7. o \in 0..last - 1
      BY <2>3, <3>1, <3>6
    <3>8. At(x, o).rec = L[At(x, o).name] /\ up = o + L[At(x, o).name]
      BY <2>4, <2>6, <3>7
    <3>9. Range(g[o]) = {o} \cup Range(g[up])
      BY <1>2, <2>3, <3>8, ScanNext
    <3>10. Range(g[up]) = Range(f[up]) \cup {new} /\ \A e \in Range(f[up]) : e \in 0..last
      <4>1. up \in S
        BY <1>7, <3>1
      <4> QED BY <3>3, <4>1
    <3>11. o \in 0..last
      BY <3>7
    <3> QED BY <3>1, <3>9, <3>10, <3>11
  <2> QED BY <2>5, <2>6
<1>8. \A o \in 0..2 * BlockUnits : o \in S
  <2> HIDE DEF S
  <2> QED BY <1>0, <1>6, <1>7, RangeInductDown
<1>9. Ends(0)
  <2>1. 0 \in 0..2 * BlockUnits
    BY <1>0
  <2> QED BY <1>8, <2>1
<1> QED BY <1>9

(* Where a scan from the start ends. *)
LEMMA LastInside ==
  ASSUME NEW b, Readable(b), 0 < BlockUnits
  PROVE  /\ Last4(b) \in 0..BlockUnits - 1 /\ At(b, Last4(b)).name \in AnyName
         /\ Free4(b) = Last4(b) + Ahead[At(b, Last4(b)).name] /\ Free4(b) \in Nat /\ Free4(b) >= Last4(b) + 2
<1>1. PICK f : Scans(f, b, Ahead) /\ Chain(b, Expected) = f[0]
  BY ScanIs
<1>2. PICK L \in Lengths : L = Ahead
  BY NameLengths
<1>3. 0 \in 0..BlockUnits - 1 /\ 0 \in Offset /\ BlockUnits \in Nat
  BY NameLengths DEF Offset
<1>4. Scans(f, b, L)
  BY <1>1, <1>2
<1>5. Inside(f, 0) /\ f[0] # <<>>
  BY <1>3, <1>4, ScanInside, ScanHere
<1>6. Last(f[0]) \in 0..BlockUnits - 1
  BY <1>5, LastVisited DEF Inside
<1>7. PICK last : last = Last4(b)
  OBVIOUS
<1>8. last \in 0..BlockUnits - 1
  BY <1>1, <1>6, <1>7 DEF Last4
<1>9. At(b, last).name \in AnyName
  BY DEF At, Readable, Blank, AnyName
<1>10. Expected(At(b, last).name) = Ahead[At(b, last).name] /\ Ahead[At(b, last).name] \in 2..BlockUnits
  BY <1>9, NameLengths DEF Lengths
<1>11. Free4(b) = last + Expected(At(b, last).name)
  BY <1>7 DEF Free4
<1> QED BY <1>3, <1>7, <1>8, <1>9, <1>10, <1>11

LEMMA EntryAppended ==
  ASSUME NEW b, Readable(b), NamedOnce(b), Plain(b), NEW name \in Names, Creates(b, name), NEW ino,
         NEW x, x = WithEntry(b, name, ino)
  PROVE  Readable(x) /\ NamedOnce(x)
<1>0. PICK last, new : last = Last4(b) /\ new = Free4(b)
  OBVIOUS
<1>1. 0 < BlockUnits /\ BlockUnits \in Nat
  <2>1. Ahead[NoName] \in 2..BlockUnits /\ BlockUnits \in Nat
    BY NameLengths DEF Lengths, AnyName
  <2> QED BY <2>1
<1>2. /\ last \in 0..BlockUnits - 1 /\ At(b, last).name \in AnyName
      /\ new = last + Ahead[At(b, last).name] /\ new \in Nat /\ new >= last + 2 /\ last \in Nat
  BY <1>0, <1>1, LastInside
<1>3. /\ Readable(x)
      /\ At(x, new) = [ino |-> ino, rec |-> BlockUnits - new, name |-> name]
      /\ At(x, last).ino = At(b, last).ino /\ At(x, last).name = At(b, last).name
      /\ At(x, last).rec = Expected(At(b, last).name)
      /\ \A o \in 0..last - 1 : At(x, o) = At(b, o)
  <2>1. last \in 0..BlockUnits - 1 /\ new \in Nat /\ new >= last + 2
    BY <1>2
  <2>2. last = Last4(b) /\ new = Free4(b)
    BY <1>0
  <2> QED BY <2>1, <2>2, EntryWritten
<1>4. Expected(At(b, last).name) = Ahead[At(b, last).name]
  BY <1>2, NameLengths
<1>5. PICK f : Scans(f, b, Ahead) /\ Chain(b, Expected) = f[0]
  BY ScanIs
<1>6. PICK g : Scans(g, x, Ahead) /\ Chain(x, Expected) = g[0]
  BY <1>3, ScanIs
<1>7. new < BlockUnits /\ At(b, last).rec # Ahead[At(b, last).name] /\ last = Last(f[0])
  BY <1>0, <1>4, <1>5 DEF Creates, IsLast, Last4
<1>8. Range(g[0]) = Range(f[0]) \cup {new} /\ \A e \in Range(f[0]) : e \in 0..last
  <2>1. /\ Scans(f, b, Ahead) /\ Scans(g, x, Ahead) /\ Readable(x) /\ 0 < BlockUnits
        /\ last \in Nat /\ new \in Nat /\ new < BlockUnits /\ last = Last(f[0])
    BY <1>1, <1>2, <1>3, <1>5, <1>6, <1>7
  <2>2. /\ new = last + Ahead[At(b, last).name] /\ At(b, last).rec # Ahead[At(b, last).name]
        /\ At(x, new).rec = BlockUnits - new
        /\ At(x, last).name = At(b, last).name /\ At(x, last).rec = Ahead[At(b, last).name]
        /\ \A o \in 0..last - 1 : At(x, o) = At(b, o)
    BY <1>2, <1>3, <1>4, <1>7
  <2> QED BY <2>1, <2>2, EntryVisited
<1>9. \A o \in Range(f[0]) : At(x, o).ino = At(b, o).ino /\ At(x, o).name = At(b, o).name
  <2>1. ASSUME NEW o \in Range(f[0]) PROVE o = last \/ o \in 0..last - 1
    <3>1. o \in 0..last
      BY <1>8
    <3> QED BY <1>2, <3>1
  <2> QED BY <1>3, <2>1
<1>10. \A o \in EXT2_listdir(x) : o = new \/ (o \in EXT2_listdir(b) /\ At(x, o).name = At(b, o).name)
  BY <1>5, <1>6, <1>8, <1>9 DEF EXT2_listdir
<1>11. \A o \in EXT2_listdir(b) : At(b, o).name # name
  BY DEF Creates, Exists
<1>12. At(x, new).name = name
  BY <1>3
<1>13. NamedOnce(x)
  BY <1>10, <1>11, <1>12 DEF NamedOnce
<1> QED BY <1>3, <1>13

(* EXT2_removeEntry leaves lengths and names alone. *)
LEMMA EntryCleared ==
  ASSUME NEW b, Readable(b), NamedOnce(b), Plain(b), NEW m, NEW x, x = [b EXCEPT ![m].ino = 0]
  PROVE  Readable(x) /\ NamedOnce(x)
<1>1. DOMAIN x = DOMAIN b /\ \A o \in DOMAIN b : x[o] = b[o] \/ x[o] = [b[o] EXCEPT !.ino = 0]
  OBVIOUS
<1>2. \A o \in DOMAIN b : /\ x[o].rec = b[o].rec /\ x[o].name = b[o].name
                          /\ x[o].ino # 0 => x[o].ino = b[o].ino
  BY <1>1 DEF Plain, EntryFields
<1>3. Readable(x)
  BY <1>1, <1>2 DEF Readable
<1>4. \A o : /\ At(x, o).rec = At(b, o).rec /\ At(x, o).name = At(b, o).name
             /\ At(x, o).ino # 0 => At(x, o).ino = At(b, o).ino
  BY <1>1, <1>2 DEF At
<1>5. PICK f : Scans(f, b, Ahead) /\ Chain(b, Expected) = f[0]
  BY ScanIs
<1>6. PICK g : Scans(g, x, Ahead) /\ Chain(x, Expected) = g[0]
  BY <1>3, ScanIs
<1>7. g[0] = f[0]
  <2>1. PICK L \in Lengths : L = Ahead
    BY NameLengths
  <2>0. 0 \in Offset
    BY NameLengths DEF Offset
  <2>3. Scans(f, b, L)
    BY <1>5, <2>1
  <2>4. Scans(g, x, L)
    BY <1>6, <2>1
  <2>2. Alike(b, x)
    BY <1>4 DEF Alike
  <2> QED BY <1>3, <2>0, <2>2, <2>3, <2>4, ScanAgain
<1>8. \A o \in EXT2_listdir(x) : o \in EXT2_listdir(b) /\ At(x, o).name = At(b, o).name
  BY <1>4, <1>5, <1>6, <1>7 DEF EXT2_listdir
<1>9. NamedOnce(x)
  BY <1>8 DEF NamedOnce
<1> QED BY <1>3, <1>9

-----------------------------------------------------------------------------
(* The inductive invariant. *)

Shape(d) ==
  /\ DOMAIN d = ImageFields
  /\ DOMAIN d.inode = DOMAIN Disk0.inode
  /\ \A i \in DOMAIN d.inode : DOMAIN d.inode[i] = InodeFields
  /\ \A b \in DOMAIN d.dir : \A o \in DOMAIN d.dir[b] : DOMAIN d.dir[b][o] = EntryFields

\* ByCode and ByMkfs of any disk image
Written(d) == {i \in DOMAIN d.inode : d.inode[i].by = "code"}
FromMkfs(b, o, e) == b \in DOMAIN Disk0.dir /\ o \in DOMAIN Disk0.dir[b] /\ e.name = Disk0.dir[b][o].name

Backed(d) == \A i \in Written(d) : i \in d.ibm /\ BlockOf(d, i) \in d.bbm \cup {NoBlock}
Unshared(d) == \A i, j \in Written(d) : i # j /\ BlockOf(d, i) # NoBlock => BlockOf(d, i) # BlockOf(d, j)
Named(d, b, o, e) == e.ino = 0 \/ FromMkfs(b, o, e) \/ e.ino \in Written(d)
Entries(d) == \A b \in DOMAIN d.dir : \A o \in DOMAIN d.dir[b] : Named(d, b, o, d.dir[b][o])

Orderly(d) == \A b \in DOMAIN d.dir : Readable(d.dir[b]) /\ NamedOnce(d.dir[b])

\* What is true of a disk after every single write.
Sound(d) == /\ Shape(d) /\ Disk0.ibm \subseteq d.ibm
            /\ Backed(d) /\ Unshared(d) /\ Entries(d) /\ Orderly(d)

Clear(used, n) == Cardinality(ZeroBits(used, n))
Trails(d, n) ==
  /\ d.fb \in Int /\ d.fb - Clear(d.bbm, NumBlocks) \in 0..n
  /\ d.fi \in Int /\ d.fi - Clear(d.ibm, NumInodes) \in 0..n

\* A disk that a power loss may leave after n others, and one between two operations.
Passing(d, n) == Sound(d) /\ Trails(d, n + 1)
Steady(d, mem, n) == Sound(d) /\ Trails(d, n) /\ d.fb = mem.fb /\ d.fi = mem.fi

\* The images that the writes of an operation produce.
Run(q, n, mem) ==
  /\ q \in Seq(Range(q)) /\ q # <<>>
  /\ \A d \in Range(q) : Passing(d, n)
  /\ Steady(Last(q), mem, n)

IInv ==
  /\ crashes \in Nat /\ DOMAIN bgd = {"fb", "fi"}
  /\ Passing(disk, crashes)
  /\ IF todo = <<>> THEN Steady(disk, bgd, crashes) ELSE Run(todo, crashes, bgd)

-----------------------------------------------------------------------------
(* Single writes. *)

\* Bits set, and anything in the descriptor or the boot block.
LEMMA Grows ==
  ASSUME NEW d, NEW e, Sound(d), DOMAIN e = ImageFields, e.inode = d.inode, e.dir = d.dir,
         d.bbm \subseteq e.bbm, d.ibm \subseteq e.ibm
  PROVE  Sound(e)
<1>1. Shape(e)
  BY DEF Sound, Shape
<1>2. Written(e) = Written(d) /\ \A i : BlockOf(e, i) = BlockOf(d, i)
  BY DEF Written, BlockOf
<1>3. Backed(e) /\ Unshared(e)
  BY <1>2 DEF Sound, Backed, Unshared
<1>4. Entries(e)
  BY <1>2 DEF Sound, Entries, Named
<1>5. Orderly(e)
  BY DEF Sound, Orderly
<1> QED BY <1>1, <1>3, <1>4, <1>5 DEF Sound

\* A new inode with a block that no other has.
LEMMA WritesInode ==
  ASSUME NEW d, NEW k, NEW e, NEW x, Sound(d), k \in DOMAIN d.inode, k \in d.ibm, k \notin Written(d),
         DOMAIN x = InodeFields, x.by = "code",
         x.block = NoBlock \/ (x.block \in d.bbm /\ \A i \in Written(d) : BlockOf(d, i) # x.block),
         e = [d EXCEPT !.inode[k] = x]
  PROVE  Sound(e) /\ k \in Written(e) /\ e.bbm = d.bbm /\ e.ibm = d.ibm /\ e.fb = d.fb /\ e.fi = d.fi
<1>1. DOMAIN e = ImageFields /\ e.bbm = d.bbm /\ e.ibm = d.ibm /\ e.dir = d.dir /\ e.fb = d.fb /\ e.fi = d.fi
      /\ e.inode = [d.inode EXCEPT ![k] = x]
  BY DEF Sound, Shape, ImageFields
<1>2. DOMAIN e.inode = DOMAIN d.inode /\ e.inode[k] = x /\ \A i \in DOMAIN d.inode : i # k => e.inode[i] = d.inode[i]
  BY <1>1
<1>3. Shape(e)
  BY <1>1, <1>2 DEF Sound, Shape
<1>4. Written(e) = Written(d) \cup {k}
  BY <1>2 DEF Written
<1>5. BlockOf(e, k) = x.block /\ \A i \in Written(d) : BlockOf(e, i) = BlockOf(d, i)
  BY <1>2 DEF BlockOf, Written
<1>6. Backed(e)
  BY <1>1, <1>4, <1>5 DEF Sound, Backed
<1>7. Unshared(e)
  <2> SUFFICES ASSUME NEW i \in Written(e), NEW j \in Written(e), i # j, BlockOf(e, i) # NoBlock
               PROVE  BlockOf(e, i) # BlockOf(e, j)
    BY DEF Unshared
  <2>1. CASE i = k
    BY <1>4, <1>5, <2>1
  <2>2. CASE j = k
    BY <1>4, <1>5, <2>2
  <2>3. CASE i # k /\ j # k
    BY <1>4, <1>5, <2>3 DEF Sound, Unshared
  <2> QED BY <2>1, <2>2, <2>3
<1>8. Entries(e) /\ Orderly(e)
  BY <1>1, <1>4 DEF Sound, Entries, Named, Orderly
<1> QED BY <1>1, <1>3, <1>4, <1>6, <1>7, <1>8 DEF Sound

\* A link count.
LEMMA Links ==
  ASSUME NEW d, NEW p, NEW e, NEW v, Sound(d), e = [d EXCEPT !.inode[p].links = v]
  PROVE  Sound(e) /\ e.bbm = d.bbm /\ e.ibm = d.ibm /\ e.fb = d.fb /\ e.fi = d.fi
<1>1. DOMAIN e = ImageFields /\ e.bbm = d.bbm /\ e.ibm = d.ibm /\ e.dir = d.dir /\ e.fb = d.fb /\ e.fi = d.fi
      /\ e.inode = [d.inode EXCEPT ![p].links = v]
  BY DEF Sound, Shape, ImageFields
<1>2. DOMAIN e.inode = DOMAIN d.inode
      /\ \A i \in DOMAIN d.inode : e.inode[i] = d.inode[i] \/ e.inode[i] = [d.inode[i] EXCEPT !.links = v]
  BY <1>1
<1>3. \A i \in DOMAIN d.inode : /\ DOMAIN e.inode[i] = InodeFields
                                /\ e.inode[i].by = d.inode[i].by /\ e.inode[i].block = d.inode[i].block
  BY <1>2 DEF Sound, Shape, InodeFields
<1>4. Shape(e)
  BY <1>1, <1>2, <1>3 DEF Sound, Shape
<1>5. Written(e) = Written(d) /\ \A i \in Written(d) : BlockOf(e, i) = BlockOf(d, i)
  BY <1>2, <1>3 DEF Written, BlockOf
<1>6. Backed(e) /\ Unshared(e)
  BY <1>1, <1>5 DEF Sound, Backed, Unshared
<1>7. Entries(e) /\ Orderly(e)
  BY <1>1, <1>5 DEF Sound, Entries, Named, Orderly
<1> QED BY <1>1, <1>4, <1>6, <1>7 DEF Sound

\* A directory whose entries keep what they name, are cleared, or name a written inode.
Rewrites(d, b, x) ==
  \A o \in DOMAIN x : \/ x[o].ino = 0 \/ x[o].ino \in Written(d)
                      \/ o \in DOMAIN d.dir[b] /\ x[o].ino = d.dir[b][o].ino /\ x[o].name = d.dir[b][o].name

LEMMA WritesDirectory ==
  ASSUME NEW d, NEW b, NEW e, NEW x, Sound(d), b \in DOMAIN d.dir, e = [d EXCEPT !.dir[b] = x],
         Readable(x), NamedOnce(x),
         Plain(x), Rewrites(d, b, x)
  PROVE  Sound(e) /\ e.bbm = d.bbm /\ e.ibm = d.ibm /\ e.fb = d.fb /\ e.fi = d.fi /\ e.inode = d.inode
<1>1. DOMAIN e = ImageFields /\ e.bbm = d.bbm /\ e.ibm = d.ibm /\ e.inode = d.inode /\ e.fb = d.fb /\ e.fi = d.fi
      /\ e.dir = [d.dir EXCEPT ![b] = x]
  BY DEF Sound, Shape, ImageFields
<1>2. DOMAIN e.dir = DOMAIN d.dir /\ e.dir[b] = x /\ \A c \in DOMAIN d.dir : c # b => e.dir[c] = d.dir[c]
  BY <1>1
<1>3. Shape(e)
  BY <1>1, <1>2 DEF Sound, Shape, Plain
<1>4. Written(e) = Written(d) /\ \A i : BlockOf(e, i) = BlockOf(d, i)
  BY <1>1 DEF Written, BlockOf
<1>5. Backed(e) /\ Unshared(e)
  BY <1>1, <1>4 DEF Sound, Backed, Unshared
<1>6. ASSUME NEW o \in DOMAIN x PROVE Named(e, b, o, x[o])
  <2>0. \/ x[o].ino = 0 \/ x[o].ino \in Written(d)
        \/ o \in DOMAIN d.dir[b] /\ x[o].ino = d.dir[b][o].ino /\ x[o].name = d.dir[b][o].name
    BY DEF Rewrites
  <2>1. CASE x[o].ino = 0 \/ x[o].ino \in Written(d)
    BY <1>4, <2>1 DEF Named
  <2>2. CASE o \in DOMAIN d.dir[b] /\ x[o].ino = d.dir[b][o].ino /\ x[o].name = d.dir[b][o].name
    <3>1. Named(d, b, o, d.dir[b][o])
      BY <2>2 DEF Sound, Entries
    <3> QED BY <1>4, <2>2, <3>1 DEF Named, FromMkfs
  <2> QED BY <2>0, <2>1, <2>2
<1>7. \A c \in DOMAIN d.dir : c # b => \A o \in DOMAIN e.dir[c] : Named(e, c, o, e.dir[c][o])
  BY <1>2, <1>4 DEF Sound, Entries, Named
<1>8. Entries(e)
  BY <1>2, <1>6, <1>7 DEF Entries
<1>9. Orderly(e)
  BY <1>2 DEF Sound, Orderly
<1> QED BY <1>1, <1>3, <1>5, <1>8, <1>9 DEF Sound

Adds(d, b, name, ino, e) ==
  /\ b \in DOMAIN d.dir /\ Creates(d.dir[b], name)
  /\ e = [d EXCEPT !.dir[b] = WithEntry(@, name, ino)]

LEMMA AddsEntry ==
  ASSUME NEW d, NEW b, NEW name \in Names, NEW ino \in Written(d), NEW e, Sound(d),
         Adds(d, b, name, ino, e)
  PROVE  Sound(e) /\ e.bbm = d.bbm /\ e.ibm = d.ibm /\ e.fb = d.fb /\ e.fi = d.fi /\ e.inode = d.inode
<1>0. b \in DOMAIN d.dir /\ Creates(d.dir[b], name) /\ e = [d EXCEPT !.dir[b] = WithEntry(@, name, ino)]
  BY DEF Adds
<1>1. PICK B : B = d.dir[b]
  OBVIOUS
<1>2. PICK x : x = WithEntry(B, name, ino)
  OBVIOUS
<1>3. PICK new, last, prev : new = Free4(B) /\ last = Last4(B) /\ prev = At(B, last)
  OBVIOUS
<1>4. PICK kept : kept = {o \in DOMAIN B : o < new - 1 \/ o >= new + Rounded(name)}
  OBVIOUS
<1>5. x = [o \in {new, last} \cup kept |->
             IF o = new THEN [ino |-> ino, rec |-> BlockUnits - new, name |-> name]
             ELSE IF o = last THEN [prev EXCEPT !.rec = Expected(prev.name)] ELSE B[o]]
  BY <1>2, <1>3, <1>4 DEF WithEntry
<1>6. \A o \in DOMAIN B : DOMAIN B[o] = EntryFields
  BY <1>0, <1>1 DEF Sound, Shape
<1>7. prev = IF last \in DOMAIN B THEN B[last] ELSE Blank
  BY <1>3 DEF At
<1>8. DOMAIN prev = EntryFields
  BY <1>6, <1>7 DEF Blank, EntryFields
<1>9. PICK y : y = [prev EXCEPT !.rec = Expected(prev.name)]
  OBVIOUS
<1>10. DOMAIN y = EntryFields /\ y.ino = prev.ino /\ y.name = prev.name
  BY <1>8, <1>9 DEF EntryFields
<1>11. DOMAIN x = {new, last} \cup kept
  BY <1>5
<1>12. ASSUME NEW o \in DOMAIN x
       PROVE  /\ DOMAIN x[o] = EntryFields
              /\ \/ x[o].ino = 0 \/ x[o].ino \in Written(d)
                 \/ o \in DOMAIN B /\ x[o].ino = B[o].ino /\ x[o].name = B[o].name
  <2>1. CASE o = new
    <3>1. x[o] = [ino |-> ino, rec |-> BlockUnits - new, name |-> name]
      BY <1>5, <1>11, <2>1
    <3> QED BY <3>1 DEF EntryFields
  <2>2. CASE o # new /\ o = last
    <3>1. x[o] = y
      BY <1>5, <1>9, <1>11, <2>2
    <3>2. last \notin DOMAIN B => y.ino = 0
      BY <1>7, <1>10 DEF Blank
    <3> QED BY <1>7, <1>10, <2>2, <3>1, <3>2
  <2>3. CASE o # new /\ o # last
    <3>1. o \in DOMAIN B /\ x[o] = B[o]
      BY <1>4, <1>5, <1>11, <2>3
    <3> QED BY <1>6, <3>1
  <2> QED BY <2>1, <2>2, <2>3
<1>13. e = [d EXCEPT !.dir[b] = x]
  BY <1>0, <1>1, <1>2
<1>14. Readable(x) /\ NamedOnce(x)
  <2>1. Readable(B) /\ NamedOnce(B) /\ Plain(B) /\ Creates(B, name)
    BY <1>0, <1>1, <1>6 DEF Sound, Orderly, Plain
  <2> QED BY <1>2, <2>1, EntryAppended
<1>15. Plain(x)
  BY <1>12 DEF Plain
<1>16. Rewrites(d, b, x)
  BY <1>1, <1>12 DEF Rewrites
<1> QED BY <1>0, <1>13, <1>14, <1>15, <1>16, WritesDirectory

LEMMA RemovesEntry ==
  ASSUME NEW d, NEW b, NEW name, NEW e, Sound(d), b \in DOMAIN d.dir,
         e = [d EXCEPT !.dir[b] = EXT2_removeEntry(@, name)]
  PROVE  Sound(e) /\ e.bbm = d.bbm /\ e.ibm = d.ibm /\ e.fb = d.fb /\ e.fi = d.fi
<1>1. PICK B : B = d.dir[b]
  OBVIOUS
<1>2. PICK x : x = EXT2_removeEntry(B, name)
  OBVIOUS
<1>3. \E m : x = B \/ x = [B EXCEPT ![m].ino = 0]
  BY <1>2 DEF EXT2_removeEntry
<1>4. PICK m : x = B \/ x = [B EXCEPT ![m].ino = 0]
  BY <1>3
<1>5. DOMAIN x = DOMAIN B /\ \A o \in DOMAIN B : x[o] = B[o] \/ x[o] = [B[o] EXCEPT !.ino = 0]
  BY <1>4
<1>6. \A o \in DOMAIN B : DOMAIN B[o] = EntryFields
  BY <1>1 DEF Sound, Shape
<1>7. \A o \in DOMAIN x : /\ DOMAIN x[o] = EntryFields
                          /\ x[o].ino = 0 \/ x[o] = B[o]
  BY <1>5, <1>6 DEF EntryFields
<1>8. e = [d EXCEPT !.dir[b] = x]
  BY <1>1, <1>2
<1>9. Rewrites(d, b, x)
  BY <1>1, <1>5, <1>7 DEF Rewrites
<1>11. Plain(x)
  BY <1>7 DEF Plain
<1>10. Readable(x) /\ NamedOnce(x)
  <2>1. Readable(B) /\ NamedOnce(B) /\ Plain(B)
    BY <1>1, <1>6 DEF Sound, Orderly, Plain
  <2>2. CASE x = B
    BY <2>1, <2>2
  <2>3. CASE x = [B EXCEPT ![m].ino = 0]
    BY <2>1, <2>3, EntryCleared
  <2> QED BY <1>4, <2>2, <2>3
<1> QED BY <1>8, <1>9, <1>10, <1>11, WritesDirectory

-----------------------------------------------------------------------------
(* Allocation. *)

LEMMA ClearBits ==
  ASSUME NEW used, NEW n \in Nat
  PROVE  /\ IsFiniteSet(ZeroBits(used, n)) /\ Clear(used, n) \in Nat
         /\ ZeroBits(used, n) # {} => Min(ZeroBits(used, n)) \in ZeroBits(used, n)
         /\ \A k \in ZeroBits(used, n) : Clear(used \cup {k}, n) = Clear(used, n) - 1
<1>1. IsFiniteSet(0..n - 1)
  BY FS_Interval
<1>2. PICK Z : Z = ZeroBits(used, n)
  OBVIOUS
<1>3. Z \subseteq 0..n - 1
  BY <1>2 DEF ZeroBits
<1>4. IsFiniteSet(Z)
  BY <1>1, <1>3, FS_Subset
<1>5. Clear(used, n) \in Nat
  BY <1>2, <1>4, FS_CardinalityType DEF Clear
<1>6. ASSUME Z # {} PROVE Min(Z) \in Z
  <2>0. Z \subseteq Nat
    BY <1>3
  <2>1. PICK x \in Z : \A y \in Z : ~(<<y, x>> \in OpToRel(<, Nat))
    BY <1>6, <2>0, NatLessThanWellFounded, WFMin
  <2>2. ASSUME NEW y \in Z, ~(x =< y) PROVE FALSE
    <3>1. x \in Nat /\ y \in Nat /\ y < x
      BY <2>0, <2>2
    <3>2. <<y, x>> \in OpToRel(<, Nat)
      BY <3>1 DEF OpToRel
    <3> QED BY <2>1, <3>2
  <2> QED BY <2>1, <2>2 DEF Min
<1>7. ASSUME NEW k \in Z PROVE Clear(used \cup {k}, n) = Clear(used, n) - 1
  <2>1. ZeroBits(used \cup {k}, n) = Z \ {k}
    BY <1>2 DEF ZeroBits
  <2>2. Cardinality(Z \ {k}) = Cardinality(Z) - 1
    BY <1>4, FS_RemoveElement
  <2> QED BY <1>2, <2>1, <2>2 DEF Clear
<1> QED BY <1>2, <1>4, <1>5, <1>6, <1>7

\* mem as the code has it after it took one bit of each kind
LEMMA SteadyPasses ==
  ASSUME NEW d, NEW mem, NEW n \in Nat, Steady(d, mem, n)
  PROVE  Passing(d, n)
<1>1. \A x : x \in 0..n => x \in 0..n + 1
  OBVIOUS
<1> QED BY <1>1 DEF Steady, Passing, Trails

LEMMA SameCounts ==
  ASSUME NEW d, NEW e, NEW mem, NEW n \in Nat, Steady(d, mem, n), Sound(e),
         e.bbm = d.bbm, e.ibm = d.ibm, e.fb = d.fb, e.fi = d.fi
  PROVE  Steady(e, mem, n)
BY DEF Steady, Trails

\* One zero bit less, then one less in the count.
LEMMA CountFollows ==
  ASSUME NEW n \in Nat, NEW c \in Nat, NEW f \in Int, f - c \in 0..n
  PROVE  f - (c - 1) \in 0..n + 1 /\ (f - 1) - (c - 1) \in 0..n /\ f \in Int /\ f - 1 \in Int /\ f - c \in 0..n + 1
OBVIOUS

LEMMA AllocatesInode ==
  ASSUME NEW d, NEW mem, NEW n \in Nat, Steady(d, mem, n), DOMAIN mem = {"fb", "fi"},
         ZeroBits(d.ibm, NumInodes) # {}
  PROVE  \E k, x, y, m :
           /\ alloc_inode(d, mem) = [num |-> k, mem |-> m, images |-> <<x, y>>]
           /\ Passing(x, n) /\ Steady(y, m, n) /\ DOMAIN m = {"fb", "fi"}
           /\ y.inode = d.inode /\ y.dir = d.dir
           /\ k \in y.ibm /\ k \in DOMAIN y.inode /\ k \notin Written(y)
<1>1. PICK k : k = Min(ZeroBits(d.ibm, NumInodes))
  OBVIOUS
<1>2. PICK x : x = [d EXCEPT !.ibm = @ \cup {k}]
  OBVIOUS
<1>3. PICK y : y = [x EXCEPT !.fi = mem.fi - 1, !.fb = mem.fb]
  OBVIOUS
<1>4. PICK m : m = [mem EXCEPT !.fi = @ - 1]
  OBVIOUS
<1>5. alloc_inode(d, mem) = [num |-> k, mem |-> m, images |-> <<x, y>>]
  BY <1>1, <1>2, <1>3, <1>4 DEF alloc_inode
<1>6. DOMAIN d = ImageFields /\ Sound(d) /\ d.fb = mem.fb /\ d.fi = mem.fi
  BY DEF Steady, Sound, Shape
<1>7. /\ DOMAIN x = ImageFields /\ x.bbm = d.bbm /\ x.ibm = d.ibm \cup {k} /\ x.fb = d.fb /\ x.fi = d.fi
      /\ x.inode = d.inode /\ x.dir = d.dir
  BY <1>2, <1>6 DEF ImageFields
<1>8. /\ DOMAIN y = ImageFields /\ y.bbm = d.bbm /\ y.ibm = d.ibm \cup {k} /\ y.fb = d.fb /\ y.fi = d.fi - 1
      /\ y.inode = d.inode /\ y.dir = d.dir
  BY <1>3, <1>6, <1>7 DEF ImageFields
<1>9. DOMAIN m = {"fb", "fi"} /\ m.fb = d.fb /\ m.fi = d.fi - 1
  BY <1>4, <1>6
<1>10. Sound(x) /\ Sound(y)
  BY <1>6, <1>7, <1>8, Grows
<1>11. /\ k \in ZeroBits(d.ibm, NumInodes) /\ Clear(d.ibm, NumInodes) \in Nat
       /\ Clear(d.ibm \cup {k}, NumInodes) = Clear(d.ibm, NumInodes) - 1 /\ Clear(d.bbm, NumBlocks) \in Nat
  BY <1>1, ClearBits, Ext2Assumption
<1>12. /\ d.fi \in Int /\ d.fi - Clear(d.ibm, NumInodes) \in 0..n /\ d.fb \in Int /\ d.fb - Clear(d.bbm, NumBlocks) \in 0..n
  BY DEF Steady, Trails
<1>13. Trails(x, n + 1)
  BY <1>7, <1>11, <1>12, CountFollows DEF Trails
<1>14. Trails(y, n)
  BY <1>8, <1>11, <1>12, CountFollows DEF Trails
<1>15. k \notin d.ibm /\ k \notin Disk0.ibm
  BY <1>6, <1>11 DEF ZeroBits, Sound
<1>16. k \in DOMAIN d.inode
  BY <1>6, <1>11, <1>15, MkfsAssumption DEF ZeroBits, Sound, Shape
<1>17. k \notin Written(d)
  BY <1>6, <1>15 DEF Sound, Backed
<1>18. Written(y) = Written(d)
  BY <1>8 DEF Written
<1>19. Passing(x, n) /\ Steady(y, m, n)
  BY <1>8, <1>9, <1>10, <1>13, <1>14 DEF Passing, Steady
<1> QED BY <1>5, <1>8, <1>9, <1>16, <1>17, <1>18, <1>19

TakesBlock(d, mem, n) ==
  \E k, q, y, m :
    /\ EXT2_alloc_block(d, mem) = [num |-> k, mem |-> m, images |-> q]
    /\ (q = <<y>> \/ \E x : q = <<x, y>> /\ Passing(x, n))
    /\ Steady(y, m, n) /\ DOMAIN m = {"fb", "fi"}
    /\ y.inode = d.inode /\ y.dir = d.dir /\ y.ibm = d.ibm
    /\ k = NoBlock \/ (k \in y.bbm /\ \A i \in Written(y) : BlockOf(y, i) # k)

LEMMA AllocatesBlock ==
  ASSUME NEW d, NEW mem, NEW n \in Nat, Steady(d, mem, n), DOMAIN mem = {"fb", "fi"}
  PROVE  TakesBlock(d, mem, n)
<1> USE DEF TakesBlock
<1>1. CASE ~CanAlloc(mem.fb, d.bbm, NumBlocks)
  <2>1. EXT2_alloc_block(d, mem) = [num |-> NoBlock, mem |-> mem, images |-> <<d>>]
    BY <1>1 DEF EXT2_alloc_block
  <2> QED BY <2>1
<1>2. CASE CanAlloc(mem.fb, d.bbm, NumBlocks)
  <2>1. PICK k : k = Min(ZeroBits(d.bbm, NumBlocks))
    OBVIOUS
  <2>2. PICK x : x = [d EXCEPT !.bbm = @ \cup {k}]
    OBVIOUS
  <2>3. PICK y : y = [x EXCEPT !.fb = mem.fb - 1, !.fi = mem.fi]
    OBVIOUS
  <2>4. PICK m : m = [mem EXCEPT !.fb = @ - 1]
    OBVIOUS
  <2>5. EXT2_alloc_block(d, mem) = [num |-> k, mem |-> m, images |-> <<x, y>>]
    BY <1>2, <2>1, <2>2, <2>3, <2>4 DEF EXT2_alloc_block
  <2>6. DOMAIN d = ImageFields /\ Sound(d) /\ d.fb = mem.fb /\ d.fi = mem.fi
    BY DEF Steady, Sound, Shape
  <2>7. /\ DOMAIN x = ImageFields /\ x.ibm = d.ibm /\ x.bbm = d.bbm \cup {k} /\ x.fb = d.fb /\ x.fi = d.fi
        /\ x.inode = d.inode /\ x.dir = d.dir
    BY <2>2, <2>6 DEF ImageFields
  <2>8. /\ DOMAIN y = ImageFields /\ y.ibm = d.ibm /\ y.bbm = d.bbm \cup {k} /\ y.fi = d.fi /\ y.fb = d.fb - 1
        /\ y.inode = d.inode /\ y.dir = d.dir
    BY <2>3, <2>6, <2>7 DEF ImageFields
  <2>9. DOMAIN m = {"fb", "fi"} /\ m.fi = d.fi /\ m.fb = d.fb - 1
    BY <2>4, <2>6
  <2>10. Sound(x) /\ Sound(y)
    BY <2>6, <2>7, <2>8, Grows
  <2>11. /\ k \in ZeroBits(d.bbm, NumBlocks) /\ Clear(d.bbm, NumBlocks) \in Nat
         /\ Clear(d.bbm \cup {k}, NumBlocks) = Clear(d.bbm, NumBlocks) - 1 /\ Clear(d.ibm, NumInodes) \in Nat
    BY <1>2, <2>1, ClearBits, Ext2Assumption DEF CanAlloc
  <2>12. /\ d.fi \in Int /\ d.fi - Clear(d.ibm, NumInodes) \in 0..n /\ d.fb \in Int /\ d.fb - Clear(d.bbm, NumBlocks) \in 0..n
    BY DEF Steady, Trails
  <2>13. Trails(x, n + 1)
    BY <2>7, <2>11, <2>12, CountFollows DEF Trails
  <2>14. Trails(y, n)
    BY <2>8, <2>11, <2>12, CountFollows DEF Trails
  <2>15. k \notin d.bbm /\ k # NoBlock
    BY <2>11, Ext2Assumption DEF ZeroBits, NoBlock
  <2>16. Written(y) = Written(d) /\ \A i : BlockOf(y, i) = BlockOf(d, i)
    BY <2>8 DEF Written, BlockOf
  <2>17. \A i \in Written(y) : BlockOf(y, i) # k
    BY <2>6, <2>15, <2>16 DEF Sound, Backed
  <2>18. Passing(x, n) /\ Steady(y, m, n)
    BY <2>8, <2>9, <2>10, <2>13, <2>14 DEF Passing, Steady
  <2>19. \E z : <<x, y>> = <<z, y>> /\ Passing(z, n)
    BY <2>18
  <2>20. PICK q : q = <<x, y>>
    OBVIOUS
  <2>21. /\ EXT2_alloc_block(d, mem) = [num |-> k, mem |-> m, images |-> q]
         /\ (q = <<y>> \/ \E z : q = <<z, y>> /\ Passing(z, n))
         /\ Steady(y, m, n) /\ DOMAIN m = {"fb", "fi"}
         /\ y.inode = d.inode /\ y.dir = d.dir /\ y.ibm = d.ibm
         /\ k = NoBlock \/ (k \in y.bbm /\ \A i \in Written(y) : BlockOf(y, i) # k)
    BY <2>5, <2>8, <2>9, <2>11, <2>17, <2>18, <2>19, <2>20
  <2> QED BY <2>21
<1> QED BY <1>1, <1>2

LEMMA CreatesEntry ==
  ASSUME NEW d, NEW mem, NEW n \in Nat, Steady(d, mem, n), NEW b, NEW name \in Names, NEW ino \in Written(d)
  PROVE  \E q, y : /\ EXT2_createEntry(d, b, name, ino) = q /\ Steady(y, mem, n)
                   /\ q = <<y>> \/ \E x : q = <<x, y>> /\ Passing(x, n)
<1>1. CASE (b \notin DOMAIN d.dir) \/ ~Creates(d.dir[b], name)
  <2>1. EXT2_createEntry(d, b, name, ino) = <<d>>
    BY <1>1 DEF EXT2_createEntry
  <2> QED BY <2>1
<1>2. CASE ~((b \notin DOMAIN d.dir) \/ ~Creates(d.dir[b], name))
  <2>1. PICK x : x = [d EXCEPT !.dir[b] = WithEntry(@, name, ino)]
    OBVIOUS
  <2>2. PICK y : y = [x EXCEPT !.boot = "cleared"]
    OBVIOUS
  <2>3. EXT2_createEntry(d, b, name, ino) = <<x, y>>
    BY <1>2, <2>1, <2>2 DEF EXT2_createEntry
  <2>4. Sound(d)
    BY DEF Steady
  <2>5. Sound(x) /\ x.bbm = d.bbm /\ x.ibm = d.ibm /\ x.fb = d.fb /\ x.fi = d.fi
    <3>1. Adds(d, b, name, ino, x)
      BY <1>2, <2>1 DEF Adds
    <3> QED BY <2>4, <3>1, AddsEntry
  <2>6. DOMAIN x = ImageFields
    BY <2>5 DEF Sound, Shape
  <2>7. /\ DOMAIN y = ImageFields /\ y.bbm = x.bbm /\ y.ibm = x.ibm /\ y.fb = x.fb /\ y.fi = x.fi
        /\ y.inode = x.inode /\ y.dir = x.dir
    BY <2>2, <2>6 DEF ImageFields
  <2>8. Sound(y)
    BY <2>5, <2>7, Grows
  <2>9. Steady(x, mem, n) /\ Steady(y, mem, n)
    BY <2>5, <2>7, <2>8, SameCounts
  <2> QED BY <2>3, <2>9, SteadyPasses
<1> QED BY <1>1, <1>2

LEMMA LinksParent ==
  ASSUME NEW d, NEW mem, NEW n \in Nat, Steady(d, mem, n), NEW p, NEW c
  PROVE  \E x, y : LinkParent(d, mem, p, c) = <<x, y>> /\ Passing(x, n) /\ Steady(y, mem, n)
<1>1. PICK v : v = (d.inode[p].links + c) % 65536
  OBVIOUS
<1>2. PICK x : x = [d EXCEPT !.inode[p].links = v]
  OBVIOUS
<1>3. PICK y : y = [x EXCEPT !.fb = mem.fb, !.fi = mem.fi]
  OBVIOUS
<1>4. LinkParent(d, mem, p, c) = <<x, y>>
  BY <1>1, <1>2, <1>3 DEF LinkParent
<1>6. Sound(x) /\ x.bbm = d.bbm /\ x.ibm = d.ibm /\ x.fb = d.fb /\ x.fi = d.fi
  BY <1>2, Links DEF Steady
<1>7. DOMAIN x = ImageFields /\ d.fb = mem.fb /\ d.fi = mem.fi
  BY <1>6 DEF Sound, Shape, Steady
<1>8. /\ DOMAIN y = ImageFields /\ y.bbm = x.bbm /\ y.ibm = x.ibm /\ y.fb = x.fb /\ y.fi = x.fi
      /\ y.inode = x.inode /\ y.dir = x.dir
  BY <1>3, <1>6, <1>7 DEF ImageFields
<1>9. Sound(y)
  BY <1>6, <1>8, Grows
<1>10. Steady(x, mem, n) /\ Steady(y, mem, n)
  BY <1>6, <1>8, <1>9, SameCounts
<1> QED BY <1>4, <1>10, SteadyPasses

-----------------------------------------------------------------------------
(* Operations. *)

LEMMA RunOf ==
  ASSUME NEW S, NEW q \in Seq(S), q # <<>>, NEW n, NEW mem,
         \A x \in S : Passing(x, n), Steady(Last(q), mem, n)
  PROVE  Run(q, n, mem)
<1>1. \A x \in Range(q) : x \in S
  BY DEF Range
<1>2. q \in Seq(Range(q))
  BY DEF Range
<1> QED BY <1>1, <1>2 DEF Run

LEMMA EndsWith ==
  ASSUME NEW S, NEW s \in Seq(S), NEW x \in S, NEW y \in S
  PROVE  s \o <<x, y>> \in Seq(S) /\ s \o <<x, y>> # <<>> /\ Last(s \o <<x, y>>) = y
<1>1. <<x, y>> \in Seq(S) /\ Len(<<x, y>>) = 2 /\ <<x, y>>[2] = y
  OBVIOUS
<1>2. PICK t : t = <<x, y>>
  OBVIOUS
<1>3. s \o t \in Seq(S) /\ Len(s \o t) = Len(s) + 2 /\ (s \o t)[Len(s) + 2] = t[2]
  BY <1>1, <1>2
<1> QED BY <1>1, <1>2, <1>3 DEF Last

LEMMA MakeRuns ==
  ASSUME crashes \in Nat, Steady(disk, bgd, crashes), DOMAIN bgd = {"fb", "fi"},
         ZeroBits(disk.ibm, NumInodes) # {},
         NEW type, NEW parent, NEW name, name \in Names, NEW m, m = Make(type, parent, name)
  PROVE  Run(m.images, crashes, m.mem) /\ DOMAIN m.mem = {"fb", "fi"}
<1>0. PICK n \in Nat : n = crashes
  OBVIOUS
<1>1. PICK a1, a2, k, m1 :
        /\ alloc_inode(disk, bgd) = [num |-> k, mem |-> m1, images |-> <<a1, a2>>]
        /\ Passing(a1, n) /\ Steady(a2, m1, n) /\ DOMAIN m1 = {"fb", "fi"}
        /\ a2.inode = disk.inode /\ a2.dir = disk.dir
        /\ k \in a2.ibm /\ k \in DOMAIN a2.inode /\ k \notin Written(a2)
  BY <1>0, AllocatesInode
<1>b. TakesBlock(a2, m1, n)
  BY <1>1, AllocatesBlock
<1>2. PICK block, q1, b2, m2 :
        /\ EXT2_alloc_block(a2, m1) = [num |-> block, mem |-> m2, images |-> q1]
        /\ (q1 = <<b2>> \/ \E x : q1 = <<x, b2>> /\ Passing(x, n))
        /\ Steady(b2, m2, n) /\ DOMAIN m2 = {"fb", "fi"}
        /\ b2.inode = a2.inode /\ b2.dir = a2.dir /\ b2.ibm = a2.ibm
        /\ block = NoBlock \/ (block \in b2.bbm /\ \A i \in Written(b2) : BlockOf(b2, i) # block)
  BY <1>b DEF TakesBlock
<1>3. PICK b1 : Passing(b1, n) /\ (q1 = <<b2>> \/ q1 = <<b1, b2>>)
  BY <1>2, SteadyPasses
<1>4. PICK inode : inode = [type |-> type, links |-> 2, block |-> block, by |-> "code"]
  OBVIOUS
<1>5. PICK d1 : d1 = [b2 EXCEPT !.inode[k] = inode]
  OBVIOUS
<1>6. Written(b2) = Written(a2)
  BY <1>2 DEF Written
<1>7. Sound(d1) /\ k \in Written(d1) /\ Steady(d1, m2, n)
  <2>1. DOMAIN inode = InodeFields /\ inode.by = "code" /\ inode.block = block
    BY <1>4 DEF InodeFields
  <2>2. Sound(d1) /\ k \in Written(d1) /\ d1.bbm = b2.bbm /\ d1.ibm = b2.ibm /\ d1.fb = b2.fb /\ d1.fi = b2.fi
    BY <1>1, <1>2, <1>5, <1>6, <2>1, WritesInode DEF Steady
  <2> QED BY <1>2, <2>2, SameCounts
<1>8. PICK q2, e2 : /\ EXT2_createEntry(d1, d1.inode[parent].block, name, k) = q2 /\ Steady(e2, m2, n)
                    /\ q2 = <<e2>> \/ \E x : q2 = <<x, e2>> /\ Passing(x, n)
  BY <1>7, CreatesEntry
<1>9. PICK e1 : Passing(e1, n) /\ (q2 = <<e2>> \/ q2 = <<e1, e2>>)
  BY <1>8, SteadyPasses
<1>10. PICK p1, p2 : LinkParent(e2, m2, parent, 1) = <<p1, p2>> /\ Passing(p1, n) /\ Steady(p2, m2, n)
  BY <1>8, LinksParent
<1>11. Last(<<a1, a2>>) = a2 /\ Last(q1) = b2 /\ Last(q2) = e2
  <2>1. \A x, y : Len(<<x, y>>) = 2 /\ <<x, y>>[2] = y /\ Len(<<y>>) = 1 /\ <<y>>[1] = y
    OBVIOUS
  <2>2. \A x, y : Last(<<x, y>>) = y /\ Last(<<y>>) = y
    BY <2>1 DEF Last
  <2> QED BY <1>3, <1>9, <2>2
<1>12. PICK q : q = <<a1, a2>> \o q1 \o <<d1, d1>> \o q2
  OBVIOUS
<1>13. m.images = q \o <<p1, p2>> /\ m.mem = m2
  <2>1. PICK a : a = alloc_inode(disk, bgd)
    OBVIOUS
  <2>2. a.num = k /\ a.mem = m1 /\ a.images = <<a1, a2>> /\ Last(a.images) = a2
    BY <1>1, <1>11, <2>1
  <2>3. PICK b : b = EXT2_alloc_block(Last(a.images), a.mem)
    OBVIOUS
  <2>4. b.num = block /\ b.mem = m2 /\ b.images = q1 /\ Last(b.images) = b2
    BY <1>2, <1>11, <2>2, <2>3
  <2>5. d1 = [Last(b.images) EXCEPT !.inode[a.num] = [type |-> type, links |-> 2, block |-> b.num, by |-> "code"]]
    BY <1>4, <1>5, <2>2, <2>4
  <2>6. q2 = EXT2_createEntry(d1, d1.inode[parent].block, name, a.num)
    BY <1>8, <2>2
  <2>7. LinkParent(Last(q2), b.mem, parent, 1) = <<p1, p2>>
    BY <1>10, <1>11, <2>4
  <2>8. PICK images : images = a.images \o b.images \o <<d1, d1>> \o q2 \o LinkParent(Last(q2), b.mem, parent, 1)
    OBVIOUS
  <2>9. m = [images |-> images, mem |-> b.mem, made |-> d1]
    BY <2>1, <2>3, <2>5, <2>6, <2>8 DEF Make
  <2>10. m.images = images /\ m.mem = b.mem
    BY <2>9
  <2>11. images = <<a1, a2>> \o q1 \o <<d1, d1>> \o q2 \o <<p1, p2>>
    BY <2>2, <2>4, <2>7, <2>8, Zenon
  <2> QED BY <1>12, <2>4, <2>10, <2>11, Zenon
<1>14. PICK S : S = {a1, a2, b1, b2, d1, e1, e2, p1, p2}
  OBVIOUS
<1>15. \A x \in S : Passing(x, n)
  BY <1>1, <1>2, <1>3, <1>7, <1>8, <1>9, <1>10, <1>14, SteadyPasses
<1>16. <<a1, a2>> \in Seq(S) /\ q1 \in Seq(S) /\ <<d1, d1>> \in Seq(S) /\ q2 \in Seq(S) /\ p1 \in S /\ p2 \in S
  <2>1. \A x, y \in S : <<x, y>> \in Seq(S) /\ <<y>> \in Seq(S)
    OBVIOUS
  <2> QED BY <1>3, <1>9, <1>14, <2>1
<1>17. q \in Seq(S)
  BY <1>12, <1>16
<1>18. q \o <<p1, p2>> \in Seq(S) /\ q \o <<p1, p2>> # <<>> /\ Last(q \o <<p1, p2>>) = p2
  BY <1>16, <1>17, EndsWith
<1>19. Run(q \o <<p1, p2>>, n, m2)
  BY <1>10, <1>15, <1>18, RunOf
<1> QED BY <1>0, <1>2, <1>13, <1>19

LEMMA UnlinkRuns ==
  ASSUME crashes \in Nat, Steady(disk, bgd, crashes), NEW parent, NEW name, NEW d, BlockOf(disk, parent) \in DOMAIN disk.dir,
         d = [disk EXCEPT !.dir[BlockOf(disk, parent)] = EXT2_removeEntry(@, name)]
  PROVE  Run(<<d>> \o LinkParent(d, bgd, parent, -1), crashes, bgd)
<1>0. PICK n \in Nat : n = crashes
  OBVIOUS
<1>1. Sound(d) /\ d.bbm = disk.bbm /\ d.ibm = disk.ibm /\ d.fb = disk.fb /\ d.fi = disk.fi
  BY RemovesEntry DEF Steady
<1>2. Steady(d, bgd, n)
  BY <1>0, <1>1, SameCounts
<1>3. PICK x, y : LinkParent(d, bgd, parent, -1) = <<x, y>> /\ Passing(x, n) /\ Steady(y, bgd, n)
  BY <1>2, LinksParent
<1>4. PICK S : S = {d, x, y}
  OBVIOUS
<1>5. <<d>> \in Seq(S) /\ x \in S /\ y \in S
  BY <1>4
<1>6. \A z \in S : Passing(z, n)
  BY <1>2, <1>3, <1>4, SteadyPasses
<1>7. PICK s \in Seq(S) : s = <<d>>
  BY <1>5
<1>8. s \o <<x, y>> \in Seq(S) /\ s \o <<x, y>> # <<>> /\ Last(s \o <<x, y>>) = y
  BY <1>5, EndsWith
<1> QED BY <1>0, <1>3, <1>6, <1>7, <1>8, RunOf

-----------------------------------------------------------------------------
(* The invariant. *)

LEMMA Starts == Init => IInv
<1> SUFFICES ASSUME Init PROVE IInv
  OBVIOUS
<1>1. disk = Disk0 /\ bgd = [fb |-> Disk0.fb, fi |-> Disk0.fi] /\ todo = <<>> /\ crashes = 0
  BY DEF Init
<1>2. Written(Disk0) = {}
  BY MkfsAssumption DEF Written
<1>3. Shape(Disk0)
  BY MkfsAssumption DEF Shape, ImageFields, InodeFields, EntryFields
<1>4. Sound(Disk0)
  <2>1. Orderly(Disk0)
    BY MkfsAssumption DEF Orderly, Readable, AnyName
  <2> QED BY <1>2, <1>3, <2>1 DEF Sound, Backed, Unshared, Entries, Named, FromMkfs
<1>5. Clear(Disk0.bbm, NumBlocks) \in Nat /\ Clear(Disk0.ibm, NumInodes) \in Nat
  BY ClearBits, Ext2Assumption
<1>6. Trails(Disk0, 0)
  BY <1>5, MkfsAssumption DEF Trails, Clear
<1>7. Steady(disk, bgd, crashes)
  BY <1>1, <1>4, <1>6 DEF Steady
<1>8. Passing(disk, crashes)
  BY <1>1, <1>7, SteadyPasses
<1> QED BY <1>1, <1>7, <1>8 DEF IInv

LEMMA Steps == IInv /\ [Next]_vars => IInv'
<1> SUFFICES ASSUME IInv, [Next]_vars PROVE IInv'
  OBVIOUS
<1>1. ASSUME NEW type, NEW p, NEW name \in Names, EXT2_make(type, p, name) PROVE IInv'
  <2>1. todo = <<>> /\ UNCHANGED <<disk, crashes>> /\ Steady(disk, bgd, crashes) /\ crashes \in Nat
    BY <1>1 DEF EXT2_make, IInv
  <2>2. CASE ~CanAlloc(bgd.fi, disk.ibm, NumInodes)
    <3>1. UNCHANGED <<bgd, todo>>
      BY <1>1, <2>2 DEF EXT2_make
    <3> QED BY <2>1, <3>1 DEF IInv
  <2>3. CASE CanAlloc(bgd.fi, disk.ibm, NumInodes)
    <3>1. PICK m : m = Make(type, p, name)
      OBVIOUS
    <3>2. bgd' = m.mem /\ todo' = m.images
      BY <1>1, <2>3, <3>1 DEF EXT2_make
    <3>3. Run(m.images, crashes, m.mem) /\ DOMAIN m.mem = {"fb", "fi"}
      BY <2>1, <2>3, <3>1, MakeRuns DEF CanAlloc, IInv
    <3>4. todo' # <<>>
      BY <3>2, <3>3 DEF Run
    <3> QED BY <2>1, <3>2, <3>3, <3>4 DEF IInv
  <2> QED BY <2>2, <2>3
<1>2. ASSUME NEW p \in Dirs, NEW name, EXT2_unlink(p, name) PROVE IInv'
  <2>1. todo = <<>> /\ UNCHANGED <<disk, bgd, crashes>> /\ Steady(disk, bgd, crashes) /\ crashes \in Nat
    BY <1>2 DEF EXT2_unlink, IInv
  <2>2. PICK d : d = [disk EXCEPT !.dir[BlockOf(disk, p)] = EXT2_removeEntry(@, name)]
    OBVIOUS
  <2>3. todo' = <<d>> \o LinkParent(d, bgd, p, -1)
    BY <1>2, <2>2 DEF EXT2_unlink
  <2>4. BlockOf(disk, p) \in DOMAIN disk.dir
    BY DEF Dirs, IsDir
  <2>5. Run(todo', crashes, bgd)
    BY <2>1, <2>2, <2>3, <2>4, UnlinkRuns
  <2>6. todo' # <<>>
    BY <2>5 DEF Run
  <2> QED BY <2>1, <2>5, <2>6 DEF IInv
<1>3. CASE write_disk_block
  <2>1. todo # <<>> /\ disk' = Head(todo) /\ todo' = Tail(todo) /\ UNCHANGED <<bgd, crashes>>
    BY <1>3 DEF write_disk_block
  <2>2. Run(todo, crashes, bgd) /\ crashes \in Nat
    BY <2>1 DEF IInv
  <2>3. PICK S : S = Range(todo)
    OBVIOUS
  <2>4. todo \in Seq(S) /\ \A x \in S : Passing(x, crashes)
    BY <2>2, <2>3 DEF Run
  <2>5. Head(todo) \in S /\ Tail(todo) \in Seq(S)
    BY <2>1, <2>4
  <2>6. CASE Tail(todo) = <<>>
    <3>1. Last(todo) = Head(todo)
      <4>0. PICK t \in Seq(S) : t = todo
        BY <2>4
      <4>1. Len(todo) = 1
        <5>1. t # <<>> /\ Tail(t) = <<>>
          BY <2>1, <2>6, <4>0
        <5>2. Len(Tail(t)) = Len(t) - 1
          BY <5>1
        <5>3. Len(t) \in Nat /\ Len(<<>>) = 0
          OBVIOUS
        <5> QED BY <4>0, <5>1, <5>2, <5>3
      <4>2. Head(todo) = todo[1]
        BY <2>1, <2>4
      <4> QED BY <4>1, <4>2 DEF Last
    <3> QED BY <2>1, <2>2, <2>4, <2>5, <2>6, <3>1 DEF IInv, Run
  <2>7. CASE Tail(todo) # <<>>
    <3>1. Last(Tail(todo)) = Last(todo)
      BY <2>1, <2>4, <2>7 DEF Last
    <3>2. Run(Tail(todo), crashes, bgd)
      BY <2>2, <2>4, <2>5, <2>7, <3>1, RunOf DEF Run
    <3> QED BY <2>1, <2>2, <2>4, <2>5, <2>7, <3>2 DEF IInv
  <2> QED BY <2>6, <2>7
<1>4. CASE Crash
  <2>1. crashes' = crashes + 1 /\ todo' = <<>> /\ bgd' = [fb |-> disk.fb, fi |-> disk.fi] /\ disk' = disk /\ crashes \in Nat
    BY <1>4 DEF Crash, IInv
  <2>2. Sound(disk) /\ Trails(disk, crashes + 1)
    BY DEF IInv, Passing
  <2>3. Steady(disk', bgd', crashes')
    BY <2>1, <2>2 DEF Steady
  <2>4. Passing(disk', crashes')
    BY <2>1, <2>3, SteadyPasses
  <2> QED BY <2>1, <2>3, <2>4 DEF IInv
<1>5. CASE UNCHANGED vars
  BY <1>5 DEF vars, IInv
<1> QED BY <1>1, <1>2, <1>3, <1>4, <1>5 DEF Next, EXT2_mkfile, EXT2_mkdir

-----------------------------------------------------------------------------
(* Theorems. *)

LEMMA Invariant == Spec => []IInv
BY Starts, Steps, PTL DEF Spec

(* Wherever a power loss cuts EXT2_mkfile, EXT2_mkdir and EXT2_unlink, no two inodes that they
   have written own the same block. *)
THEOREM BlocksNeverShared == Spec => []NoSharedBlocks
<1>1. IInv => NoSharedBlocks
  BY DEF IInv, Passing, Sound, Unshared, NoSharedBlocks, ByCode, Written
<1> QED BY <1>1, Invariant, PTL

(* Wherever it cuts them, an entry that they have added names an inode that is written, with its
   bit and its block's bit taken. *)
THEOREM EntriesNameInodes == Spec => []EntryAfterInode
<1>1. ASSUME IInv PROVE EntryAfterInode
  <2>1. Backed(disk) /\ Entries(disk)
    BY <1>1 DEF IInv, Passing, Sound
  <2>2. SUFFICES ASSUME NEW b \in DOMAIN disk.dir, NEW o \in DOMAIN disk.dir[b], NEW i, i = disk.dir[b][o].ino,
                        i # 0, ~ByMkfs(b, o)
                 PROVE  i \in ByCode /\ i \in disk.ibm /\ BlockOf(disk, i) \in disk.bbm \cup {NoBlock}
    BY DEF EntryAfterInode
  <2>3. i \in Written(disk)
    BY <2>1, <2>2 DEF Entries, Named, FromMkfs, ByMkfs
  <2>4. i \in ByCode
    BY <2>3 DEF Written, ByCode
  <2> QED BY <2>1, <2>3, <2>4 DEF Backed
<1> QED BY <1>1, Invariant, PTL

(* The free counts on disk are never below the zero bits, and each loss leaves them at most one
   too high, although a count that trails is what the next operation starts from. *)
THEOREM CountsTrailLosses == Spec => []CountsTrail
<1>1. ASSUME IInv PROVE CountsTrail
  <2>1. crashes \in Nat /\ Trails(disk, crashes + 1)
    BY <1>1 DEF IInv, Passing
  <2>2. todo = <<>> => Trails(disk, crashes)
    BY <1>1 DEF IInv, Steady
  <2>3. PICK late : late = crashes + (IF todo = <<>> THEN 0 ELSE 1)
    OBVIOUS
  <2>4. Trails(disk, late)
    BY <2>1, <2>2, <2>3
  <2> QED BY <2>3, <2>4 DEF CountsTrail, Trails, Clear
<1> QED BY <1>1, Invariant, PTL

(* Wherever a power loss cuts the operations, no directory lists a name twice. *)
THEOREM NamesListedOnce == Spec => []NamesOnce
<1>1. IInv => NamesOnce
  BY DEF IInv, Passing, Sound, Orderly, NamesOnce
<1> QED BY <1>1, Invariant, PTL

(* Whatever is listed is found under its name, until an entry comes before it whose name's length
   is a multiple of four. *)
THEOREM ListedAreFound == Spec => []FoundUntilFour
<1>1. ASSUME IInv PROVE FoundUntilFour
  <2>1. SUFFICES ASSUME NEW i \in Dirs, NEW b, b = disk.dir[BlockOf(disk, i)], NEW o, o \in EXT2_listdir(b),
                        NoFourBefore(b, o)
                 PROVE  EXT2_finddir(b, At(b, o).name) = At(b, o).ino
    BY DEF FoundUntilFour, NoFourBefore
  <2>2. BlockOf(disk, i) \in DOMAIN disk.dir
    BY DEF Dirs, IsDir
  <2>3. Readable(b) /\ NamedOnce(b)
    BY <1>1, <2>1, <2>2 DEF IInv, Passing, Sound, Orderly
  <2> QED BY <2>1, <2>3, ListedFound
<1> QED BY <1>1, Invariant, PTL
=============================================================================
