------------------------------ MODULE LogDisk ------------------------------
(***************************************************************************)
(* The log buffer (drivers/storage/logdisk.c). kernelmain logs with        *)
(* interrupts enabled; a handler that logs (network, filesystem) runs      *)
(* between any two steps of logdisk_putc and is not interrupted itself.    *)
(* /dev/log gives readers and writers the same buffer.                     *)
(***************************************************************************)
EXTENDS Integers, Sequences, FiniteSets

CONSTANTS LogSize, LogWide,           \* bytes of the buffer; 2^32
          LogOffsets, LogSizes,       \* of reads and writes of /dev/log
          MaxChars, MaxInterrupts     \* bounds

ASSUME LogAssumption ==
  /\ LogSize \in Nat \ {0} /\ LogWide \in Nat /\ LogSize < LogWide
  /\ LogOffsets \subseteq Nat /\ LogSizes \subseteq Nat
  /\ MaxChars \in Nat /\ MaxInterrupts \in Nat

VARIABLES
  buffer, pos,      \* logdisk.buffer and the byte behind it (a header of the heap); logdisk.pos
  at, value,        \* logdisk_putc in kernelmain: the next step, and the register that holds pos + 1
  put,              \* history: the characters logged since /dev/log was last written, in order
  tangled,          \* history: how often an interrupt logged between the steps of a putc
  logread,          \* the last read or write of /dev/log
  lstatus           \* "ok", or "wild" once memory far outside is touched

lvars == <<buffer, pos, at, value, put, tangled, logread, lstatus>>

NUL == 0
Cells == 0..LogSize        \* one more than the buffer has

LogInit ==
  /\ buffer = [c \in Cells |-> NUL] /\ pos = 0 /\ at = "store" /\ value = 0
  /\ put = <<>> /\ tangled = 0
  /\ logread = [off |-> 0, n |-> 0, got |-> 0] /\ lstatus = "ok"

Char == Len(put) + 1       \* every character logged is a new one

WrapLate(p) == IF p > LogSize THEN 0 ELSE p     \* mutant of Wrap
Wrap(p) == IF p >= LogSize THEN 0 ELSE p

\* logdisk_putc, as kernelmain runs it: store, read and add, write back, compare
store ==
  /\ at = "store" /\ Len(put) < MaxChars /\ lstatus = "ok"
  /\ buffer' = [buffer EXCEPT ![pos] = Char] /\ put' = Append(put, Char)
  /\ at' = "add"
  /\ UNCHANGED <<pos, value, tangled, logread, lstatus>>
add ==
  /\ at = "add" /\ value' = pos + 1 /\ at' = "back"
  /\ UNCHANGED <<buffer, pos, put, tangled, logread, lstatus>>
back ==
  /\ at = "back" /\ pos' = value /\ at' = "wrap"
  /\ UNCHANGED <<buffer, value, put, tangled, logread, lstatus>>
wrapEarly ==      \* mutant of wrap: the last character of the buffer is never used
  /\ at = "wrap" /\ pos' = (IF pos >= LogSize - 1 THEN 0 ELSE pos) /\ at' = "store"
  /\ UNCHANGED <<buffer, value, put, tangled, logread, lstatus>>
wrap ==
  /\ at = "wrap" /\ pos' = Wrap(pos) /\ at' = "store"
  /\ UNCHANGED <<buffer, value, put, tangled, logread, lstatus>>

\* a handler that logs one or two characters
printl(k) ==
  LET second == Wrap(pos + 1) IN
  /\ tangled < MaxInterrupts /\ Len(put) + k <= MaxChars /\ lstatus = "ok"
  /\ buffer' = IF k = 1 THEN [buffer EXCEPT ![pos] = Char] ELSE [buffer EXCEPT ![pos] = Char, ![second] = Char + 1]
  /\ put' = put \o (IF k = 1 THEN <<Char>> ELSE <<Char, Char + 1>>)
  /\ pos' = IF k = 1 THEN second ELSE Wrap(second + 1)
  /\ tangled' = tangled + 1
  /\ UNCHANGED <<at, value, logread, lstatus>>

\* logdisk_read and logdisk_write: a request that passes the end is cut; one that starts
\* behind the end is cut to a negative size, an enormous unsigned one.
Clamp(off, n) == IF (off + n) % LogWide > LogSize THEN (LogSize - off + LogWide) % LogWide ELSE n
logdisk_read(off, n) ==
  /\ lstatus = "ok"
  /\ logread' = [off |-> off, n |-> n, got |-> Clamp(off, n)]
  /\ lstatus' = IF off + Clamp(off, n) > LogSize THEN "wild" ELSE "ok"
  /\ UNCHANGED <<buffer, pos, at, value, put, tangled>>

\* what the writer puts there is not part of the log
logdisk_write(off, n) ==
  /\ lstatus = "ok"
  /\ lstatus' = IF off + Clamp(off, n) > LogSize THEN "wild" ELSE "ok"
  /\ buffer' = [c \in Cells |-> IF c \in off..off + Clamp(off, n) - 1 THEN NUL ELSE buffer[c]]
  /\ put' = <<>> /\ logread' = [off |-> off, n |-> n, got |-> Clamp(off, n)]
  /\ UNCHANGED <<pos, at, value, tangled>>

LogNext ==
  \/ store \/ add \/ back \/ wrap
  \/ \E k \in 1..2 : printl(k)
  \/ \E off \in LogOffsets, n \in LogSizes : logdisk_read(off, n) \/ logdisk_write(off, n)

LogSpec == LogInit /\ [][LogNext]_lvars

-----------------------------------------------------------------------------
(* Properties. *)

(* However interrupts cut into logdisk_putc, no character is stored further than the one byte
   behind the buffer, and that byte is reached only if an interrupt did cut in; a read or write
   of /dev/log that starts inside stays inside, unless offset and size overflow together. *)
LogInBuffer ==
  /\ pos \in Cells
  /\ buffer[LogSize] # NUL => tangled > 0
  /\ lstatus = "wild" => logread.off > LogSize \/ logread.off + logread.n >= LogWide

(* Without such interrupts the buffer is a ring of the last LogSize characters: the character k
   places before the write position is the one logged k calls ago. *)
LogKeepsLast ==
  (tangled = 0 /\ at = "store") =>
    \A k \in 1..LogSize : k <= Len(put) => buffer[(pos - k) % LogSize] = put[Len(put) - k + 1]
=============================================================================
