-------------------------------- MODULE Rtc --------------------------------
(***************************************************************************)
(* Reading the real-time clock (drivers/time/rtc.c) while it runs. The     *)
(* registers are read one by one, after the update flag is seen clear, and *)
(* the reading is repeated until two passes agree. An interrupt may come   *)
(* between any two port accesses and last longer than an update.           *)
(*                                                                         *)
(* Day and month, read and decoded like the minutes, are left out: the     *)
(* year follows the hour. The kernel is built without a century register.  *)
(***************************************************************************)
EXTENDS Integers, Sequences

CONSTANTS Seconds, Minutes,    \* 60
          ClockStarts,         \* times at which a reading may begin
          MaxUpdates           \* bound: updates of the clock during a reading, fewer than Seconds

ASSUME RtcAssumption ==
  /\ Seconds \in Nat \ {0} /\ Minutes \in Nat \ {0} /\ ClockStarts \subseteq Nat
  /\ MaxUpdates \in Nat /\ MaxUpdates < Seconds

VARIABLES
  now, updating,     \* the clock's time; TRUE while its registers change
  mode,              \* register B: binary or BCD, 24 or 12 hours
  reading,           \* the step of rtc_read, the registers read so far, and the last pass
  begun, result      \* history: when the reading began; what it returned

rtcvars == <<now, updating, mode, reading, begun, result>>

Registers == <<"second", "minute", "hour", "year">>
Day == Seconds * Minutes * 24

-----------------------------------------------------------------------------
(* The clock. *)

Fields(t) == [second |-> t % Seconds, minute |-> (t \div Seconds) % Minutes,
              hour |-> (t \div (Seconds * Minutes)) % 24, year |-> (t \div Day) % 100]
Bcd(n) == (n \div 10) * 16 + (n % 10)
Hour12(h) == IF h % 12 = 0 THEN 12 ELSE h % 12
Register(t, r) ==
  LET n == Fields(t)[r]
      m == IF r = "hour" /\ ~mode.hours24 THEN Hour12(n) ELSE n
      pm == IF r = "hour" /\ ~mode.hours24 /\ n >= 12 THEN 128 ELSE 0
  IN  pm + IF mode.binary THEN m ELSE Bcd(m)

UpdateBegins ==
  /\ ~updating /\ reading.step # "done" /\ now < begun + MaxUpdates
  /\ updating' = TRUE /\ UNCHANGED <<now, mode, reading, begun, result>>
UpdateEnds ==
  /\ updating /\ updating' = FALSE /\ now' = now + 1
  /\ UNCHANGED <<mode, reading, begun, result>>

-----------------------------------------------------------------------------
(* rtc_read *)

FromBcd(n) == (n % 16) + (n \div 16) * 10
FromBcdHour(n) == (n % 16) + ((n % 128) \div 16) * 10 + (IF n >= 128 THEN 128 ELSE 0)
CURRENT_YEAR == 2021
Decoded(regs) ==
  LET plain == [r \in DOMAIN regs |-> IF mode.binary THEN regs[r]
                                      ELSE IF r = "hour" THEN FromBcdHour(regs[r]) ELSE FromBcd(regs[r])]
      h == plain.hour
      y == plain.year + (CURRENT_YEAR \div 100) * 100
  IN  [plain EXCEPT !.hour = IF ~mode.hours24 /\ h >= 128 THEN ((h % 128) + 12) % 24 ELSE h,
                    !.year = IF y < CURRENT_YEAR THEN y + 100 ELSE y]

RtcInit ==
  /\ now \in ClockStarts /\ begun = now /\ updating = FALSE
  /\ mode \in [binary : BOOLEAN, hours24 : BOOLEAN]
  /\ reading = [step |-> "poll", regs |-> <<>>, last |-> <<>>] /\ result = [hour |-> -1]

rtc_get_update_in_progres_flag ==
  /\ reading.step = "poll" /\ ~updating
  /\ reading' = [reading EXCEPT !.step = "read"]
  /\ UNCHANGED <<now, updating, mode, begun, result>>

\* A register read while it changes has its old value or its new one.
rtc_read_reg ==
  /\ reading.step = "read" /\ Len(reading.regs) < Len(Registers)
  /\ \E t \in {now, IF updating THEN now + 1 ELSE now} :
       reading' = [reading EXCEPT !.regs = Append(@, Register(t, Registers[Len(reading.regs) + 1]))]
  /\ UNCHANGED <<now, updating, mode, begun, result>>

SameAsLastNever(regs, last) == last # <<>>     \* mutant: two passes are enough
SameAsLast(regs, last) == regs = last
rtc_read ==
  /\ reading.step = "read" /\ Len(reading.regs) = Len(Registers)
  /\ IF SameAsLast(reading.regs, reading.last)
     THEN /\ reading' = [reading EXCEPT !.step = "done"]
          /\ result' = Decoded([second |-> reading.regs[1], minute |-> reading.regs[2],
                                hour |-> reading.regs[3], year |-> reading.regs[4]])
     ELSE reading' = [step |-> "poll", regs |-> <<>>, last |-> reading.regs] /\ UNCHANGED result
  /\ UNCHANGED <<now, updating, mode, begun>>

RtcNext == UpdateBegins \/ UpdateEnds \/ rtc_get_update_in_progres_flag \/ rtc_read_reg \/ rtc_read

RtcSpec == RtcInit /\ [][RtcNext]_rtcvars

-----------------------------------------------------------------------------
(* What is read is a time the clock showed during the reading, never parts of two times, although
   updates cut into both passes: with fewer updates than seconds in a minute, two passes cannot
   agree otherwise. In 12-hour mode midnight and noon are read as each other, and a clock that is
   set before CURRENT_YEAR is read a century late (rtc_read). *)
Shown(t) ==
  LET f == Fields(t) IN
  [f EXCEPT !.hour = IF mode.hours24 \/ f.hour \notin {0, 12} THEN f.hour ELSE 12 - f.hour,
            !.year = f.year + IF f.year < CURRENT_YEAR % 100 THEN 2100 ELSE 2000]
ClockRead == reading.step = "done" => \E t \in begun..now : result = Shown(t)
=============================================================================
