------------------------------ MODULE Console ------------------------------
(***************************************************************************)
(* From a scancode to a command: process_kbh (process/process.c) decodes   *)
(* it and calls the handler of the current process, which is the shell's   *)
(* line editor (handler) or the rock-paper-scissors game (rps_handler), in *)
(* Kernel/KernelMain.c. All of it runs in the keyboard interrupt.          *)
(*                                                                         *)
(* A handler is called for every scancode, releases included; key is then  *)
(* a local that nothing assigned, and holds a value out of Junk (the shell *)
(* takes '\300' for it). isCHPMode is another: a build in which it is 1    *)
(* never calls a handler, here it is not. The commands exit and chpr,      *)
(* which switch processes, are in ProcessManager.                          *)
(***************************************************************************)
EXTENDS Integers, Sequences, SequencesExt, TLC

CONSTANTS
  Scancodes,   \* that the user produces
  Junk,        \* values of an unassigned key
  Size,        \* bytes of the line buffer, 256
  RpsSize,     \* bytes of rps_buf, 16
  Name,        \* the name of each command, as keys; "other" stands for those without effect here
  MaxRounds    \* bound: rounds of the game

VARIABLES
  isShift,
  reader,                         \* the current process: "init", "rps", or "none" after the shell's exit
  kbhb, kbhb_index,
  rps_buf, score,                 \* won, lost, tied
  typed, erased, under,           \* history: the line on the screen; a key was taken back, or one too many
  ran,                            \* history: the line that was just run, or NotRun
  kstatus                         \* "ok" or "wild" after a write outside a buffer

linevars == <<kbhb, kbhb_index, typed, erased, under, ran>>
convars == <<isShift, reader, linevars, rps_buf, score, kstatus>>

NUL == "NUL"
NotRun == [command |-> "none"]
Zeroed == [i \in 0..Size - 1 |-> NUL]

-----------------------------------------------------------------------------
(* The keyboard: for each scancode the key without shift and with it. *)

Row(first, plain, shifted) ==
  [sc \in first..first + Len(plain) - 1 |-> <<plain[sc - first + 1], shifted[sc - first + 1]>>]
Digits == Row(2, <<"1", "2", "3", "4", "5", "6", "7", "8", "9", "0", "-", "=">>,
                 <<"!", "@", "#", "$", "%", "^", "&", "*", "(", ")", "_", "+">>)
Upper  == Row(16, <<"q", "w", "e", "r", "t", "y", "u", "i", "o", "p", "[", "]", "NL">>,
                  <<"Q", "W", "E", "R", "T", "Y", "U", "I", "O", "P", "{", "}", "NL">>)
Home   == Row(30, <<"a", "s", "d", "f", "g", "h", "j", "k", "l", ";">>,
                  <<"A", "S", "D", "F", "G", "H", "J", "K", "L", ":">>)
Lower  == Row(44, <<"z", "x", "c", "v", "b", "n", "m", ",", ".", "/">>,
                  <<"Z", "X", "C", "V", "B", "N", "M", "<", ">", "?">>)
Others == (14 :> <<"BS", "BS">>) @@ (15 :> <<"TAB", "TAB">>) @@ (41 :> <<"grave", "~">>) @@
          (43 :> <<"backslash", "|">>) @@ (57 :> <<" ", " ">>)
KeyTable == Digits @@ Upper @@ Home @@ Lower @@ Others

Key == Junk \cup {NUL} \cup {KeyTable[sc][k] : sc \in DOMAIN KeyTable, k \in {1, 2}}

LShift == 42
RShift == 54
Released(sc) == sc + 128
CapsLock == 58
Unassigned == {29, 56, LShift, RShift, CapsLock, 69}     \* control, alt, num lock too
KeysOf(sc) ==
  IF sc >= 80 \/ sc \in Unassigned THEN Junk
  ELSE IF sc \in DOMAIN KeyTable THEN {KeyTable[sc][IF isShift THEN 2 ELSE 1]} ELSE {NUL}

ShiftAfter(shift, sc) ==
  IF sc \in {LShift, RShift} THEN TRUE ELSE IF sc = CapsLock THEN ~shift
  ELSE IF sc \in {Released(LShift), Released(RShift)} THEN FALSE ELSE shift

-----------------------------------------------------------------------------
(* The line. Text(b, n) is the string at b + n: it ends at the first NUL. *)

TextEnd(b, n) ==
  CHOOSE m \in {n} \cup {i + 1 : i \in DOMAIN b} :
    m >= n /\ (m \notin DOMAIN b \/ b[m] = NUL) /\ \A i \in n..m - 1 : i \in DOMAIN b /\ b[i] # NUL
Text(b, n) == [i \in 1..TextEnd(b, n) - n |-> b[n + i - 1]]
Occurs(s, name) == {p \in 0..Len(s) - Len(name) : SubSeq(s, p + 1, p + Len(name)) = name}
strstr(s, name) == CHOOSE p \in Occurs(s, name) : \A q \in Occurs(s, name) : p <= q

\* No command with an argument begins another name that the handler compares a line with before it.
Apart(s, name) == ~IsPrefix(s, name) /\ ~IsPrefix(name, s)
ASSUME ConsoleAssumption ==
  /\ Size \in Nat \ {0} /\ RpsSize \in Nat
  /\ Name \in [{"exit", "echo", "rps", "other", "ls", "cd", "cat", "uname"} -> Seq(Key)]
  /\ \A c \in {"ls", "cd", "cat", "uname"} : Apart(Name.echo, Name[c])
  /\ \A c \in {"echo", "ls", "cd", "cat", "uname"}, d \in {"exit", "rps", "other"} : ~IsPrefix(Name[c], Name[d])

\* what the handler makes of a line: the command, and the position of its argument
Dispatch(s) ==
  IF s = Name.exit THEN [command |-> "exit", arg |-> Size]
  ELSE IF IsPrefix(Name.echo, s) THEN [command |-> "echo", arg |-> Len(Name.echo) + 1]
  ELSE IF s = Name.rps THEN [command |-> "rps", arg |-> Size]
  ELSE IF s = Name.other THEN [command |-> "other", arg |-> Size]
  ELSE IF Occurs(s, Name.ls) # {} THEN [command |-> "ls", arg |-> strstr(s, Name.ls) + Len(Name.ls) + 1]
  ELSE IF Occurs(s, Name.cd) # {} THEN [command |-> "cd", arg |-> strstr(s, Name.cd) + Len(Name.cd) + 1]
  ELSE IF Occurs(s, Name.cat) # {} THEN [command |-> "cat", arg |-> strstr(s, Name.cat) + Len(Name.cat) + 1]
  ELSE IF IsPrefix(Name.uname, s) THEN [command |-> "uname", arg |-> Len(Name.uname) + 1]
  ELSE [command |-> "unknown", arg |-> 0]

AfterLine(b) == Zeroed
\* rps switches to the game before the index is reset
IndexAfter(command) == IF command = "rps" THEN kbhb_index ELSE 0

\* cd sets 512 bytes to zero from c_dir, which has two: blocks behind it in the heap are lost, perhaps
\* the line buffer with the argument
RunLine(b) ==
  LET s == Text(b, 0)
      d == Dispatch(s)
      arg == Text(b, d.arg)
  IN  /\ ran' = [command |-> d.command, text |-> s, arg |-> arg, typed |-> typed, erased |-> erased, under |-> under]
      /\ kbhb' = AfterLine(b)
      /\ kstatus' = IF d.command = "cd" THEN "wild" ELSE kstatus
      /\ kbhb_index' = IndexAfter(d.command)
      /\ reader' = IF d.command = "rps" THEN "rps" ELSE IF d.command = "exit" THEN "none" ELSE "init"
      /\ typed' = <<>> /\ erased' = FALSE /\ under' = FALSE

-----------------------------------------------------------------------------
(* The shell's handler. *)

ConsoleInit ==
  /\ isShift = FALSE /\ reader = "init"
  /\ kbhb = Zeroed /\ kbhb_index = 0
  /\ rps_buf = <<>> /\ score = <<0, 0, 0>>
  /\ typed = <<>> /\ erased = FALSE /\ under = FALSE /\ ran = NotRun /\ kstatus = "ok"

KeyIgnored == UNCHANGED <<reader, kbhb, kbhb_index, typed, erased, under, kstatus>> /\ ran' = NotRun
F1 == 59
Outside == kbhb_index \notin DOMAIN kbhb
StoreKey(key) ==
  /\ IF Outside THEN kstatus' = "wild" /\ UNCHANGED kbhb
     ELSE kbhb' = [kbhb EXCEPT ![kbhb_index] = key] /\ UNCHANGED kstatus
  /\ kbhb_index' = kbhb_index + 1 /\ typed' = Append(typed, key) /\ ran' = NotRun
  /\ UNCHANGED <<reader, erased, under>>
Backspace ==
  /\ kbhb_index >= 0      \* bound: once below the buffer
  /\ kbhb_index' = kbhb_index - 1
  /\ typed' = IF typed = <<>> THEN <<>> ELSE Front(typed)
  /\ under' = (under \/ typed = <<>>) /\ erased' = TRUE /\ ran' = NotRun
  /\ UNCHANGED <<reader, kbhb, kstatus>>
Enter ==
  IF Outside THEN kstatus' = "wild" /\ UNCHANGED <<reader, kbhb, kbhb_index, typed, erased, under, ran>>
  ELSE RunLine([kbhb EXCEPT ![kbhb_index] = NUL])

handler(key, sc) ==
  /\ CASE sc = F1 -> KeyIgnored
       [] sc # F1 /\ key = "O300" -> KeyIgnored
       [] sc # F1 /\ key = "BS" -> Backspace
       [] sc # F1 /\ key = "NL" -> Enter
       [] OTHER -> StoreKey(key)
  /\ UNCHANGED <<rps_buf, score>>

-----------------------------------------------------------------------------
(* The game's handler: keys are collected, a backspace among them. Option 3 exits and never comes
   back, so its keys are still there in the next game; the shell resumes inside its handler, after
   its first system call, where it runs the line again, empty now. *)

Digit(c) == CHOOSE n \in 0..9 : Digits[IF n = 0 THEN 11 ELSE n + 1][1] = c
DigitKeys == {Digits[i][1] : i \in 2..11}
Leading(s, keys) == CHOOSE n \in 0..Len(s) : (\A i \in 1..n : s[i] \in keys) /\ (n = Len(s) \/ s[n + 1] \notin keys)
Unsigned(s) == FoldLeft(LAMBDA a, c : 10 * a + Digit(c), 0, SubSeq(s, 1, Leading(s, DigitKeys)))
atoi(s) ==
  LET t == SubSeq(s, Leading(s, {" ", "TAB"}) + 1, Len(s))
  IN  CASE t # <<>> /\ t[1] = "-" -> -Unsigned(Tail(t))
        [] t # <<>> /\ t[1] = "+" -> Unsigned(Tail(t))
        [] OTHER -> Unsigned(t)
Round(option, cpu_option) ==      \* 1 won, 2 lost, 3 tied
  IF option = cpu_option THEN 3 ELSE IF <<option, cpu_option>> \in {<<0, 2>>, <<1, 0>>, <<2, 1>>} THEN 1 ELSE 2

rps_handler(key) ==
  CASE key = "O300" -> KeyIgnored /\ UNCHANGED <<rps_buf, score>>
       [] key \notin {"O300", "NL"} ->
            /\ rps_buf' = Append(rps_buf, key) /\ UNCHANGED <<score, reader, kbhb, kbhb_index, typed, erased, under>>
            /\ ran' = NotRun /\ kstatus' = IF Len(rps_buf) >= RpsSize THEN "wild" ELSE kstatus
       [] key = "NL" /\ Len(rps_buf) >= RpsSize ->
            kstatus' = "wild" /\ UNCHANGED <<rps_buf, score, reader, kbhb, kbhb_index, typed, erased, under, ran>>
       [] OTHER ->
            IF atoi(rps_buf) = 3
            THEN RunLine([kbhb EXCEPT ![kbhb_index] = NUL]) /\ UNCHANGED <<rps_buf, score>>
            ELSE /\ rps_buf' = <<>> /\ UNCHANGED <<kstatus, reader, kbhb, kbhb_index, typed, erased, under>> /\ ran' = NotRun
                 /\ IF atoi(rps_buf) \in 0..2
                    THEN /\ score[1] + score[2] + score[3] < MaxRounds
                         /\ \E cpu_option \in 0..2 : score' = [score EXCEPT ![Round(atoi(rps_buf), cpu_option)] = @ + 1]
                    ELSE UNCHANGED score

-----------------------------------------------------------------------------
process_kbh(sc) ==
  /\ kstatus = "ok" /\ reader # "none"
  /\ isShift' = ShiftAfter(isShift, sc)
  /\ \E key \in KeysOf(sc) :
       IF reader = "init" THEN handler(key, sc) ELSE rps_handler(key)

ConsoleNext == \E sc \in Scancodes : process_kbh(sc)
ConsoleSpec == ConsoleInit /\ [][ConsoleNext]_convars

-----------------------------------------------------------------------------
(* Properties. *)

(* The line that runs is the line on the screen, up to a key that is no character, whatever was
   typed before, taken back, or read by the game in between; and a key is written outside the
   buffer only by cd, when more keys were taken back than typed, or when the line is as long as the
   buffer (handler, rps_handler). *)
BeforeNul(s) == LET n == CHOOSE n \in 0..Len(s) : (n = Len(s) \/ s[n + 1] = NUL) /\ \A i \in 1..n : s[i] # NUL
                IN  SubSeq(s, 1, n)
LineAsTyped ==
  /\ (ran # NotRun /\ ~ran.under) => ran.text = BeforeNul(ran.typed)
  /\ kstatus = "wild" => (ran # NotRun /\ ran.command = "cd") \/ under \/ Len(typed) >= Size \/ Len(rps_buf) >= RpsSize

(* The argument of a command is what the screen shows behind its name; nothing of an older line or
   behind the end of this one is taken for it, unless a key was taken back or is no character. And
   a line that begins with a command's name runs that command, unless ls or cd is in it as well
   (handler). *)
Argument(s, name) == IF Len(s) <= Len(name) + 1 THEN <<>> ELSE SubSeq(s, Len(name) + 2, Len(s))
CommandAsTyped ==
  (ran # NotRun /\ ~ran.erased /\ BeforeNul(ran.typed) = ran.typed) =>
    \A c \in {"echo", "ls", "cd", "cat", "uname"} :
      (/\ IsPrefix(Name[c], ran.text)
       /\ c \in {"echo", "ls"} \/ Occurs(ran.text, Name.ls) = {}
       /\ c \in {"echo", "ls", "cd"} \/ Occurs(ran.text, Name.cd) = {}
       /\ c # "uname" \/ Occurs(ran.text, Name.cat) = {})
      => ran.command = c /\ ran.arg = Argument(ran.text, Name[c])
=============================================================================
