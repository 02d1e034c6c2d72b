------------------------------- MODULE Shell -------------------------------
(***************************************************************************)
(* The shell of program/shell.c. It reads the keyboard from init_shell on, *)
(* until init_processManager hands the keyboard to process_kbh; an init    *)
(* file can bring it back ("init shell"). It has the key table and the     *)
(* shift flag of process_kbh, its own line and its own commands.           *)
(*                                                                         *)
(* A key that is no character, shift included, puts a NUL into the line; a *)
(* backspace is written into it before the index, one byte wide, goes back.*)
(***************************************************************************)
EXTENDS Console

CONSTANTS
  Keys,          \* scancodes that the user produces here
  BufferSize,    \* SHELL_BUFFER_SIZE, and the values of the index: 256
  ShellName      \* the name of each command, as keys

VARIABLES
  shell_buffer, shell_buffer_index, isShifted, curr_dir,
  styped, serased, around,        \* history: the line on the screen; a key was taken back; the index went
                                  \* round an end of the buffer
  sran,                           \* history: the line that was just run, or NotRun
  sstatus                         \* "run", "off" after exit, "wild" after a read behind the buffer

shellvars == <<shell_buffer, shell_buffer_index, isShifted, curr_dir, styped, serased, around, sran, sstatus>>

Cleared == [i \in 0..BufferSize - 1 |-> NUL]
init_shell ==
  /\ shell_buffer = Cleared /\ shell_buffer_index = 0 /\ isShifted = FALSE /\ curr_dir = "/"
  /\ styped = <<>> /\ serased = FALSE /\ around = FALSE /\ sran = NotRun /\ sstatus = "run"

KCTC(sc) == IF sc \in DOMAIN KeyTable THEN KeyTable[sc][IF isShifted THEN 2 ELSE 1] ELSE NUL

-----------------------------------------------------------------------------
(* shell_interpreter. Names are looked for anywhere in the line (echo, ls, cd, cat) or at its
   start; the argument is taken from the buffer one key behind the name. *)

ASSUME ShellAssumption ==
  /\ BufferSize \in Nat \ {0}
  /\ ShellName \in [{"exit", "other", "echo", "ls", "cd", "mount", "cat", "write"} -> Seq(Key)]
  /\ \A c \in {"cat", "write"} : Apart(ShellName.mount, ShellName[c])
  /\ \A c \in {"echo", "ls", "cd", "mount", "cat", "write"}, d \in {"exit", "other"} : ~IsPrefix(ShellName[c], ShellName[d])

Behind(s, name) == strstr(s, name) + Len(name) + 1
Interpret(s) ==
  IF s = ShellName.exit THEN [command |-> "exit", arg |-> BufferSize]
  ELSE IF s = ShellName.other THEN [command |-> "other", arg |-> BufferSize]
  ELSE IF Occurs(s, ShellName.echo) # {} THEN [command |-> "echo", arg |-> Len(ShellName.echo) + 1]
  ELSE IF Occurs(s, ShellName.ls) # {} THEN [command |-> "ls", arg |-> Behind(s, ShellName.ls)]
  ELSE IF Occurs(s, ShellName.cd) # {} THEN [command |-> "cd", arg |-> Behind(s, ShellName.cd)]
  ELSE IF IsPrefix(ShellName.mount, s) THEN [command |-> "mount", arg |-> Len(ShellName.mount) + 1]
  ELSE IF Occurs(s, ShellName.cat) # {} THEN [command |-> "cat", arg |-> Behind(s, ShellName.cat)]
  ELSE IF IsPrefix(ShellName.write, s) THEN [command |-> "write", arg |-> Len(ShellName.write) + 1]
  ELSE [command |-> "unknown", arg |-> 0]

\* echo prints up to the index; the others up to a NUL
Raw(b, from, to) == [i \in 1..(IF to > from THEN to - from ELSE 0) |-> b[from + i - 1]]

\* write: the name up to a space, which is looked for without end, and the rest up to the index
Space == " "
Spaces(b, from) == {i \in from..BufferSize - 1 : b[i] = Space}
WriteArgs(b, from, index) ==
  LET i == CHOOSE i \in Spaces(b, from) : \A k \in Spaces(b, from) : i <= k
  IN  <<Raw(b, from, i), Raw(b, i + 1, index)>>

ClearedNever(b) == b     \* mutant: the buffer is not cleared after a command
ClearedAfter(b) == Cleared
shell_interpreter(b) ==
  LET s == Text(b, 0)
      d == Interpret(s)
      lost == d.command = "write" /\ Spaces(b, d.arg) = {}
      arg == CASE lost -> <<>>
               [] d.command = "echo" -> Raw(b, d.arg, shell_buffer_index)
               [] d.command = "write" /\ ~lost -> WriteArgs(b, d.arg, shell_buffer_index)
               [] OTHER -> Text(b, d.arg)
  IN  /\ sran' = [command |-> d.command, text |-> s, arg |-> arg, typed |-> styped, erased |-> serased, around |-> around]
      /\ curr_dir' = IF d.command # "cd" THEN curr_dir ELSE IF arg = <<>> THEN "/" ELSE "given"
      /\ sstatus' = IF lost THEN "wild" ELSE IF d.command = "exit" THEN "off" ELSE "run"
      /\ shell_buffer' = ClearedAfter(b) /\ shell_buffer_index' = 0
      /\ styped' = <<>> /\ serased' = FALSE /\ around' = FALSE

-----------------------------------------------------------------------------
(* shell_run, for one scancode. *)

NumLock == 69
TypeKey(c) ==
  /\ shell_buffer' = [shell_buffer EXCEPT ![shell_buffer_index] = c]
  /\ IF c = "BS"
     THEN /\ shell_buffer_index' = (shell_buffer_index - 1 + BufferSize) % BufferSize
          /\ styped' = (IF styped = <<>> THEN <<>> ELSE Front(styped))
          /\ serased' = TRUE /\ around' = (around \/ shell_buffer_index = 0)
     ELSE /\ shell_buffer_index' = (shell_buffer_index + 1) % BufferSize
          /\ Len(styped) < BufferSize     \* bound: just round the end of the buffer
          /\ styped' = Append(styped, c) /\ around' = (around \/ shell_buffer_index = BufferSize - 1)
          /\ UNCHANGED serased
  /\ sran' = NotRun /\ UNCHANGED <<curr_dir, sstatus>>

shell_run(sc) ==
  /\ sstatus = "run"
  /\ isShifted' = ShiftAfter(isShifted, sc)
  /\ IF sc >= 80 \/ sc = NumLock
     THEN sran' = NotRun /\ UNCHANGED <<shell_buffer, shell_buffer_index, curr_dir, styped, serased, around, sstatus>>
     ELSE IF KCTC(sc) = "NL" THEN shell_interpreter([shell_buffer EXCEPT ![shell_buffer_index] = NUL])
     ELSE TypeKey(KCTC(sc))

ShellNext == \E sc \in Keys : shell_run(sc)
ShellSpec == init_shell /\ [][ShellNext]_shellvars

-----------------------------------------------------------------------------
(* Properties. *)

(* A line runs as it is on the screen, up to a key that is no character, unless it was longer than
   the buffer or more keys were taken back than typed. If none was taken back and all are characters, the
   command is the one the line begins with, or one whose name is somewhere in it and is looked for
   earlier, and its argument is what the screen shows behind the name (shell_run,
   shell_interpreter). *)
ArgumentOf(c, s) ==
  LET a == Argument(s, ShellName[c])
      n == CHOOSE n \in 1..Len(a) + 1 : (n <= Len(a) => a[n] = Space) /\ \A k \in 1..n - 1 : a[k] # Space
  IN  IF c = "write" THEN <<SubSeq(a, 1, n - 1), SubSeq(a, n + 1, Len(a))>> ELSE a
Sooner == [ls |-> {"echo"}, cd |-> {"echo", "ls"}, mount |-> {"echo", "ls", "cd"}, echo |-> {},
           cat |-> {"echo", "ls", "cd"}, write |-> {"echo", "ls", "cd", "cat"}]
ShellAsTyped ==
  (sran # NotRun /\ ~sran.around) =>
    /\ sran.text = BeforeNul(sran.typed)
    /\ (~sran.erased /\ sran.text = sran.typed) =>
         \A c \in DOMAIN Sooner :
           (IsPrefix(ShellName[c], sran.text) /\ \A e \in Sooner[c] : Occurs(sran.text, ShellName[e]) = {})
             => /\ sran.command = c
                /\ sstatus = "run" => sran.arg = ArgumentOf(c, sran.text)

(* What both shells promise: the line that runs, its command and its argument are those on the
   screen (LineAsTyped, CommandAsTyped of Console; ShellAsTyped). *)
CommandsAsTyped == LineAsTyped /\ CommandAsTyped /\ ShellAsTyped
=============================================================================
