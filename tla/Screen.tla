------------------------------- MODULE Screen ------------------------------
(***************************************************************************)
(* The text screen (drivers/video/vga.c). Everything the kernel prints     *)
(* goes through putchar, from task context and from interrupt handlers,    *)
(* over one cursor and without a lock: a handler prints its characters     *)
(* whole, between any two steps of the one it cut in on.                   *)
(***************************************************************************)
EXTENDS Integers, Sequences, FiniteSets

CONSTANTS
  Width, Height, Tab,    \* 80, 25, 8
  Printable,             \* characters from ' ' on; "BS", "TAB", "CR", "NL" move, "other" does nothing
  MaxPrinted             \* bound

ASSUME ScreenAssumption ==
  /\ Width \in Nat \ {0} /\ Height \in Nat \ {0} /\ Tab \in Nat \ {0} /\ MaxPrinted \in Nat
  /\ Tab <= Width      \* a tab goes at most one row down

VARIABLES
  vidmem,             \* row, column -> character; one row below the screen is still video memory
  cursorx, cursory,
  step, row,          \* the putchar or clear in task context: its next step, the row scroll copies next
  printed,            \* history: the characters in the order of their putchar
  cut, lowest         \* history: a handler cut in; the lowest row written

screenvars == <<vidmem, cursorx, cursory, step, row, printed, cut, lowest>>

Blank == " "
Characters == Printable \cup {"BS", "TAB", "CR", "NL", "other"}
EmptyScreen == [p \in (0..Height) \X (0..Width - 1) |-> Blank]
ScreenInit ==
  /\ vidmem = EmptyScreen /\ cursorx = 0 /\ cursory = 0 /\ step = "idle" /\ row = 0
  /\ printed = <<>> /\ cut = FALSE /\ lowest = 0

-----------------------------------------------------------------------------
(* The steps of putchar, each on the cursor as it then is. *)

\* the cursor for a character that is not printed
Moved(c, x, y) ==
  CASE c = "BS"  -> <<IF x > 0 THEN x - 1 ELSE 0, y>>
    [] c = "TAB" -> <<((x + Tab) \div Tab) * Tab, y>>
    [] c = "CR"  -> <<0, y>>
    [] c = "NL"  -> <<0, y + 1>>
    [] OTHER     -> <<x, y>>
Wrapped(x, y) == IF x >= Width THEN <<0, y + 1>> ELSE <<x, y>>
\* the cell of column x, which the next row follows
Cell(x, y) == <<y + (x \div Width), x % Width>>
Deeper(r) == IF r > lowest THEN r ELSE lowest
Put(mem, c, x, y) == [mem EXCEPT ![Cell(x, y)] = c]

ScrollsLate(y) == y > Height     \* mutant
Scrolls(y) == y >= Height
RowUp(mem, r) == [p \in DOMAIN mem |-> IF p[1] = r THEN mem[r + 1, p[2]] ELSE mem[p]]
LastBlank(mem) == [p \in DOMAIN mem |-> IF p[1] = Height - 1 THEN Blank ELSE mem[p]]
Scrolled(mem) ==
  [p \in DOMAIN mem |-> IF p[1] < Height - 1 THEN mem[p[1] + 1, p[2]] ELSE IF p[1] = Height - 1 THEN Blank ELSE mem[p]]

putchar(c) ==
  /\ step = "idle" /\ Len(printed) < MaxPrinted
  /\ printed' = Append(printed, c)
  /\ IF c \in Printable
     THEN /\ vidmem' = Put(vidmem, c, cursorx, cursory) /\ lowest' = Deeper(Cell(cursorx, cursory)[1])
          /\ step' = "advance" /\ UNCHANGED <<cursorx, cursory>>
     ELSE /\ cursorx' = Moved(c, cursorx, cursory)[1] /\ cursory' = Moved(c, cursorx, cursory)[2]
          /\ step' = "wrap" /\ UNCHANGED <<vidmem, lowest>>
  /\ UNCHANGED <<row, cut>>
advance ==
  /\ step = "advance" /\ step' = "wrap" /\ cursorx' = cursorx + 1
  /\ UNCHANGED <<vidmem, cursory, row, printed, cut, lowest>>
wrap ==
  /\ step = "wrap" /\ step' = "test"
  /\ cursorx' = Wrapped(cursorx, cursory)[1] /\ cursory' = Wrapped(cursorx, cursory)[2]
  /\ UNCHANGED <<vidmem, row, printed, cut, lowest>>
scroll_test ==
  /\ step = "test" /\ row' = 0 /\ step' = IF Scrolls(cursory) THEN "copy" ELSE "idle"
  /\ UNCHANGED <<vidmem, cursorx, cursory, printed, cut, lowest>>
scroll_copy ==
  /\ step = "copy" /\ row < Height - 1
  /\ vidmem' = RowUp(vidmem, row) /\ row' = row + 1
  /\ UNCHANGED <<cursorx, cursory, step, printed, cut, lowest>>
scroll_end ==
  /\ step = "copy" /\ row = Height - 1
  /\ vidmem' = LastBlank(vidmem) /\ cursory' = Height - 1 /\ step' = "idle"
  /\ UNCHANGED <<cursorx, row, printed, cut, lowest>>

clear ==
  /\ step = "idle" /\ printed # <<>>
  /\ vidmem' = [p \in DOMAIN vidmem |-> IF p[1] < Height THEN Blank ELSE vidmem[p]]
  /\ step' = "home" /\ printed' = <<>> /\ cut' = FALSE /\ lowest' = 0
  /\ UNCHANGED <<cursorx, cursory, row>>
clear_home ==
  /\ step = "home" /\ cursory' = 0 /\ cursorx' = 0 /\ step' = "idle"
  /\ UNCHANGED <<vidmem, row, printed, cut, lowest>>

\* a handler prints one character, between two steps of a task
Interrupt(c) ==
  /\ Len(printed) < MaxPrinted /\ step # "idle"
  /\ printed' = Append(printed, c) /\ cut' = TRUE
  /\ LET mem == IF c \in Printable THEN Put(vidmem, c, cursorx, cursory) ELSE vidmem
         to == IF c \in Printable THEN <<cursorx + 1, cursory>> ELSE Moved(c, cursorx, cursory)
         now == Wrapped(to[1], to[2])
     IN  /\ lowest' = IF c \in Printable THEN Deeper(Cell(cursorx, cursory)[1]) ELSE lowest
         /\ vidmem' = IF Scrolls(now[2]) THEN Scrolled(mem) ELSE mem
         /\ cursorx' = now[1] /\ cursory' = IF Scrolls(now[2]) THEN Height - 1 ELSE now[2]
  /\ UNCHANGED <<step, row>>

ScreenNext ==
  \/ \E c \in Characters : putchar(c) \/ Interrupt(c)
  \/ advance \/ wrap \/ scroll_test \/ scroll_copy \/ scroll_end \/ clear \/ clear_home
ScreenSpec == ScreenInit /\ [][ScreenNext]_screenvars

-----------------------------------------------------------------------------
(* Properties. *)

\* paper that does not end: the same characters, and no scrolling
paper[n \in 0..MaxPrinted] ==
  IF n = 0 THEN [x |-> 0, y |-> 0]
  ELSE LET p == paper[n - 1]
           to == IF printed[n] \in Printable THEN <<p.x + 1, p.y>> ELSE Moved(printed[n], p.x, p.y)
           now == Wrapped(to[1], to[2])
       IN  [x |-> now[1], y |-> now[2]]
OnPaper(y, x) ==
  LET writes == {n \in 1..Len(printed) : printed[n] \in Printable /\ paper[n - 1] = [x |-> x, y |-> y]}
  IN  IF writes = {} THEN Blank ELSE printed[CHOOSE n \in writes : \A m \in writes : m <= n]
(* Between two characters the screen is the last rows of the paper that was printed on since the
   last clear, and the cursor is where the next character goes, unless a handler printed in the
   middle of one, or of the clear. Nothing is written more than one row below the screen, and
   there only then (putchar, scroll). *)
ScreenShows ==
  /\ (~cut /\ step = "idle") =>
       LET end == paper[Len(printed)]
           top == IF end.y >= Height THEN end.y - (Height - 1) ELSE 0
       IN  /\ cursorx = end.x /\ cursory = end.y - top
           /\ \A r \in 0..Height - 1, c \in 0..Width - 1 : vidmem[r, c] = OnPaper(r + top, c)
  /\ lowest <= IF cut THEN Height ELSE Height - 1
=============================================================================
