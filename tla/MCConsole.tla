----------------------------- MODULE MCConsole -----------------------------
(***************************************************************************)
(* An instance of the console (Console), the program shell (Shell), the    *)
(* init files (InitFile), the text algorithms they use (Text) and the      *)
(* screen they print on (Screen); a behaviour steps one of them.           *)
(*                                                                         *)
(* Commands have names of one key, so a line of three keys holds a name, a *)
(* separator (any key) and an argument. The keyboard has p, l, d, 3, a     *)
(* function key, backspace, enter, the right shift and caps lock; echo,    *)
(* cat, uname and exit are the capitals. The program shell has d, m, w,    *)
(* space, backspace, enter and the right shift, and a buffer of 5 keys.    *)
(* The buffer of numbers has 8 characters, more than any width here.       *)
(***************************************************************************)
EXTENDS Shell, InitFile, Screen

VARIABLE part      \* the part that a behaviour steps

MCName == [exit |-> <<"#">>, echo |-> <<"L">>, rps |-> <<"p">>, other |-> <<"3">>,
           ls |-> <<"l">>, cd |-> <<"d">>, cat |-> <<"D">>, uname |-> <<"P">>]
MCShellName == [exit |-> <<"3">>, other |-> <<"4">>, echo |-> <<"e">>, ls |-> <<"l">>, cd |-> <<"d">>,
                mount |-> <<"m">>, cat |-> <<"c">>, write |-> <<"w">>]
MCConversions == {c \in [pad : {0, 2, 4}, letter : {"d", "x", "u"}, value : {0, 5, 12, 255, -3}] :
                    c.value < 0 => c.letter = "d"}

MCLines ==
  {<<"video", "640x480x32">>, <<"EXT2", "/dev/hda", "/mnt">>, <<"mount", "DEVFS", "x", "/dev">>, <<"mount", "EXT2", "/dev/hda", "/mnt">>,
   <<"mount", "/dev/hda", "/mnt">>, <<"EXT2">>, <<"read", "f">>, <<"load", "f">>, <<"load", "none">>, <<"ip", "dhcp", "0", "0", "0", "0">>,
   <<"ip", "static", "10", "0", "2", "15">>, <<"ip", "dhcp">>, <<"netinterface", "on">>, <<"udpsend", "7", "9", "10.0.2.2", "hi">>,
   <<"ping", "10.2">>, <<"ping", "10.0.2.2.5">>, <<"init", "shell">>, <<"power", "off">>, <<"switch", "0", "1">>, <<"execC", "p">>,
   <<"echo", "..", "x">>, <<"..">>, <<"#", "load">>}
MCInitFiles ==
  {<<a, b>> : a, b \in MCLines}
  \cup {<<a, <<"load", p>>, b, <<"">>>> :
          a \in {<<"#">>, <<"..">>, <<"power", "off">>}, b \in MCLines, p \in {"g", "h", "k", "o"}}
MCFiles ==
  [f |-> <<<<"EXT2", "/dev/hda", "/mnt">>, <<"read", "f">>, <<"">>>>,
   g |-> <<<<"load", "all", "dir">>, <<"BMP", "w">>, <<"video", "640x480">>>>,
   h |-> <<<<"load", "one", "f">>, <<"load", "f">>, <<"mount", "SORFS", "a", "b">>, <<"load", "h", "h">>>>,
   k |-> <<<<"load", "all", "dir">>, <<"umount", "/mnt">>, <<"load", "all", "f">>>>,
   o |-> <<<<"load", "all", "dir">>, <<"umount", "/mnt">>, <<"load", "all", "dir">>>>,
   e |-> <<<<"umount", "/dev">>, <<"load", "all", "sub">>>>,
   dir |-> <<<<"junk">>>>]
MCDirs == [dir |-> <<".", "..", "e", "f", "none">>, sub |-> <<".", "..", "f">>]
MCParts == [w \in {"640x480x32", "640x480", "10.0.2.2", "10.2", "10.0.2.2.5"} |->
              CASE w = "640x480x32" -> <<"640", "480", "32">> [] w = "640x480" -> <<"640", "480">>
                [] w = "10.0.2.2" -> <<"10", "0", "2", "2">> [] w = "10.2" -> <<"10", "2">> [] OTHER -> <<"10", "0", "2", "2", "5">>]
MCInitFile == <<<<"#">>>>

\* one start of the other parts is enough
MCInit ==
  /\ part \in {"console", "shell", "split", "print", "initfile", "screen"}
  /\ ConsoleInit /\ init_shell /\ ScreenInit
  /\ IF part = "initfile" THEN \E text \in InitFiles : InitStart(text)
     ELSE InitStart(MCInitFile) /\ isFork = 0 /\ ~overrun /\ ~displaced
  /\ \/ part \in {"console", "shell", "initfile", "screen"} /\ SplitStart(<<>>) /\ PrintStart(<<>>)
     \/ part = "split" /\ (\E s \in BoundedSeq(Chars, MaxLen) : SplitStart(s)) /\ PrintStart(<<>>)
     \/ part = "print" /\ SplitStart(<<>>) /\ \E c \in BoundedSeq(Conversions, MaxConversions) : PrintStart(c)
ConsoleStep == part = "console" /\ ConsoleNext /\ UNCHANGED <<part, shellvars, initvars, screenvars, textvars>>
ShellStep   == part = "shell" /\ ShellNext /\ UNCHANGED <<part, convars, initvars, screenvars, textvars>>
SplitStep   == part = "split" /\ str_split /\ UNCHANGED <<part, convars, shellvars, initvars, screenvars, printvars>>
PrintStep   == part = "print" /\ vsprintf /\ UNCHANGED <<part, convars, shellvars, initvars, screenvars, splitvars>>
InitFileStep == part = "initfile" /\ InitFileNext /\ UNCHANGED <<part, convars, shellvars, screenvars, textvars>>
ScreenStep  == part = "screen" /\ ScreenNext /\ UNCHANGED <<part, convars, shellvars, initvars, textvars>>
MCSpec ==
  MCInit /\ [][ConsoleStep \/ ShellStep \/ SplitStep \/ PrintStep \/ InitFileStep \/ ScreenStep]_<<part, convars, shellvars, initvars,
                                                                                    screenvars, textvars>>
=============================================================================
