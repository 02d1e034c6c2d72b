------------------------------ MODULE InitFile -----------------------------
(***************************************************************************)
(* The interpreter of init files (program/initfile.c): load_initfile runs  *)
(* "/init", and its load lines run further files with load_init, which     *)
(* loads in turn. One step runs one line, or opens one file.               *)
(*                                                                         *)
(* A file is a sequence of lines, a line one of words; what it calls is    *)
(* recorded. Arguments are popped from the end of the line without a look  *)
(* at how many there are: a pop more than there are words goes through a   *)
(* NULL node. The text of a file is not ended by a NUL, so it runs on into *)
(* what the memory held before, which may be an earlier file's.            *)
(*                                                                         *)
(* The paths of a listed directory are put together with sprintf, and its  *)
(* vsprintf writes where *pos says, a static pointer that nothing sets:    *)
(* the word at address 0, where page 0 is mapped. What that word is at     *)
(* first is open, every sprintf adds to it, and nothing resets it; so at   *)
(* most one path ever stands at the start of its buffer.                   *)
(***************************************************************************)
EXTENDS Text

CONSTANTS
  InitFiles,      \* the contents "/init" may have
  Files,          \* the contents of the other files, and what reading a directory gives
  Dirs,           \* directory -> its listing, "." and ".." and the paths of its files
  Parts,          \* word -> its parts at the "x" or "." in it, for those that have any
  MaxDepth        \* bound on files loaded by files: nothing bounds it in the code

VARIABLES
  stack,      \* the files under way, the innermost first: lines to run, loads to do before them
  calls,      \* history: what was called, with its arguments
  asked, ipReady,    \* an address was asked for; is_ip_allocated
  isFork,            \* an uninitialised local
  init,              \* the text of "/init"
  overrun,           \* history: the text of a file ran on
  displaced, displacedAtFirst,   \* *pos is not 0: now, and when "/init" began
  istatus            \* "run", "off", "done", or "wild" after a pop through NULL or a write behind a buffer

initvars == <<stack, calls, asked, ipReady, isFork, init, overrun, displaced, displacedAtFirst, istatus>>

-----------------------------------------------------------------------------
(* str_split of a file and of a line; a line of "." or ".." alone counts as one. *)

Cut(tokens, Is(_, _)) ==
  FoldLeft(LAMBDA l, t : IF Is(t, ".") THEN l ELSE IF Is(t, "..") THEN Parent(l) ELSE list_push(l, t),
           list_create, tokens)
Words(line) == Cut(line, LAMBDA w, dots : w = dots)
Lines(text) == Cut(text, LAMBDA l, dots : l = <<dots>>).walk
PartsOf(w) == IF w \in DOMAIN Parts THEN Parts[w] ELSE <<w>>

\* what kmalloc gives may hold text behind the file: the last word goes on, a line of an earlier file follows
Endings(text, earlier) ==
  {text} \cup {Append(Front(text), Append(Front(Last(text)), "junk")) \o more :
                 more \in {<<>>} \cup {<<Last(e)>> : e \in earlier}}

-----------------------------------------------------------------------------
(* The commands of each interpreter and the arguments they pop; echo and # pop none. *)

Shared == [video |-> 1, EXT2 |-> 2, mount |-> 3, umount |-> 1, read |-> 1, BMP |-> 1, TGA |-> 1]
Pops == [load_init     |-> Shared @@ [load |-> 2],
         load_initfile |-> Shared @@ [load |-> 1, hostname |-> 1, ip |-> 5, netinterface |-> 1, udpsend |-> 4,
                                      ping |-> 1, init |-> 1, power |-> 1, switch |-> 1, execC |-> 1]]

\* n pops: the last n words, the last one first
TakeReversed(words, n) == [i \in 1..n |-> words[Len(words) - i + 1]]     \* mutant: taken in the order they are used
Take(words, n) == SubSeq(words, Len(words) - n + 1, Len(words))

Plain == [EXT2 |-> "EXT2_init", umount |-> "VFS_unmount", hostname |-> "setHostName", switch |-> "switch_interface",
          BMP |-> "bitmap_display", TGA |-> "targa_display"]
Filesystems == [EXT2 |-> "EXT2_init", SORFS |-> "init_sorfs", DEVFS |-> "devfs_mount", PROCFS |-> "procfs_mount"]
Inits == [shell |-> "init_shell", arp |-> "init_arp", dhcp |-> "init_dhcp", udp |-> "init_udp"]
\* the four bytes of an address that is sent to; those not written are left over from before
Address(w) == [i \in 1..4 |-> IF i <= Len(PartsOf(w)) THEN PartsOf(w)[i] ELSE "unset"]

\* what a command with arguments w, in the order of the line, calls; load is below
Called(kind, cmd, w) ==
  CASE cmd \in DOMAIN Plain -> <<<<Plain[cmd]>> \o w>>
    [] cmd = "mount" ->
         IF w[1] \in {"DEVFS", "PROCFS"} THEN <<<<Filesystems[w[1]], w[3]>>>>
         ELSE IF w[1] \in DOMAIN Filesystems THEN <<<<Filesystems[w[1]], w[2], w[3]>>>>
         ELSE IF kind = "load_initfile" THEN <<<<"mount", w[2], w[3]>>>> ELSE <<>>
    [] cmd = "video" ->
         (IF kind = "load_init" THEN <<<<"init_vesa">>>> ELSE <<>>)
           \o <<<<"vesa_change_mode">> \o Take(PartsOf(w[1]), 3)>>
    [] cmd = "read" -> IF w[1] \in DOMAIN Files THEN <<<<"printf", w[1]>>>> ELSE <<>>
    [] cmd = "ip" -> CASE w[1] = "dhcp" -> <<<<"dhcp_discover">>>>
                       [] w[1] = "static" -> <<<<"setStaticIP">> \o Tail(w)>>
                       [] OTHER -> <<>>
    [] cmd = "netinterface" -> IF w[1] \in {"on", "off"} THEN <<<<"changeNetworkState", w[1]>>>> ELSE <<>>
    [] cmd = "udpsend" -> <<<<"udp_send_packet">> \o Address(w[3]) \o <<w[1], w[2], w[4]>>>>
    [] cmd = "ping" -> <<<<"request_echo_reply">> \o Address(w[1])>>
    [] cmd = "init" -> IF w[1] \in DOMAIN Inits THEN <<<<Inits[w[1]]>>>> ELSE <<>>
    [] cmd = "power" -> <<<<IF w[1] = "off" THEN "apm_shutdown" ELSE "reboot">>>>
    [] cmd = "execC" -> IF isFork = 0 THEN <<<<"int 0x80">>>> ELSE <<>>
    [] OTHER -> <<>>
Wild(cmd, w) ==
  \/ cmd = "video" /\ Len(PartsOf(w[1])) < 3
  \/ cmd = "udpsend" /\ Len(PartsOf(w[3])) > 4
  \/ cmd = "ping" /\ Len(PartsOf(w[1])) > 4

-----------------------------------------------------------------------------
Frame(kind, text, loads) == [kind |-> kind, lines |-> Lines(text), loads |-> loads]
InitStart(text) ==
  /\ init = text
  /\ \E t \in Endings(text, {}) : stack = <<Frame("load_initfile", t, <<>>)>> /\ overrun = (t # text)
  /\ calls = <<>> /\ asked = FALSE /\ ipReady = FALSE /\ isFork \in {0, 1} /\ istatus = "run"
  /\ displaced \in BOOLEAN /\ displacedAtFirst = displaced

Top == stack[1]
Running == istatus = "run" /\ stack # <<>>
Replaced(f) == stack' = <<f>> \o Tail(stack)

\* what is in the cleared buffer after sprintf: the path, or nothing
sprintf(path) == IF displaced THEN "" ELSE path
\* load_init(path): a file that is missing is passed over, and so is ""
load_init ==
  /\ Running /\ Top.loads # <<>> /\ Head(Top.loads).by # "directory"
  /\ LET listed == Head(Top.loads).by = "listing"
         path == IF listed THEN sprintf(Head(Top.loads).path) ELSE Head(Top.loads).path
         caller == [Top EXCEPT !.loads = Tail(@)]
     IN  \/ /\ IF path \notin DOMAIN Files THEN Replaced(caller) /\ UNCHANGED overrun
               ELSE /\ Len(stack) < MaxDepth
                    /\ \E text \in Endings(Files[path], {init}) :
                         /\ stack' = <<Frame("load_init", text, <<>>), caller>> \o Tail(stack)
                         /\ overrun' = (overrun \/ text # Files[path])
            /\ displaced' = (displaced \/ listed)
            /\ UNCHANGED istatus
         \/ /\ listed /\ displaced                \* the path lands on memory in use
            /\ istatus' = "wild" /\ UNCHANGED <<stack, overrun, displaced>>
  /\ UNCHANGED <<calls, asked, ipReady, isFork, init, displacedAtFirst>>

Load(path, by) == [path |-> path, by |-> by]
\* VFS_listdir, NULL for what is no directory: the loop then starts with the word at address 0,
\* and ends with it if that is 0. "." and ".." are not put together.
list_dir ==
  /\ Running /\ Top.loads # <<>> /\ Head(Top.loads).by = "directory"
  /\ LET path == Head(Top.loads).path IN
     IF path \notin DOMAIN Dirs /\ displaced THEN istatus' = "wild" /\ UNCHANGED stack
     ELSE /\ LET entries == IF path \in DOMAIN Dirs THEN SelectSeq(Dirs[path], LAMBDA e : e \notin {".", ".."}) ELSE <<>>
             IN  Replaced([Top EXCEPT !.loads = [i \in DOMAIN entries |-> Load(entries[i], "listing")]])
          /\ UNCHANGED istatus
  /\ UNCHANGED <<calls, asked, ipReady, isFork, init, overrun, displaced, displacedAtFirst>>

\* the path of load_init is the last word, and `strcmp(set, "one")` holds for every other set
Loads(kind, w) ==
  IF kind = "load_initfile" THEN <<Load(w[1], "line")>>
  ELSE CASE w[1] = "one" -> <<>>
         [] w[1] = "all" -> <<Load(w[2], "line"), Load(w[2], "directory")>>
         [] OTHER -> <<Load(w[2], "line")>>

run_line ==
  /\ Running /\ Top.loads = <<>> /\ Top.lines # <<>>
  /\ LET args == Words(Head(Top.lines))
         cmd == IF args.walk = <<>> THEN "NULL" ELSE Head(args.walk)
         known == cmd \in DOMAIN Pops[Top.kind]
         rest_of == [Top EXCEPT !.lines = Tail(@)]
     IN  IF ~known
         THEN Replaced(rest_of) /\ UNCHANGED <<calls, asked, istatus>>
         ELSE IF Len(args.tokens) < Pops[Top.kind][cmd] \/ Wild(cmd, Take(args.tokens, Pops[Top.kind][cmd]))
         THEN istatus' = "wild" /\ UNCHANGED <<stack, calls, asked>>
         ELSE LET w == Take(args.tokens, Pops[Top.kind][cmd]) IN
              /\ cmd \in {"udpsend", "ping"} => ipReady      \* while(isIPReady() == 0)
              /\ calls' = calls \o Called(Top.kind, cmd, w)
              /\ asked' = (asked \/ (cmd = "ip" /\ w[1] \in {"dhcp", "static"}))
              /\ istatus' = IF cmd = "power" THEN "off" ELSE "run"
              /\ Replaced(IF cmd = "load" THEN [rest_of EXCEPT !.loads = Loads(Top.kind, w)] ELSE rest_of)
  /\ UNCHANGED <<ipReady, isFork, init, overrun, displaced, displacedAtFirst>>

return ==
  /\ Running /\ Top.loads = <<>> /\ Top.lines = <<>>
  /\ stack' = Tail(stack) /\ istatus' = IF Len(stack) = 1 THEN "done" ELSE "run"
  /\ UNCHANGED <<calls, asked, ipReady, isFork, init, overrun, displaced, displacedAtFirst>>

\* dhcp.c: the answer to a request
is_ip_allocated ==
  /\ istatus = "run" /\ asked /\ ~ipReady /\ ipReady' = TRUE
  /\ UNCHANGED <<stack, calls, asked, isFork, init, overrun, displaced, displacedAtFirst, istatus>>

InitFileNext == load_init \/ list_dir \/ run_line \/ return \/ is_ip_allocated

-----------------------------------------------------------------------------
(* Properties. *)

\* a line in order has a command of its interpreter and the arguments that takes
InOrder(kind, line) ==
  \/ /\ line[1] \in DOMAIN Pops[kind]
     /\ Len(line) = 1 + Pops[kind][line[1]] /\ {".", ".."} \cap ToSet(line) = {}
     /\ ~Wild(line[1], Tail(line))
     /\ (kind = "load_init" /\ line[1] = "load") => line[2] = "all" /\ line[3] \in DOMAIN Dirs
  \/ line[1] \notin DOMAIN Pops[kind] /\ {".", ".."} \cap ToSet(line) = {}
  \/ line[1] \in {"#", "echo", ""}
\* the files a line asks to load, and those of them whose path is put together by sprintf
Asked(line) ==
  IF line[1] # "load" THEN <<>>
  ELSE IF Len(line) = 2 THEN <<Load(line[2], "line")>>
  ELSE LET files == SelectSeq(Dirs[line[3]], LAMBDA e : e \notin {".", ".."})
       IN  <<Load(line[3], "line")>> \o [i \in DOMAIN files |-> Load(files[i], "listing")]
RECURSIVE Orderly(_, _, _), Follow(_, _, _)
Orderly(kind, text, depth) ==
  /\ depth > 0
  /\ \A i \in DOMAIN text :
       /\ InOrder(kind, text[i])
       /\ \A load \in ToSet(Asked(text[i])) :
            load.path \in DOMAIN Files => Orderly("load_init", Files[load.path], depth - 1)
\* the calls that the lines of a text add to those of r, where only the first listed path of all arrives
Follow(kind, text, r) ==
  FoldLeft(
    LAMBDA s, line :
      FoldLeft(LAMBDA t, load :
                 LET u == [t EXCEPT !.displaced = @ \/ load.by = "listing"]
                 IN  IF load.path \in DOMAIN Files /\ ~(load.by = "listing" /\ t.displaced)
                     THEN Follow("load_init", Files[load.path], u) ELSE u,
               [s EXCEPT !.calls = @ \o Called(kind, line[1], Tail(line))],
               Asked(line)),
    r, text)
Asks(kind, text) == Follow(kind, text, [calls |-> <<>>, displaced |-> displacedAtFirst]).calls

(* If every line of "/init" and of the files it loads has as many words as its command takes, or a
   command its interpreter does not know, the calls are those the lines ask for, arguments in the
   written order, those of loaded files in the place of the load line; all of them at the end, and
   a prefix before; up to the first file that runs on in memory. Of the files that directories list,
   over all "load all" lines, only the first is loaded, and it only if the word at address 0 was 0;
   the paths of the others are written behind their buffers, the one way such files go wild.
   A line goes through NULL only if two words or more are missing, or "." or ".." is among them, or
   an address or a mode has too many or too few parts. What "load one" of a loaded file does is left
   open: the test of it is the wrong way round, and nothing is loaded (load_initfile, load_init,
   vsprintf). *)
InitFilesFollowed ==
  /\ (Orderly("load_initfile", init, MaxDepth) /\ ~overrun) =>
       /\ istatus = "wild" => displaced /\ Top.loads # <<>> /\ Head(Top.loads).by = "listing"
       /\ IsPrefix(calls, Asks("load_initfile", init))
       /\ istatus = "done" => calls = Asks("load_initfile", init)
  /\ (istatus = "wild" /\ Top.loads = <<>>) =>
       LET line == Head(Top.lines) IN
       \/ {".", ".."} \cap ToSet(line) # {}
       \/ Len(line) < Pops[Top.kind][line[1]]
       \/ Wild(line[1], Take(line, Pops[Top.kind][line[1]]))
=============================================================================
