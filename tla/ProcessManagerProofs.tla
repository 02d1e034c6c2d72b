------------------------ MODULE ProcessManagerProofs ------------------------
(***************************************************************************)
(* Safety of the process manager for every number of pids, every width of  *)
(* pid_t, every set of shell commands and every reading of isCHPMode; and  *)
(* the two consoles behind its keyboard handler, which run the lines that  *)
(* are on the screen, for every size of their buffers.                     *)
(***************************************************************************)
EXTENDS ProcessManager, Shell, WellFoundedInduction, TLAPS

(***************************************************************************)
(* The loop of change_process ends at a live process, and when the init    *)
(* process is alive it ends at the youngest one not younger than the pid.  *)
(***************************************************************************)
LEMMA SearchFinds ==
  ASSUME NEW live \in SUBSET Pid, NEW pid \in Pid, live # {}
  PROVE  /\ Search(pid, live) \in live
         /\ 0 \in live => /\ Search(pid, live) <= pid
                          /\ \A q \in live : q <= pid => q <= Search(pid, live)
PROOF
<1> DEFINE Hit == {k \in 0 .. PidSpace - 1 : Tried(pid, k) \in live}
           First(k) == /\ Tried(pid, k) \in live
                       /\ \A j \in 0 .. k - 1 : Tried(pid, j) \notin live
           n == CHOOSE k \in 0 .. PidSpace - 1 : First(k)
<1>1. /\ \A q \in live : q \in Nat /\ q <= MaxPid
      /\ pid \in Nat /\ pid <= MaxPid
      /\ PidSpace \in Nat /\ MaxPid \in Nat /\ MaxPid < PidSpace
  BY BoundAssumption DEF Pid
<1>2. ASSUME NEW q \in live
      PROVE  /\ q <= pid => pid - q \in Hit
             /\ q > pid => PidSpace + pid - q \in Hit
  BY <1>1, <1>2 DEF Tried
<1>3. Hit # {}
  <2>1. PICK q \in live : TRUE
    OBVIOUS
  <2>2. q \in Int /\ pid \in Int
    BY <1>1
  <2> QED
    BY <1>2, <2>1, <2>2
<1>4. PICK k \in Hit : \A j \in Hit : ~(<<j, k>> \in OpToRel(<, Nat))
  <2> Hit \subseteq Nat
    OBVIOUS
  <2> HIDE DEF Hit
  <2> QED
    BY <1>3, NatLessThanWellFounded, WFMin
<1>5. k \in 0 .. PidSpace - 1 /\ First(k)
  <2>1. k \in 0 .. PidSpace - 1 /\ Tried(pid, k) \in live
    BY <1>4
  <2>2. \A j \in 0 .. k - 1 : j \in 0 .. PidSpace - 1 /\ j \in Nat /\ k \in Nat /\ j < k
    BY <1>1, <2>1
  <2>3. \A j \in 0 .. k - 1 : j \notin Hit
    <3> HIDE DEF Hit
    <3> QED
      BY <1>4, <2>2 DEF OpToRel
  <2> QED
    BY <2>1, <2>2, <2>3
<1>6. n \in 0 .. PidSpace - 1 /\ First(n)
  <2> HIDE DEF First
  <2> QED
    BY <1>5
<1>7. Search(pid, live) = Tried(pid, n)
  BY DEF Search
<1>8. ASSUME 0 \in live
      PROVE  /\ Tried(pid, n) <= pid
             /\ \A q \in live : q <= pid => q <= Tried(pid, n)
  <2>1. \A q \in live : q <= pid => n <= pid - q
    <3> SUFFICES ASSUME NEW q \in live, q <= pid, ~(n <= pid - q)
                 PROVE  FALSE
      OBVIOUS
    <3>1. Tried(pid, pid - q) \in live
      BY <1>2
    <3>2. pid - q \in 0 .. n - 1
      BY <1>1, <1>6
    <3> QED
      BY <1>6, <3>1, <3>2
  <2>2. n \in Nat /\ n <= pid
    BY <1>1, <1>6, <1>8, <2>1
  <2> HIDE DEF n
  <2> QED
    BY <1>1, <2>1, <2>2 DEF Tried
<1> QED
  BY <1>6, <1>7, <1>8

-----------------------------------------------------------------------------
(***************************************************************************)
(* The inductive invariant.  BootClean says that nothing exists before the *)
(* first process, OnlyKeyboard that the timer's service never outlives its *)
(* own handler, which is why one non-specific EOI empties the PIC.         *)
(***************************************************************************)
BootClean ==
  Alive /\ mode = "boot" =>
    process_list = {} /\ current_process = NULL /\ last_process = NULL
      /\ curr_pid = 0 /\ in_service = {}

OnlyKeyboard == in_service \subseteq {"keyboard"}

IInv == TypeOK /\ CurrentLive /\ PicFree /\ BootClean /\ OnlyKeyboard

(***************************************************************************)
(* What change_process leaves behind, whoever calls it: either it panics   *)
(* or a live process is current, last and about to run in a legal mode.    *)
(***************************************************************************)
LEMMA ChangeProcessEffect ==
  ASSUME NEW pid \in Pid, NEW live \in SUBSET Pid, live # {} \/ pid = 0,
         NEW rs \in [Pid -> Context], NEW last \in Pid \cup {NULL},
         NEW saved \in Context, OnlyKeyboard,
         ChangeProcess(pid, live, rs, last, saved)
  PROVE  \/ /\ status' = "panic" /\ pid = 0 /\ 0 \notin live
            /\ regs' = rs /\ last_process' = last
            /\ UNCHANGED <<current_process, mode, in_service>>
         \/ /\ status' \in {"run", "mixed"}
            /\ current_process' = Search(pid, live)
            /\ current_process' \in live /\ last_process' = current_process'
            /\ in_service' = {}
            /\ mode' \in {"task", "handler", "handler3"}
            /\ regs' = IF last = NULL THEN rs ELSE [rs EXCEPT ![last] = saved]
            /\ regs' \in [Pid -> Context]
            /\ status' = "run" => regs'[current_process'].owner = current_process'
PROOF
<1>1. CASE pid = 0 /\ 0 \notin live
  BY <1>1 DEF ChangeProcess
<1>2. CASE pid # 0 \/ 0 \in live
  <2>1. live # {}
    BY <1>2
  <2>2. Search(pid, live) \in live
    BY <2>1, SearchFinds
  <2>3. ContextSwitch(Search(pid, live), rs, last, saved)
    BY <1>2 DEF ChangeProcess
  <2>4. EOI(in_service) = {}
    BY DEF OnlyKeyboard, EOI
  <2>5. (IF last = NULL THEN rs ELSE [rs EXCEPT ![last] = saved]) \in [Pid -> Context]
    OBVIOUS
  <2>6. \A program, ctx : Resumed(program, ctx) \in {"task", "handler", "handler3"}
    BY DEF Resumed
  <2> QED
    BY <2>2, <2>3, <2>4, <2>5, <2>6 DEF ContextSwitch
<1> QED
  BY <1>1, <1>2

\* A snapshot of the running process is a context.
LEMMA FrameType == TypeOK => Frame \in Context
  BY DEF TypeOK, Frame, Context

\* create_process_from_routine in terms of what it leaves.
LEMMA CreateProcessEffect ==
  ASSUME IInv, Alive, NEW program \in Program, NEW saved \in Context,
         CreateProcess(program, saved)
  PROVE  /\ curr_pid \in Pid /\ curr_pid' = curr_pid + 1
         /\ process_list' = process_list \cup {curr_pid}
         /\ prog' = [prog EXCEPT ![curr_pid] = program]
         /\ prog' \in [Pid -> Program]
         /\ kbhandler' \in [Pid -> BOOLEAN]
         /\ curr_pid' \in 0 .. MaxPid + 1
         /\ current_process' \in process_list' /\ last_process' = current_process'
         /\ 0 \in process_list'
         /\ \A p \in process_list' : p < curr_pid'
         /\ in_service' = {}
         /\ mode' \in {"task", "handler", "handler3"}
         /\ status' \in {"run", "mixed"}
         /\ regs' \in [Pid -> Context]
         /\ LET rs == [regs EXCEPT ![curr_pid] = [owner |-> curr_pid, at |-> "task"]]
            IN  regs' = IF last_process = NULL THEN rs
                        ELSE [rs EXCEPT ![last_process] = saved]
PROOF
<1> DEFINE fresh == [owner |-> curr_pid, at |-> "task"]
           rs == [regs EXCEPT ![curr_pid] = fresh]
           live == process_list \cup {curr_pid}
<1>1. curr_pid \in Pid /\ MaxPid \in Nat
  BY BoundAssumption DEF IInv, TypeOK, CreateProcess, CreateWithPid, Pid
<1>2. rs \in [Pid -> Context] /\ live \in SUBSET Pid /\ last_process \in Pid \cup {NULL}
  <2>1. fresh \in Context
    BY <1>1 DEF Context
  <2> HIDE DEF fresh
  <2> QED
    BY <1>1, <2>1 DEF IInv, TypeOK
<1>3. 0 \in live
  BY DEF IInv, CurrentLive, BootClean
<1>4. ChangeProcess(curr_pid, live, rs, last_process, saved)
  BY DEF CreateProcess, CreateWithPid
<1>5. /\ status' \in {"run", "mixed"} /\ in_service' = {}
      /\ current_process' \in live /\ last_process' = current_process'
      /\ mode' \in {"task", "handler", "handler3"}
      /\ regs' = IF last_process = NULL THEN rs ELSE [rs EXCEPT ![last_process] = saved]
      /\ regs' \in [Pid -> Context]
  <2> HIDE DEF rs, live
  <2> QED
    BY <1>1, <1>2, <1>3, <1>4, ChangeProcessEffect DEF IInv
<1>6. \A p \in live : p < curr_pid + 1
  BY <1>1 DEF IInv, CurrentLive, BootClean, TypeOK, Pid
<1>7. /\ prog' = [prog EXCEPT ![curr_pid] = program] /\ prog' \in [Pid -> Program]
      /\ kbhandler' \in [Pid -> BOOLEAN]
      /\ curr_pid' = curr_pid + 1 /\ process_list' = live
      /\ curr_pid' \in 0 .. MaxPid + 1
  BY <1>1 DEF CreateProcess, CreateWithPid, IInv, TypeOK, Pid
<1> QED
  BY <1>1, <1>3, <1>5, <1>6, <1>7

-----------------------------------------------------------------------------
\* The kernel boots into the inductive invariant.
LEMMA InitIInv == Init => IInv
  BY BoundAssumption
  DEF Init, IInv, TypeOK, CurrentLive, PicFree, BootClean, OnlyKeyboard, Alive,
      Pid, NULL, Program, Context, Line, NoLine

\* A switch asked for by a system call, a shell command or a key.
LEMMA SwitchIInv ==
  ASSUME IInv, Alive, mode # "boot",
         NEW pid \in Pid, NEW saved \in Context,
         ChangeProcess(pid, process_list, regs, last_process, saved),
         UNCHANGED pcbs, saved_context' \in Context, kbhb_command' \in Line
  PROVE  IInv'
PROOF
<1>1. /\ process_list \in SUBSET Pid /\ 0 \in process_list /\ process_list # {}
      /\ regs \in [Pid -> Context] /\ last_process \in Pid \cup {NULL} /\ OnlyKeyboard
  BY DEF IInv, TypeOK, CurrentLive
<1>2. /\ status' \in {"run", "mixed"}
      /\ current_process' \in process_list /\ last_process' = current_process'
      /\ in_service' = {} /\ mode' \in {"task", "handler", "handler3"}
      /\ regs' \in [Pid -> Context]
  BY <1>1, ChangeProcessEffect
<1> QED
  BY <1>1, <1>2
  DEF IInv, TypeOK, CurrentLive, PicFree, BootClean, OnlyKeyboard, Alive, pcbs

\* Creating a process keeps it, wherever it is created from.
LEMMA CreateIInv ==
  ASSUME IInv, Alive, NEW program \in Program, NEW saved \in Context,
         CreateProcess(program, saved), saved_context' \in Context, kbhb_command' \in Line
  PROVE  IInv'
PROOF
<1> DEFINE rs == [regs EXCEPT ![curr_pid] = [owner |-> curr_pid, at |-> "task"]]
<1>1. /\ curr_pid \in Pid /\ process_list' = process_list \cup {curr_pid}
      /\ prog' \in [Pid -> Program] /\ kbhandler' \in [Pid -> BOOLEAN]
      /\ curr_pid' \in 0 .. MaxPid + 1
      /\ current_process' \in process_list' /\ last_process' = current_process'
      /\ 0 \in process_list' /\ \A p \in process_list' : p < curr_pid'
      /\ in_service' = {} /\ mode' \in {"task", "handler", "handler3"}
      /\ status' \in {"run", "mixed"} /\ regs' \in [Pid -> Context]
  BY CreateProcessEffect
<1> QED
  BY <1>1 DEF IInv, TypeOK, CurrentLive, PicFree, BootClean, OnlyKeyboard, Alive

\* exit removes the running process and falls back on an older one.
LEMMA ExitIInv == ASSUME IInv, SysExit PROVE IInv'
PROOF
<1> DEFINE live == process_list \ {current_process}
<1>1. /\ Alive /\ mode # "boot" /\ current_process \in Pid /\ live \in SUBSET Pid
      /\ regs \in [Pid -> Context] /\ OnlyKeyboard /\ Frame \in Context
      /\ 0 \in process_list /\ NULL \in Pid \cup {NULL}
  BY FrameType DEF SysExit, Exit, InProcess, IInv, CurrentLive, TypeOK
<1>2. /\ ChangeProcess(current_process, live, regs, NULL, Frame)
      /\ process_list' = live /\ saved_context' = Frame
      /\ UNCHANGED <<prog, kbhandler, curr_pid, kbhb_command>>
  BY DEF SysExit, Exit
<1>3. live # {} \/ current_process = 0
  BY <1>1
<1>4. \/ /\ status' = "panic" /\ regs' = regs /\ last_process' = NULL
         /\ UNCHANGED <<current_process, mode, in_service>>
      \/ /\ status' \in {"run", "mixed"} /\ current_process # 0
         /\ current_process' \in live /\ last_process' = current_process'
         /\ in_service' = {} /\ mode' \in {"task", "handler", "handler3"}
         /\ regs' \in [Pid -> Context]
  <2>1. current_process = 0 => 0 \notin live
    OBVIOUS
  <2>2. current_process = 0 => status' = "panic" /\ UNCHANGED <<current_process, mode, in_service>>
                              /\ regs' = regs /\ last_process' = NULL
    BY <1>2, <2>1 DEF ChangeProcess
  <2> HIDE DEF live
  <2> QED
    BY <1>1, <1>2, <1>3, <2>2, ChangeProcessEffect
<1> QED
  BY <1>1, <1>2, <1>4
  DEF IInv, TypeOK, CurrentLive, PicFree, BootClean, OnlyKeyboard, Alive

(***************************************************************************)
(* Every step keeps the inductive invariant.                               *)
(***************************************************************************)
LEMMA NextIInv == ASSUME IInv, [Next]_vars PROVE IInv'
PROOF
<1> DEFINE Same == UNCHANGED <<pcbs, regs, current_process, last_process>>
<1>1. saved_context \in Context /\ kbhb_command \in Line /\ Frame \in Context /\ NoLine \in Line
  BY FrameType, BoundAssumption DEF IInv, TypeOK, NoLine, Line, Pid
<1>2. CASE UNCHANGED vars
  BY <1>2 DEF vars, pcbs, IInv, TypeOK, CurrentLive, PicFree, BootClean, OnlyKeyboard, Alive
<1>3. CASE BootShell
  <2>1. "sosh" \in Program /\ Alive
    BY <1>3 DEF Program, BootShell
  <2> QED
    BY <1>1, <1>3, <2>1, CreateIInv DEF BootShell
<1>4. CASE TimerTick \/ SysOther
  BY <1>1, <1>4
  DEF TimerTick, SysOther, pcbs, cpu, IInv, TypeOK, CurrentLive, PicFree, BootClean,
      OnlyKeyboard, Alive
<1>5. CASE KeyAtBoot \/ SysWait
  BY <1>1, <1>5
  DEF KeyAtBoot, SysWait, InProcess, pcbs, IInv, TypeOK, CurrentLive, PicFree, BootClean,
      OnlyKeyboard, Alive
<1>6. CASE KeyboardIRQ \/ KbhReturn
  BY <1>6
  DEF KeyboardIRQ, KbhReturn, EOI, pcbs, IInv, TypeOK, CurrentLive, PicFree, BootClean,
      OnlyKeyboard, Alive
<1>7. CASE KbhHandler
  <2>1. /\ mode' = "handler" /\ mode = "irq" /\ Alive /\ kbhb_command' \in Line
        /\ UNCHANGED <<pcbs, regs, current_process, last_process, in_service, status>>
    BY <1>1, <1>7 DEF KbhHandler
  <2>2. saved_context' \in Context
    BY <1>1, <1>7 DEF KbhHandler, IInv, TypeOK, Context
  <2> QED
    BY <2>1, <2>2
    DEF pcbs, IInv, TypeOK, CurrentLive, PicFree, BootClean, OnlyKeyboard, Alive
<1>8. CASE HandlerReturn \/ ShellDone
  BY <1>1, <1>8
  DEF HandlerReturn, ShellDone, InShell, InHandler, EOI, pcbs, IInv, TypeOK, CurrentLive,
      PicFree, BootClean, OnlyKeyboard, Alive
<1>9. CASE ShellRps
  <2>1. "rps" \in Program /\ Alive
    BY <1>9 DEF Program, ShellRps, RunRps, InShell
  <2> QED
    BY <1>1, <1>9, <2>1, CreateIInv DEF ShellRps, RunRps
<1>10. CASE ShellChpr
  <2>1. kbhb_command.pid \in Pid
    BY <1>1 DEF Line
  <2> QED
    BY <1>1, <1>10, <2>1, SwitchIInv DEF ShellChpr, InShell, InHandler
<1>11. CASE SysExit
  BY <1>11, ExitIInv
<1>12. CASE SysAttach
  <2>1. current_process \in Pid
    BY <1>12 DEF SysAttach, InProcess, IInv, TypeOK, CurrentLive
  <2>2. kbhandler' \in [Pid -> BOOLEAN]
    BY <1>12, <2>1 DEF SysAttach, IInv, TypeOK
  <2> QED
    BY <1>1, <1>12, <2>2
    DEF SysAttach, cpu, IInv, TypeOK, CurrentLive, PicFree, BootClean, OnlyKeyboard, Alive
<1>13. CASE SysCreate
  <2>1. "user" \in Program /\ Alive
    BY <1>13 DEF Program, SysCreate, InProcess
  <2> QED
    BY <1>1, <1>13, <2>1, CreateIInv DEF SysCreate
<1>14. ASSUME NEW pid \in Pid, KbhCHP(pid) \/ SysChange(pid) PROVE IInv'
  BY <1>1, <1>14, SwitchIInv DEF KbhCHP, SysChange, ChangeTo, InProcess
<1> QED
  BY <1>2, <1>3, <1>4, <1>5, <1>6, <1>7, <1>8, <1>9, <1>10, <1>11, <1>12, <1>13, <1>14
  DEF Next

(***************************************************************************)
(* Every behaviour keeps the inductive invariant, hence the type of every  *)
(* variable, a live current process and an acknowledged PIC.               *)
(***************************************************************************)
THEOREM Inductive == Spec => []IInv
  <1>1. IInv /\ [Next]_vars => IInv'
    BY NextIInv
  <1> QED
    BY InitIInv, <1>1, PTL DEF Spec

\* Type correctness of the process manager.
THEOREM TypeCorrect == Spec => []TypeOK
  <1>1. IInv => TypeOK
    BY DEF IInv
  <1> QED
    BY Inductive, <1>1, PTL

\* While processes run, current_process is never a freed PCB.
THEOREM CurrentIsLive == Spec => []CurrentLive
  <1>1. IInv => CurrentLive
    BY DEF IInv
  <1> QED
    BY Inductive, <1>1, PTL

\* No process runs with a keyboard interrupt left unacknowledged.
THEOREM PicIsFree == Spec => []PicFree
  <1>1. IInv => PicFree
    BY DEF IInv
  <1> QED
    BY Inductive, <1>1, PTL

-----------------------------------------------------------------------------
(***************************************************************************)
(* Who owns a saved context.  NoUncaptured is the condition under which    *)
(* every switch follows a snapshot of the code that asked for it: the      *)
(* change-process key is never live, the shell is not given chpr and makes *)
(* no process calls itself.                                                *)
(***************************************************************************)
NoUncaptured ==
  /\ CHPModeReads = {FALSE}
  /\ "chpr" \notin ShellCommands
  /\ "sosh" \notin ApiClients

\* A pending rps command runs on the snapshot its own handler took.
PendingOwned ==
  Alive /\ kbhb_command.cmd # "none" =>
    /\ kbhb_command.cmd # "chpr"
    /\ kbhb_command.cmd = "rps" => /\ InHandler /\ prog[current_process] = "sosh"
                                   /\ saved_context.owner = current_process

OwnInv == OwnContext /\ PendingOwned

\* While an rps command is pending only the shell's handler moves.
LEMMA PendingBlocks ==
  ASSUME NoUncaptured, PendingOwned, Alive, kbhb_command.cmd = "rps"
  PROVE  /\ ~BootShell /\ ~TimerTick /\ ~KeyAtBoot /\ ~KeyboardIRQ /\ ~KbhReturn
         /\ ~KbhHandler /\ ~HandlerReturn /\ ~ShellChpr /\ ~ShellDone /\ ~SysExit
         /\ ~SysAttach /\ ~SysWait /\ ~SysCreate
         /\ \A pid \in Pid : ~KbhCHP(pid) /\ ~SysChange(pid)
PROOF
<1>1. InHandler /\ prog[current_process] = "sosh" /\ ~Client /\ ~CanExit
  BY DEF PendingOwned, NoUncaptured, Client, CanExit, InShell
<1>2. mode \in {"handler", "handler3"}
  BY <1>1 DEF InHandler
<1> QED
  BY <1>1, <1>2
  DEF BootShell, TimerTick, KeyAtBoot, KeyboardIRQ, KbhReturn, KbhHandler, HandlerReturn,
      ShellChpr, ShellDone, InShell, SysExit, Exit, SysAttach, SysWait, SysCreate,
      KbhCHP, SysChange, ChangeTo

\* Switching away saves a context of the process that is left.
LEMMA SwitchOwned ==
  ASSUME IInv, OwnContext, Alive, mode # "boot", NEW pid \in Pid, NEW saved \in Context,
         ChangeProcess(pid, process_list, regs, last_process, saved),
         UNCHANGED pcbs, saved.owner = current_process
  PROVE  OwnContext'
PROOF
<1>1. /\ process_list \in SUBSET Pid /\ process_list # {} /\ 0 \in process_list
      /\ regs \in [Pid -> Context] /\ last_process \in Pid \cup {NULL} /\ OnlyKeyboard
      /\ last_process = current_process /\ current_process \in process_list
  BY DEF IInv, TypeOK, CurrentLive
<1>2. regs' = IF last_process = NULL THEN regs ELSE [regs EXCEPT ![last_process] = saved]
  BY <1>1, ChangeProcessEffect
<1> QED
  BY <1>1, <1>2 DEF OwnContext, Alive, pcbs

\* A new process owns its context and the one left behind is saved as its own.
LEMMA CreateOwned ==
  ASSUME IInv, OwnContext, Alive, NEW program \in Program, NEW saved \in Context,
         CreateProcess(program, saved), mode # "boot" => saved.owner = current_process
  PROVE  OwnContext'
PROOF
<1> DEFINE fresh == [owner |-> curr_pid, at |-> "task"]
           rs == [regs EXCEPT ![curr_pid] = fresh]
<1>1. /\ curr_pid \in Pid /\ process_list' = process_list \cup {curr_pid}
      /\ regs' = IF last_process = NULL THEN rs ELSE [rs EXCEPT ![last_process] = saved]
  BY CreateProcessEffect
<1>2. /\ regs \in [Pid -> Context] /\ process_list \in SUBSET Pid
      /\ last_process = current_process
      /\ last_process \notin {NULL} => saved.owner = last_process
      /\ \A p \in process_list : p # curr_pid
  BY <1>1 DEF IInv, TypeOK, CurrentLive, BootClean, Pid
<1>3. rs[curr_pid].owner = curr_pid /\ \A p \in process_list : rs[p].owner = p
  BY <1>1, <1>2 DEF OwnContext
<1>4. rs \in [Pid -> [owner : Pid \cup {NULL}, at : {"task", "handler"}]]
  BY <1>1, <1>2 DEF Context
<1> HIDE DEF rs
<1> QED
  BY <1>1, <1>2, <1>3, <1>4 DEF OwnContext

\* Without the uncaptured path every step keeps contexts with their owners.
LEMMA OwnNext ==
  ASSUME NoUncaptured, IInv, OwnInv, [Next]_vars
  PROVE  OwnInv'
PROOF
<1>0. OwnContext /\ PendingOwned /\ Frame \in Context /\ Frame.owner = current_process
  BY FrameType DEF OwnInv, IInv, Frame
<1>1. CASE UNCHANGED vars
  BY <1>0, <1>1 DEF vars, OwnInv, OwnContext, PendingOwned, InHandler, Alive
<1>2. CASE Alive /\ kbhb_command.cmd = "rps" /\ SysOther
  BY <1>0, <1>2 DEF SysOther, pcbs, cpu, OwnInv, OwnContext, PendingOwned, InHandler, Alive
<1>3. CASE ShellRps
  <2>1. "rps" \in Program /\ Alive /\ mode # "boot" /\ saved_context \in Context
        /\ saved_context.owner = current_process /\ CreateProcess("rps", saved_context)
    BY <1>0, <1>3
    DEF ShellRps, RunRps, InShell, InHandler, PendingOwned, Program, IInv, TypeOK
  <2>2. OwnContext'
    BY <1>0, <2>1, CreateOwned
  <2>3. PendingOwned'
    BY <1>3 DEF ShellRps, RunRps, PendingOwned, NoLine
  <2> QED
    BY <2>2, <2>3 DEF OwnInv
<1>4. CASE ~Alive
  <2>1. ~Next
    BY <1>4
    DEF Next, BootShell, TimerTick, KeyAtBoot, KeyboardIRQ, KbhReturn, KbhHandler,
        HandlerReturn, ShellRps, RunRps, ShellChpr, ShellDone, InShell, SysExit, Exit,
        SysAttach, SysOther, SysWait, SysCreate, InProcess, KbhCHP, SysChange, ChangeTo
  <2> QED
    BY <1>1, <2>1
<1>5. CASE Alive /\ kbhb_command.cmd # "rps" /\ Next
  <2> USE <1>0, <1>5
  <2>1. kbhb_command.cmd # "chpr"
    BY DEF PendingOwned
  <2>2. CASE UNCHANGED <<process_list, regs, kbhb_command>>
    BY <2>1, <2>2 DEF OwnInv, OwnContext, PendingOwned, Alive
  <2>3. CASE KbhHandler
    <3>1. UNCHANGED <<process_list, regs, prog, current_process, status>> /\ mode' = "handler"
      BY <2>3 DEF KbhHandler, pcbs
    <3>2. \/ kbhb_command' = kbhb_command
          \/ /\ prog[current_process] = "sosh" /\ kbhb_command'.cmd \in ShellCommands \cup {"none"}
             /\ saved_context'.owner = current_process
      BY <2>3 DEF KbhHandler
    <3> QED
      BY <2>1, <3>1, <3>2
      DEF NoUncaptured, OwnInv, OwnContext, PendingOwned, InHandler, Alive
  <2>4. CASE BootShell
    <3>1. "sosh" \in Program /\ saved_context \in Context /\ mode = "boot"
          /\ CreateProcess("sosh", saved_context) /\ kbhb_command' = kbhb_command
      BY <2>4 DEF BootShell, Program, IInv, TypeOK
    <3>2. OwnContext'
      BY <3>1, CreateOwned
    <3> QED
      BY <2>1, <3>1, <3>2 DEF OwnInv, PendingOwned
  <2>5. CASE SysCreate
    <3>1. "user" \in Program /\ CreateProcess("user", Frame) /\ kbhb_command' = kbhb_command
      BY <2>5 DEF SysCreate, Program
    <3>2. OwnContext'
      BY <3>1, CreateOwned
    <3> QED
      BY <2>1, <3>1, <3>2 DEF OwnInv, PendingOwned
  <2>6. ASSUME NEW pid \in Pid, SysChange(pid) PROVE OwnInv'
    <3>1. mode # "boot" /\ UNCHANGED pcbs /\ kbhb_command' = kbhb_command
          /\ ChangeProcess(pid, process_list, regs, last_process, Frame)
      BY <2>6 DEF SysChange, ChangeTo, InProcess
    <3>2. OwnContext'
      BY <3>1, SwitchOwned
    <3> QED
      BY <2>1, <3>1, <3>2 DEF OwnInv, PendingOwned
  <2>7. CASE SysExit
    <3>1. /\ process_list' = process_list \ {current_process} /\ kbhb_command' = kbhb_command
          /\ ChangeProcess(current_process, process_list', regs, NULL, Frame)
      BY <2>7 DEF SysExit, Exit
    <3>2. regs' = regs
      BY <3>1 DEF ChangeProcess, ContextSwitch
    <3> QED
      BY <2>1, <3>1, <3>2 DEF OwnInv, OwnContext, PendingOwned
  <2>8. ~ShellRps /\ ~ShellChpr /\ \A pid \in Pid : ~KbhCHP(pid)
    BY <2>1 DEF ShellRps, RunRps, ShellChpr, InShell, KbhCHP, NoUncaptured
  <2>9. CASE TimerTick \/ KeyAtBoot \/ KeyboardIRQ \/ KbhReturn \/ HandlerReturn
             \/ ShellDone \/ SysOther \/ SysWait \/ SysAttach
    <3>1. UNCHANGED <<process_list, regs, kbhb_command>>
      BY <2>9 DEF TimerTick, KeyAtBoot, KeyboardIRQ, KbhReturn, HandlerReturn,
                  ShellDone, SysOther, SysWait, SysAttach, pcbs, cpu
    <3> QED
      BY <2>2, <3>1
  <2> QED
    BY <2>3, <2>4, <2>5, <2>6, <2>7, <2>8, <2>9 DEF Next
<1>6. CASE Alive /\ kbhb_command.cmd = "rps" /\ Next
  BY <1>0, <1>2, <1>3, <1>6, PendingBlocks DEF Next
<1> QED
  BY <1>1, <1>4, <1>5, <1>6

(***************************************************************************)
(* Under NoUncaptured each live process is resumed from its own context.   *)
(***************************************************************************)
THEOREM ContextsAreOwned == NoUncaptured => (Spec => []OwnContext)
PROOF
<1> SUFFICES ASSUME NoUncaptured PROVE Spec => []OwnContext
  OBVIOUS
<1>1. Init => OwnInv
  BY DEF Init, OwnInv, OwnContext, PendingOwned, NoLine
<1>2. IInv /\ OwnInv /\ [Next]_vars => OwnInv'
  BY OwnNext
<1>3. OwnInv => OwnContext
  BY DEF OwnInv
<1> QED
  BY Inductive, <1>1, <1>2, <1>3, PTL DEF Spec

(***************************************************************************)
(* A PCB that left the list is never written again: a step that changes    *)
(* regs changes those of a process that is in the list after it.           *)
(***************************************************************************)
THEOREM FreedIsUntouched == Spec => FreedUntouched
PROOF
<1> DEFINE Kept == \A p \in Pid \ process_list' : regs'[p] = regs[p]
<1>1. ASSUME IInv, Next PROVE Kept
  <2> USE <1>1
  <2>1. ASSUME Alive, mode # "boot", NEW pid \in Pid, NEW saved \in Context, UNCHANGED pcbs,
               ChangeProcess(pid, process_list, regs, last_process, saved)
        PROVE  Kept
    BY <2>1, ChangeProcessEffect DEF IInv, TypeOK, CurrentLive, pcbs
  <2>2. ASSUME Alive, NEW program \in Program, NEW saved \in Context,
               CreateProcess(program, saved)
        PROVE  Kept
    <3>1. /\ process_list' = process_list \cup {curr_pid} /\ curr_pid \in Pid
          /\ LET rs == [regs EXCEPT ![curr_pid] = [owner |-> curr_pid, at |-> "task"]]
             IN  regs' = IF last_process = NULL THEN rs
                         ELSE [rs EXCEPT ![last_process] = saved]
      BY <2>2, CreateProcessEffect
    <3>2. last_process = NULL \/ last_process \in process_list
      BY <2>2 DEF IInv, CurrentLive, BootClean
    <3> QED
      BY <3>1, <3>2 DEF IInv, TypeOK
  <2>3. saved_context \in Context /\ Frame \in Context
        /\ {"sosh", "rps", "user"} \subseteq Program /\ kbhb_command.pid \in Pid
    BY FrameType DEF IInv, TypeOK, Program, Line
  <2>4. CASE BootShell \/ ShellRps \/ SysCreate
    BY <2>2, <2>3, <2>4 DEF BootShell, ShellRps, RunRps, InShell, SysCreate, InProcess
  <2>5. CASE ShellChpr
    BY <2>1, <2>3, <2>5 DEF ShellChpr, InShell, InHandler
  <2>6. ASSUME NEW pid \in Pid, KbhCHP(pid) \/ SysChange(pid) PROVE Kept
    BY <2>1, <2>3, <2>6 DEF KbhCHP, SysChange, ChangeTo, InProcess
  <2>7. CASE SysExit
    BY <2>7 DEF SysExit, Exit, ChangeProcess, ContextSwitch
  <2>8. CASE TimerTick \/ KeyAtBoot \/ KeyboardIRQ \/ KbhReturn \/ KbhHandler
             \/ HandlerReturn \/ ShellDone \/ SysOther \/ SysWait \/ SysAttach
    BY <2>8 DEF TimerTick, KeyAtBoot, KeyboardIRQ, KbhReturn, KbhHandler, HandlerReturn,
                ShellDone, SysOther, SysWait, SysAttach, pcbs, cpu
  <2> QED
    BY <2>4, <2>5, <2>6, <2>7, <2>8 DEF Next
<1>2. IInv /\ [Next]_vars => [Kept]_vars
  BY <1>1
<1> QED
  BY Inductive, <1>2, PTL DEF Spec, FreedUntouched

(***************************************************************************)
(* exit hands over to the youngest process older than the one that exits   *)
(* and panics only when the init process exits.                            *)
(***************************************************************************)
THEOREM ExitResumesOlder == Spec => ExitFallsBack
PROOF
<1> DEFINE FallsBack(p) ==
             IF p = 0 THEN status' = "panic"
             ELSE /\ current_process' \in process_list' /\ current_process' < p
                  /\ \A q \in process_list' : q < p => q <= current_process'
           Handed == \A p \in process_list \ process_list' : FallsBack(p)
<1>1. ASSUME IInv, SysExit PROVE Handed
  <2> DEFINE live == process_list \ {current_process}
  <2>1. /\ current_process \in Pid /\ live \in SUBSET Pid /\ 0 \in process_list
        /\ process_list' = live
        /\ ChangeProcess(current_process, live, regs, NULL, Frame)
    BY <1>1 DEF SysExit, Exit, InProcess, IInv, CurrentLive, TypeOK
  <2>2. CASE current_process = 0
    <3>1. status' = "panic"
      BY <2>1, <2>2 DEF ChangeProcess
    <3> QED
      BY <2>1, <2>2, <3>1
  <2>3. CASE current_process # 0
    <3>1. current_process' = Search(current_process, live)
      BY <2>1, <2>3 DEF ChangeProcess, ContextSwitch
    <3>2. 0 \in live
      BY <2>1, <2>3
    <3>3. /\ Search(current_process, live) \in live
          /\ Search(current_process, live) <= current_process
          /\ \A q \in live : q <= current_process => q <= Search(current_process, live)
      BY <2>1, <3>2, SearchFinds
    <3>4. \A q \in live : q \in Int /\ q # current_process
      BY <2>1 DEF Pid
    <3>5. FallsBack(current_process)
      BY <2>1, <2>3, <3>1, <3>3, <3>4 DEF Pid
    <3> QED
      BY <2>1, <3>5
  <2> QED
    BY <2>2, <2>3
<1>2. ASSUME IInv, Next, ~SysExit PROVE process_list \subseteq process_list'
  BY <1>2
  DEF Next, BootShell, TimerTick, KeyAtBoot, KeyboardIRQ, KbhReturn, KbhHandler, HandlerReturn,
      ShellRps, RunRps, ShellChpr, ShellDone, SysAttach, SysOther, SysWait, SysCreate, KbhCHP,
      SysChange, ChangeTo, CreateProcess, CreateWithPid, pcbs
<1>3. IInv /\ [Next]_vars => [Handed]_vars
  BY <1>1, <1>2
<1> QED
  BY Inductive, <1>3, PTL DEF Spec, ExitFallsBack

-----------------------------------------------------------------------------
(***************************************************************************)
(* The consoles that process_kbh and the keyboard call (Console, Shell):   *)
(* what a line editor runs is what the screen shows. The strings in a      *)
(* buffer come first.                                                      *)
(***************************************************************************)

LEMMA LeastIn ==
  ASSUME NEW S \in SUBSET Nat, S # {}
  PROVE  \E x \in S : \A y \in S : x <= y
<1>1. PICK x \in S : \A y \in S : ~(<<y, x>> \in OpToRel(<, Nat))
  BY NatLessThanWellFounded, WFMin
<1>2. ASSUME NEW y \in S PROVE x <= y
  <2>1. ~(y < x)
    BY <1>1, <1>2 DEF OpToRel
  <2> QED BY <2>1
<1> QED BY <1>2

\* s, which has no NUL, stands in b from n on and ends there
Stands(b, n, s) ==
  /\ \A j \in 1..Len(s) : n + j - 1 \in DOMAIN b /\ b[n + j - 1] = s[j] /\ s[j] # NUL
  /\ n + Len(s) \notin DOMAIN b \/ b[n + Len(s)] = NUL

LEMMA TextIs ==
  ASSUME NEW b, NEW n \in Nat, NEW s \in Seq(Key), DOMAIN b \subseteq Int, Stands(b, n, s)
  PROVE  Text(b, n) = s
<1> DEFINE Ends(m) == m >= n /\ (m \notin DOMAIN b \/ b[m] = NUL) /\ \A i \in n..m - 1 : i \in DOMAIN b /\ b[i] # NUL
           C == {n} \cup {i + 1 : i \in DOMAIN b}
           e == n + Len(s)
<1>1. e \in Nat /\ Len(s) \in Nat
  OBVIOUS
<1>2. ASSUME NEW i \in n..e - 1 PROVE i \in DOMAIN b /\ b[i] # NUL
  <2>1. i - n + 1 \in 1..Len(s) /\ n + (i - n + 1) - 1 = i
    BY <1>1, <1>2
  <2> QED BY <2>1 DEF Stands
<1>3. Ends(e)
  <2>1. e >= n
    BY <1>1
  <2>2. e \notin DOMAIN b \/ b[e] = NUL
    BY DEF Stands
  <2> QED BY <1>2, <2>1, <2>2, Zenon
<1>4. e \in C
  <2>1. CASE Len(s) = 0
    BY <2>1
  <2>2. CASE Len(s) # 0
    <3>1. e - 1 \in n..e - 1 /\ (e - 1) + 1 = e
      BY <1>1, <2>2
    <3>2. e - 1 \in DOMAIN b
      BY <1>2, <3>1
    <3> QED BY <3>1, <3>2
  <2> QED BY <2>1, <2>2
<1>5. ASSUME NEW m \in C, Ends(m) PROVE m = e
  <2>1. m \in Int
    OBVIOUS
  <2>2. ~(m < e)
    BY <1>1, <1>2, <1>5, <2>1
  <2>3. ~(e < m)
    BY <1>1, <1>3, <1>5, <2>1
  <2> QED BY <1>1, <2>1, <2>2, <2>3
<1>6. TextEnd(b, n) = CHOOSE m \in C : Ends(m)
  BY DEF TextEnd
<1> HIDE DEF C, Ends
<1>7. TextEnd(b, n) = e
  BY <1>3, <1>4, <1>5, <1>6
<1>8. TextEnd(b, n) - n = Len(s)
  BY <1>1, <1>7
<1>9. Text(b, n) = [i \in 1..Len(s) |-> b[n + i - 1]]
  BY <1>8 DEF Text
<1>10. [i \in 1..Len(s) |-> b[n + i - 1]] = [i \in 1..Len(s) |-> s[i]]
  BY DEF Stands
<1>11. s = [i \in 1..Len(s) |-> s[i]]
  OBVIOUS
<1> QED BY <1>9, <1>10, <1>11

LEMMA BeforeNulIs ==
  ASSUME NEW s \in Seq(Key)
  PROVE  \E n \in 0..Len(s) : /\ BeforeNul(s) = SubSeq(s, 1, n)
                              /\ n = Len(s) \/ s[n + 1] = NUL
                              /\ \A i \in 1..n : s[i] # NUL
<1> DEFINE Ends(n) == (n = Len(s) \/ s[n + 1] = NUL) /\ \A i \in 1..n : s[i] # NUL
           S == {n \in 0..Len(s) : n = Len(s) \/ s[n + 1] = NUL}
<1>1. S \in SUBSET Nat /\ S # {}
  <2>1. Len(s) \in S
    OBVIOUS
  <2> QED BY <2>1
<1>2. PICK n \in S : \A y \in S : n <= y
  BY <1>1, LeastIn
<1>3. ASSUME NEW i \in 1..n PROVE s[i] # NUL
  <2>0. ~(n <= i - 1)
    BY <1>1
  <2>1. i - 1 \notin S
    BY <1>2, <2>0, Zenon
  <2>2. i - 1 \in 0..Len(s) /\ (i - 1) + 1 = i
    BY <1>2
  <2> QED BY <2>1, <2>2
<1>4. n \in 0..Len(s) /\ Ends(n)
  BY <1>2, <1>3
<1>5. BeforeNul(s) = SubSeq(s, 1, CHOOSE m \in 0..Len(s) : Ends(m))
  BY DEF BeforeNul
<1> HIDE DEF Ends
<1>6. PICK m \in 0..Len(s) : m = (CHOOSE k \in 0..Len(s) : Ends(k))
  BY <1>4
<1>7. Ends(m)
  BY <1>4, <1>6
<1> QED BY <1>5, <1>6, <1>7 DEF Ends

\* the buffer b of N bytes holds the keys t, and the rest of it is clear
Holds(b, N, t) ==
  /\ b \in [0..N - 1 -> Key] /\ Len(t) < N
  /\ \A i \in 0..Len(t) - 1 : b[i] = t[i + 1]
  /\ b[Len(t)] = NUL
Clear(b, N, t) == \A i \in 0..N - 1 : i >= Len(t) => b[i] = NUL

LEMMA LineText ==
  ASSUME NEW b, NEW N \in Nat, NEW t \in Seq(Key), Holds(b, N, t)
  PROVE  Text(b, 0) = BeforeNul(t)
<1>1. PICK n \in 0..Len(t) : /\ BeforeNul(t) = SubSeq(t, 1, n)
                             /\ n = Len(t) \/ t[n + 1] = NUL
                             /\ \A i \in 1..n : t[i] # NUL
  BY BeforeNulIs
<1> DEFINE s == SubSeq(t, 1, n)
<1>2. s \in Seq(Key) /\ Len(s) = n /\ \A i \in 1..n : s[i] = t[i]
  BY <1>1
<1>3. DOMAIN b = 0..N - 1
  BY DEF Holds
<1> HIDE DEF s
<1>4. Stands(b, 0, s)
  <2>1. ASSUME NEW j \in 1..Len(s) PROVE 0 + j - 1 \in DOMAIN b /\ b[0 + j - 1] = s[j] /\ s[j] # NUL
    <3>1. j \in 1..n /\ j - 1 \in 0..Len(t) - 1 /\ (j - 1) + 1 = j /\ 0 + j - 1 = j - 1
      BY <1>1, <1>2
    <3>2. b[j - 1] = t[j]
      BY <3>1 DEF Holds
    <3>3. j - 1 \in 0..N - 1
      BY <3>1 DEF Holds
    <3> QED BY <1>1, <1>2, <1>3, <3>1, <3>2, <3>3
  <2>2. b[0 + Len(s)] = NUL
    <3>1. CASE n = Len(t)
      BY <1>2, <3>1 DEF Holds
    <3>2. CASE n # Len(t)
      <4>1. n \in 0..Len(t) - 1 /\ 0 + Len(s) = n
        BY <1>1, <1>2, <3>2
      <4> QED BY <1>1, <3>2, <4>1 DEF Holds
    <3> QED BY <3>1, <3>2
  <2> QED BY <2>1, <2>2 DEF Stands
<1>5. DOMAIN b \subseteq Int /\ 0 \in Nat
  BY <1>3
<1>6. Text(b, 0) = s
  BY <1>2, <1>4, <1>5, TextIs
<1> QED BY <1>1, <1>6 DEF s

LEMMA Rest ==
  ASSUME NEW b, NEW N \in Nat, NEW t \in Seq(Key), Holds(b, N, t), Clear(b, N, t),
         \A j \in 1..Len(t) : t[j] # NUL,
         NEW name \in Seq(Key), Len(name) <= Len(t)
  PROVE  Text(b, Len(name) + 1) = Argument(t, name)
<1> DEFINE a == Argument(t, name)
           f == Len(name) + 1
<1>1. DOMAIN b = 0..N - 1 /\ Len(t) \in Nat /\ Len(name) \in Nat /\ Len(t) < N
  BY DEF Holds
<1>2. CASE Len(t) <= Len(name) + 1
  <2>1. a = <<>>
    BY <1>2 DEF Argument
  <2>2. f \notin DOMAIN b \/ b[f] = NUL
    BY <1>1, <1>2 DEF Clear
  <2>3. Stands(b, f, <<>>)
    BY <1>1, <2>2 DEF Stands
  <2> QED BY <1>1, <2>1, <2>3, TextIs
<1>3. CASE Len(t) > Len(name) + 1
  <2>1. a = SubSeq(t, f + 1, Len(t))
    BY <1>1, <1>3 DEF Argument
  <2>2. /\ a \in Seq(Key) /\ Len(a) = Len(t) - f
        /\ \A j \in 1..Len(a) : a[j] = t[f + j]
    BY <1>1, <1>3, <2>1
  <2> HIDE DEF a
  <2>3. ASSUME NEW j \in 1..Len(a) PROVE f + j - 1 \in DOMAIN b /\ b[f + j - 1] = a[j] /\ a[j] # NUL
    <3>1. f + j - 1 \in 0..Len(t) - 1 /\ (f + j - 1) + 1 = f + j /\ f + j \in 1..Len(t)
      BY <1>1, <1>3, <2>2
    <3>2. b[f + j - 1] = t[f + j]
      BY <3>1 DEF Holds
    <3>3. t[f + j] # NUL /\ f + j - 1 \in 0..N - 1
      BY <1>1, <3>1
    <3> QED BY <1>1, <2>2, <3>2, <3>3
  <2>4. f + Len(a) = Len(t)
    BY <1>1, <2>2
  <2>5. Stands(b, f, a)
    BY <2>3, <2>4 DEF Stands, Holds
  <2>6. f \in Nat /\ DOMAIN b \subseteq Int
    BY <1>1
  <2>7. Text(b, f) = a
    BY <2>2, <2>5, <2>6, TextIs
  <2> QED BY <2>7 DEF a
<1> QED BY <1>1, <1>2, <1>3

\* What begins a line is found at its start.
LEMMA FoundFirst ==
  ASSUME NEW s \in Seq(Key), NEW name \in Seq(Key), IsPrefix(name, s)
  PROVE  Occurs(s, name) # {} /\ strstr(s, name) = 0 /\ Len(name) <= Len(s)
<1>1. Len(name) <= Len(s) /\ SubSeq(name, 1, Len(name)) = SubSeq(s, 1, Len(name))
  BY DEF IsPrefix
<1>2. SubSeq(name, 1, Len(name)) = name
  OBVIOUS
<1>3. 0 \in Occurs(s, name)
  BY <1>1, <1>2 DEF Occurs
<1>4. Occurs(s, name) \subseteq Nat
  BY DEF Occurs
<1>5. ASSUME NEW p \in Occurs(s, name), \A q \in Occurs(s, name) : p <= q PROVE p = 0
  BY <1>3, <1>4, <1>5
<1>6. \A q \in Occurs(s, name) : 0 <= q
  BY <1>4
<1>7. strstr(s, name) = 0
  BY <1>3, <1>5, <1>6 DEF strstr
<1> QED BY <1>1, <1>3, <1>7

LEMMA PrefixesAgree ==
  ASSUME NEW s \in Seq(Key), NEW t \in Seq(Key), NEW u \in Seq(Key), IsPrefix(s, u), IsPrefix(t, u), Apart(s, t)
  PROVE  FALSE
<1>1. /\ Len(s) <= Len(u) /\ SubSeq(s, 1, Len(s)) = SubSeq(u, 1, Len(s))
      /\ Len(t) <= Len(u) /\ SubSeq(t, 1, Len(t)) = SubSeq(u, 1, Len(t))
  BY DEF IsPrefix
<1>2. SubSeq(s, 1, Len(s)) = s /\ SubSeq(t, 1, Len(t)) = t
  OBVIOUS
<1>3. \A i \in 1..Len(s) : s[i] = u[i]
  BY <1>1, <1>2
<1>4. \A i \in 1..Len(t) : t[i] = u[i]
  BY <1>1, <1>2
<1>5. CASE Len(s) <= Len(t)
  <2>1. \A i \in 1..Len(s) : s[i] = t[i]
    BY <1>3, <1>4, <1>5
  <2>2. SubSeq(s, 1, Len(s)) = SubSeq(t, 1, Len(s))
    BY <1>5, <2>1
  <2> QED BY <1>5, <2>2 DEF IsPrefix, Apart
<1>6. CASE Len(t) <= Len(s)
  <2>1. \A i \in 1..Len(t) : t[i] = s[i]
    BY <1>3, <1>4, <1>6
  <2>2. SubSeq(t, 1, Len(t)) = SubSeq(s, 1, Len(t))
    BY <1>6, <2>1
  <2> QED BY <1>6, <2>2 DEF IsPrefix, Apart
<1> QED BY <1>5, <1>6

-----------------------------------------------------------------------------
(* The line editor of the kernel's shell. *)

LEMMA Dispatched ==
  ASSUME NEW s \in Seq(Key), NEW c \in {"echo", "ls", "cd", "cat", "uname"}, IsPrefix(Name[c], s),
         c \in {"echo", "ls"} \/ Occurs(s, Name.ls) = {},
         c \in {"echo", "ls", "cd"} \/ Occurs(s, Name.cd) = {},
         c # "uname" \/ Occurs(s, Name.cat) = {}
  PROVE  Dispatch(s).command = c /\ Dispatch(s).arg = Len(Name[c]) + 1
<1>1. Name[c] \in Seq(Key) /\ Name.echo \in Seq(Key)
  BY ConsoleAssumption
<1>2. s # Name.exit /\ s # Name.rps /\ s # Name.other
  BY ConsoleAssumption
<1>3. Occurs(s, Name[c]) # {} /\ strstr(s, Name[c]) = 0 /\ Len(Name[c]) \in Nat
  BY <1>1, FoundFirst
<1>4. ASSUME c # "echo" PROVE ~IsPrefix(Name.echo, s)
  <2>1. Apart(Name.echo, Name[c])
    BY <1>4, ConsoleAssumption
  <2> QED BY <1>1, <2>1, PrefixesAgree
<1>5. CASE c = "echo"
  <2>1. Dispatch(s) = [command |-> "echo", arg |-> Len(Name.echo) + 1]
    BY <1>2, <1>5 DEF Dispatch
  <2> QED BY <1>5, <2>1
<1>6. CASE c = "ls"
  <2>1. Dispatch(s) = [command |-> "ls", arg |-> strstr(s, Name.ls) + Len(Name.ls) + 1]
    BY <1>2, <1>3, <1>4, <1>6 DEF Dispatch
  <2> QED BY <1>3, <1>6, <2>1
<1>7. CASE c = "cd"
  <2>1. Dispatch(s) = [command |-> "cd", arg |-> strstr(s, Name.cd) + Len(Name.cd) + 1]
    BY <1>2, <1>3, <1>4, <1>7 DEF Dispatch
  <2> QED BY <1>3, <1>7, <2>1
<1>8. CASE c = "cat"
  <2>1. Dispatch(s) = [command |-> "cat", arg |-> strstr(s, Name.cat) + Len(Name.cat) + 1]
    BY <1>2, <1>3, <1>4, <1>8 DEF Dispatch
  <2> QED BY <1>3, <1>8, <2>1
<1>9. CASE c = "uname"
  <2>1. Dispatch(s) = [command |-> "uname", arg |-> Len(Name.uname) + 1]
    BY <1>2, <1>3, <1>4, <1>9 DEF Dispatch
  <2> QED BY <1>9, <2>1
<1> QED BY <1>5, <1>6, <1>7, <1>8, <1>9

\* what LineAsTyped and CommandAsTyped say of a line that was run
RanRight(r) ==
  /\ ~r.under => r.text = BeforeNul(r.typed)
  /\ (~r.erased /\ BeforeNul(r.typed) = r.typed) =>
       \A c \in {"echo", "ls", "cd", "cat", "uname"} :
         (/\ IsPrefix(Name[c], r.text)
          /\ c \in {"echo", "ls"} \/ Occurs(r.text, Name.ls) = {}
          /\ c \in {"echo", "ls", "cd"} \/ Occurs(r.text, Name.cd) = {}
          /\ c # "uname" \/ Occurs(r.text, Name.cat) = {})
         => r.command = c /\ r.arg = Argument(r.text, Name[c])

RunOf(b, t, er, un) ==
  [command |-> Dispatch(Text(b, 0)).command, text |-> Text(b, 0), arg |-> Text(b, Dispatch(Text(b, 0)).arg),
   typed |-> t, erased |-> er, under |-> un]

LEMMA LineRan ==
  ASSUME NEW b, NEW t \in Seq(Key), NEW er \in BOOLEAN, NEW un \in BOOLEAN,
         ~un => Holds(b, Size, t), ~er => Clear(b, Size, t) /\ ~un
  PROVE  RanRight(RunOf(b, t, er, un))
<1> DEFINE r == RunOf(b, t, er, un)
<1>1. /\ r.under = un /\ r.erased = er /\ r.typed = t /\ r.text = Text(b, 0)
      /\ r.command = Dispatch(Text(b, 0)).command /\ r.arg = Text(b, Dispatch(Text(b, 0)).arg)
  BY DEF RunOf
<1> HIDE DEF r
<1>2. Size \in Nat
  BY ConsoleAssumption
<1>3. ~un => Text(b, 0) = BeforeNul(t)
  BY <1>2, LineText
<1>4. ASSUME ~er, BeforeNul(t) = t, NEW c \in {"echo", "ls", "cd", "cat", "uname"},
             IsPrefix(Name[c], Text(b, 0)),
             c \in {"echo", "ls"} \/ Occurs(Text(b, 0), Name.ls) = {},
             c \in {"echo", "ls", "cd"} \/ Occurs(Text(b, 0), Name.cd) = {},
             c # "uname" \/ Occurs(Text(b, 0), Name.cat) = {}
      PROVE  Dispatch(Text(b, 0)).command = c /\ Text(b, Dispatch(Text(b, 0)).arg) = Argument(Text(b, 0), Name[c])
  <2>1. Text(b, 0) = t /\ Holds(b, Size, t) /\ Clear(b, Size, t)
    BY <1>3, <1>4
  <2>2. Dispatch(t).command = c /\ Dispatch(t).arg = Len(Name[c]) + 1
    BY <1>4, <2>1, Dispatched
  <2>3. PICK n \in 0..Len(t) : BeforeNul(t) = SubSeq(t, 1, n) /\ \A i \in 1..n : t[i] # NUL
    BY BeforeNulIs
  <2>4. n = Len(t)
    BY <1>4, <2>3
  <2>5. \A j \in 1..Len(t) : t[j] # NUL
    BY <2>3, <2>4
  <2>6. Name[c] \in Seq(Key)
    BY ConsoleAssumption
  <2>7. IsPrefix(Name[c], t)
    BY <1>4, <2>1
  <2>8. Len(Name[c]) <= Len(t)
    BY <2>6, <2>7, FoundFirst
  <2>9. Text(b, Len(Name[c]) + 1) = Argument(t, Name[c])
    BY <1>2, <2>1, <2>5, <2>6, <2>8, Rest
  <2> QED BY <2>1, <2>2, <2>9
<1>5. ~r.under => r.text = BeforeNul(r.typed)
  BY <1>1, <1>3
<1>6. ASSUME ~r.erased, BeforeNul(r.typed) = r.typed, NEW c \in {"echo", "ls", "cd", "cat", "uname"},
             IsPrefix(Name[c], r.text),
             c \in {"echo", "ls"} \/ Occurs(r.text, Name.ls) = {},
             c \in {"echo", "ls", "cd"} \/ Occurs(r.text, Name.cd) = {},
             c # "uname" \/ Occurs(r.text, Name.cat) = {}
      PROVE  r.command = c /\ r.arg = Argument(r.text, Name[c])
  <2>1. r.text = Text(b, 0) /\ r.typed = t /\ ~er
    BY <1>1, <1>6
  <2>2. Dispatch(Text(b, 0)).command = c /\ Text(b, Dispatch(Text(b, 0)).arg) = Argument(Text(b, 0), Name[c])
    <3>1. BeforeNul(t) = t
      BY <1>6, <2>1
    <3>2. IsPrefix(Name[c], Text(b, 0))
      BY <1>6, <2>1
    <3>3. /\ c \in {"echo", "ls"} \/ Occurs(Text(b, 0), Name.ls) = {}
          /\ c \in {"echo", "ls", "cd"} \/ Occurs(Text(b, 0), Name.cd) = {}
          /\ c # "uname" \/ Occurs(Text(b, 0), Name.cat) = {}
      BY <1>6, <2>1
    <3> QED BY <1>4, <1>6, <2>1, <3>1, <3>2, <3>3
  <2> QED BY <1>1, <2>2
<1> QED BY <1>5, <1>6, Zenon DEF RanRight, r

\* The invariant: shapes, and how the buffer relates to the line on the screen.
LineType ==
  /\ kbhb \in [0..Size - 1 -> Key] /\ kbhb_index \in Int /\ typed \in Seq(Key)
  /\ erased \in BOOLEAN /\ under \in BOOLEAN
  /\ rps_buf \in Seq(Key) /\ kstatus \in {"ok", "wild"} /\ reader \in {"init", "rps", "none"}
LineHeld ==
  /\ under => erased
  /\ reader = "rps" => kbhb = Zeroed /\ typed = <<>> /\ ~erased
  /\ reader = "init" /\ ~under =>
       kbhb_index = Len(typed) /\ \A i \in 0..Size - 1 : i < Len(typed) => kbhb[i] = typed[i + 1]
  /\ ~erased => Clear(kbhb, Size, typed)
WildOnly ==
  kstatus = "wild" =>
    (ran # NotRun /\ ran.command = "cd") \/ under \/ Len(typed) >= Size \/ Len(rps_buf) >= RpsSize
RanInv == ran = NotRun \/ RanRight(ran)
LineInv == LineType /\ LineHeld /\ WildOnly /\ RanInv

LEMMA EmptyKeys == <<>> \in Seq(Key) /\ NUL \in Key
  BY DEF Key

LEMMA ZeroedHolds == Zeroed \in [0..Size - 1 -> Key] /\ Holds(Zeroed, Size, <<>>) /\ Clear(Zeroed, Size, <<>>)
<1>1. Size \in Nat \ {0}
  BY ConsoleAssumption
<1> QED BY <1>1, EmptyKeys DEF Zeroed, Holds, Clear

LEMMA LineRuns ==
  ASSUME LineType, under => erased, NEW b, RunLine(b), kstatus = "ok", rps_buf' = rps_buf,
         ~under => Holds(b, Size, typed), ~erased => Clear(b, Size, typed)
  PROVE  LineInv'
<1>1. /\ ran' = RunOf(b, typed, erased, under)
      /\ kbhb' = Zeroed
      /\ kstatus' = IF ran'.command = "cd" THEN "wild" ELSE kstatus
      /\ kbhb_index' = IF ran'.command = "rps" THEN kbhb_index ELSE 0
      /\ reader' = IF ran'.command = "rps" THEN "rps" ELSE IF ran'.command = "exit" THEN "none" ELSE "init"
      /\ typed' = <<>> /\ erased' = FALSE /\ under' = FALSE
  BY DEF RunLine, AfterLine, IndexAfter, RunOf
<1>2. RanRight(ran')
  BY <1>1, LineRan DEF LineType
<1>3. LineType'
  <2>1. kbhb' \in [0..Size - 1 -> Key] /\ typed' \in Seq(Key)
    BY <1>1, ZeroedHolds
  <2>2. kbhb_index' \in Int /\ rps_buf' \in Seq(Key)
    BY <1>1 DEF LineType
  <2>3. kstatus' \in {"ok", "wild"} /\ reader' \in {"init", "rps", "none"}
    BY <1>1
  <2>4. erased' \in BOOLEAN /\ under' \in BOOLEAN
    BY <1>1
  <2> QED BY <2>1, <2>2, <2>3, <2>4 DEF LineType
<1>4. LineHeld'
  <2>1. Clear(kbhb', Size, typed')
    BY <1>1, ZeroedHolds
  <2>2. reader' = "init" => kbhb_index' = Len(typed')
    BY <1>1
  <2>3. Len(typed') = 0 /\ \A i \in 0..Size - 1 : ~(i < 0)
    BY <1>1, ConsoleAssumption
  <2> QED BY <1>1, <2>1, <2>2, <2>3 DEF LineHeld
<1>5. WildOnly'
  <2>1. ran'.command = "cd" => ran' # NotRun
    BY DEF NotRun
  <2> QED BY <1>1, <2>1 DEF WildOnly
<1> QED BY <1>2, <1>3, <1>4, <1>5 DEF LineInv, RanInv

LEMMA KeysTyped == ASSUME NEW sc, NEW key \in KeysOf(sc) PROVE key \in Key
<1>1. CASE sc >= 80 \/ sc \in Unassigned
  BY <1>1 DEF KeysOf, Key
<1>2. CASE ~(sc >= 80 \/ sc \in Unassigned) /\ sc \in DOMAIN KeyTable
  BY <1>2 DEF KeysOf, Key
<1>3. CASE ~(sc >= 80 \/ sc \in Unassigned) /\ sc \notin DOMAIN KeyTable
  BY <1>3, EmptyKeys DEF KeysOf
<1> QED BY <1>1, <1>2, <1>3

LEMMA KeyStored ==
  ASSUME LineInv, kstatus = "ok", reader = "init", NEW key \in Key, StoreKey(key), rps_buf' = rps_buf
  PROVE  LineInv'
<1>1. /\ kbhb_index' = kbhb_index + 1 /\ typed' = Append(typed, key) /\ ran' = NotRun
      /\ reader' = reader /\ erased' = erased /\ under' = under
  BY DEF StoreKey
<1>2. DOMAIN kbhb = 0..Size - 1 /\ Size \in Nat
  BY ConsoleAssumption DEF LineInv, LineType
<1>3. /\ typed' \in Seq(Key) /\ Len(typed') = Len(typed) + 1 /\ typed'[Len(typed) + 1] = key
      /\ \A i \in 1..Len(typed) : typed'[i] = typed[i]
  BY <1>1 DEF LineInv, LineType
<1>4. CASE kbhb_index \in 0..Size - 1
  <2>1. kbhb' = [kbhb EXCEPT ![kbhb_index] = key] /\ kstatus' = kstatus
    BY <1>2, <1>4 DEF StoreKey, Outside
  <2>2. LineType'
    BY <1>1, <1>3, <1>4, <2>1 DEF LineInv, LineType
  <2>3. ASSUME ~under, NEW i \in 0..Size - 1, i < Len(typed') PROVE kbhb'[i] = typed'[i + 1]
    <3>1. kbhb_index = Len(typed) /\ (i < Len(typed) => kbhb[i] = typed[i + 1])
      BY <2>3 DEF LineInv, LineHeld
    <3>2. CASE i = Len(typed)
      BY <1>3, <2>1, <3>1, <3>2 DEF LineInv, LineType
    <3>3. CASE i # Len(typed)
      <4>1. i < Len(typed) /\ i + 1 \in 1..Len(typed)
        BY <1>3, <2>3, <3>3 DEF LineInv, LineType
      <4> QED BY <1>3, <2>1, <3>1, <4>1 DEF LineInv, LineType
    <3> QED BY <3>2, <3>3
  <2>4. ASSUME ~erased, NEW i \in 0..Size - 1, i >= Len(typed') PROVE kbhb'[i] = NUL
    <3>1. kbhb_index = Len(typed) /\ kbhb[i] = NUL
      BY <1>3, <2>4 DEF LineInv, LineHeld, LineType, Clear
    <3> QED BY <1>3, <2>1, <2>4, <3>1 DEF LineInv, LineType
  <2>5. LineHeld'
    BY <1>1, <1>3, <2>3, <2>4 DEF LineInv, LineHeld, LineType, Clear
  <2> QED BY <1>1, <2>1, <2>2, <2>5 DEF LineInv, WildOnly, RanInv
<1>5. CASE kbhb_index \notin 0..Size - 1
  <2>1. kbhb' = kbhb /\ kstatus' = "wild"
    BY <1>2, <1>5 DEF StoreKey, Outside
  <2>2. LineType'
    BY <1>1, <1>3, <2>1 DEF LineInv, LineType
  <2>3. ~under => Len(typed) >= Size
    BY <1>2, <1>5 DEF LineInv, LineHeld, LineType
  <2>4. ASSUME ~under, NEW i \in 0..Size - 1, i < Len(typed') PROVE kbhb'[i] = typed'[i + 1]
    <3>1. i < Len(typed) /\ i + 1 \in 1..Len(typed)
      BY <1>2, <2>3, <2>4 DEF LineInv, LineType
    <3> QED BY <1>3, <2>1, <2>4, <3>1 DEF LineInv, LineHeld
  <2>5. ASSUME ~erased, NEW i \in 0..Size - 1, i >= Len(typed') PROVE kbhb'[i] = NUL
    BY <1>3, <2>1, <2>5 DEF LineInv, LineHeld, LineType, Clear
  <2>6. LineHeld'
    BY <1>1, <1>3, <2>4, <2>5 DEF LineInv, LineHeld, LineType, Clear
  <2>7. WildOnly'
    BY <1>1, <1>2, <1>3, <2>3 DEF WildOnly, LineInv, LineType
  <2> QED BY <1>1, <2>2, <2>6, <2>7 DEF LineInv, RanInv
<1> QED BY <1>4, <1>5

LEMMA FrontKeys ==
  ASSUME NEW s \in Seq(Key), NEW t, t = (IF s = <<>> THEN <<>> ELSE Front(s))
  PROVE  /\ t \in Seq(Key)
         /\ s # <<>> => Len(t) = Len(s) - 1 /\ \A i \in 1..Len(s) - 1 : t[i] = s[i]
<1>1. CASE s = <<>>
  BY <1>1
<1>2. CASE s # <<>>
  <2>1. t = SubSeq(s, 1, Len(s) - 1)
    BY <1>2 DEF Front
  <2>2. Len(s) # 0 /\ Len(s) \in Nat
    BY <1>2
  <2> QED BY <2>1, <2>2
<1> QED BY <1>1, <1>2

LEMMA KeyTakenBack ==
  ASSUME LineInv, kstatus = "ok", reader = "init", Backspace, rps_buf' = rps_buf
  PROVE  LineInv'
<1>1. /\ kbhb_index' = kbhb_index - 1 /\ typed' = (IF typed = <<>> THEN <<>> ELSE Front(typed))
      /\ under' = (under \/ typed = <<>>) /\ erased' = TRUE /\ ran' = NotRun
      /\ reader' = reader /\ kbhb' = kbhb /\ kstatus' = kstatus
  BY DEF Backspace
<1>2. /\ typed' \in Seq(Key)
      /\ typed # <<>> => /\ Len(typed') = Len(typed) - 1
                         /\ \A i \in 1..Len(typed) - 1 : typed'[i] = typed[i]
  <2>1. typed \in Seq(Key)
    BY DEF LineInv, LineType
  <2> QED BY <1>1, <2>1, FrontKeys
<1>3. LineType'
  BY <1>1, <1>2 DEF LineInv, LineType
<1>4. ASSUME ~under'
      PROVE  kbhb_index' = Len(typed') /\ \A i \in 0..Size - 1 : i < Len(typed') => kbhb'[i] = typed'[i + 1]
  <2>1. ~under /\ typed # <<>>
    BY <1>1, <1>4
  <2>2. kbhb_index = Len(typed) /\ \A i \in 0..Size - 1 : i < Len(typed) => kbhb[i] = typed[i + 1]
    BY <2>1 DEF LineInv, LineHeld
  <2>3. Len(typed') = Len(typed) - 1 /\ \A i \in 1..Len(typed) - 1 : typed'[i] = typed[i]
    BY <1>2, <2>1
  <2>4. ASSUME NEW i \in 0..Size - 1, i < Len(typed') PROVE kbhb'[i] = typed'[i + 1]
    <3>1. i + 1 \in 1..Len(typed) - 1 /\ i < Len(typed)
      BY <1>2, <2>3, <2>4 DEF LineInv, LineType
    <3> QED BY <1>1, <2>2, <2>3, <2>4, <3>1
  <2> QED BY <1>1, <2>2, <2>3, <2>4
<1>5. LineHeld'
  BY <1>1, <1>4 DEF LineHeld
<1> QED BY <1>1, <1>3, <1>5 DEF LineInv, WildOnly, RanInv

LEMMA LineEntered ==
  ASSUME LineInv, kstatus = "ok", reader = "init", Enter, rps_buf' = rps_buf
  PROVE  LineInv'
<1>1. DOMAIN kbhb = 0..Size - 1 /\ Size \in Nat
  BY ConsoleAssumption DEF LineInv, LineType
<1>2. CASE kbhb_index \in 0..Size - 1
  <2> DEFINE b == [kbhb EXCEPT ![kbhb_index] = NUL]
  <2>1. RunLine(b)
    BY <1>1, <1>2 DEF Enter, Outside
  <2>2. b \in [0..Size - 1 -> Key] /\ b[kbhb_index] = NUL /\ \A i \in 0..Size - 1 : i # kbhb_index => b[i] = kbhb[i]
    BY <1>2, EmptyKeys DEF LineInv, LineType
  <2> HIDE DEF b
  <2>3. ASSUME ~under PROVE Holds(b, Size, typed)
    <3>1. kbhb_index = Len(typed) /\ \A i \in 0..Size - 1 : i < Len(typed) => kbhb[i] = typed[i + 1]
      BY <2>3 DEF LineInv, LineHeld
    <3>2. ASSUME NEW i \in 0..Len(typed) - 1 PROVE b[i] = typed[i + 1]
      BY <1>1, <1>2, <2>2, <3>1, <3>2
    <3> QED BY <1>1, <1>2, <2>2, <3>1, <3>2 DEF Holds
  <2>4. ASSUME ~erased PROVE Clear(b, Size, typed)
    BY <2>2, <2>4 DEF Clear, LineInv, LineHeld
  <2> QED BY <2>1, <2>3, <2>4, LineRuns DEF LineInv, LineHeld
<1>3. CASE kbhb_index \notin 0..Size - 1
  <2>1. kstatus' = "wild" /\ UNCHANGED <<reader, kbhb, kbhb_index, typed, erased, under, ran>>
    BY <1>1, <1>3 DEF Enter, Outside
  <2>2. ~under => Len(typed) >= Size
    BY <1>1, <1>3 DEF LineInv, LineHeld, LineType
  <2>3. LineType'
    BY <2>1 DEF LineInv, LineType
  <2>4. LineHeld'
    BY <2>1 DEF LineInv, LineHeld
  <2> QED BY <2>1, <2>2, <2>3, <2>4 DEF LineInv, WildOnly, RanInv
<1> QED BY <1>2, <1>3

LEMMA NothingTyped ==
  ASSUME LineInv, UNCHANGED <<reader, kbhb, kbhb_index, typed, erased, under>>, ran' = NotRun,
         kstatus = "ok", rps_buf' \in Seq(Key),
         kstatus' = "ok" \/ (kstatus' = "wild" /\ Len(rps_buf') >= RpsSize)
  PROVE  LineInv'
<1>1. LineType' /\ LineHeld' /\ WildOnly'
  BY DEF LineInv, LineType, LineHeld, WildOnly
<1> QED BY <1>1 DEF LineInv, RanInv

LEMMA GamePlayed ==
  ASSUME LineInv, kstatus = "ok", reader = "rps", NEW key \in Key, rps_handler(key)
  PROVE  LineInv'
<1> USE DEF KeyIgnored
<1>1. RpsSize \in Nat /\ rps_buf \in Seq(Key)
  BY ConsoleAssumption DEF LineInv, LineType
<1>2. CASE key = "O300"
  <2>1. KeyIgnored /\ UNCHANGED <<rps_buf, score>>
    BY <1>2 DEF rps_handler
  <2> QED BY <1>1, <2>1, NothingTyped
<1>3. CASE key \notin {"O300", "NL"}
  <2>1. /\ rps_buf' = Append(rps_buf, key) /\ UNCHANGED <<reader, kbhb, kbhb_index, typed, erased, under>>
        /\ ran' = NotRun /\ kstatus' = IF Len(rps_buf) >= RpsSize THEN "wild" ELSE kstatus
    BY <1>3 DEF rps_handler
  <2>2. rps_buf' \in Seq(Key) /\ Len(rps_buf') = Len(rps_buf) + 1
    BY <1>1, <2>1
  <2>3. kstatus' = "ok" \/ (kstatus' = "wild" /\ Len(rps_buf') >= RpsSize)
    BY <1>1, <2>1, <2>2
  <2> QED BY <2>1, <2>2, <2>3, NothingTyped
<1>4. CASE key = "NL" /\ Len(rps_buf) >= RpsSize
  <2>1. kstatus' = "wild" /\ UNCHANGED <<rps_buf, score, reader, kbhb, kbhb_index, typed, erased, under, ran>>
    BY <1>4 DEF rps_handler
  <2>2. LineType' /\ LineHeld' /\ WildOnly'
    BY <1>4, <2>1 DEF LineInv, LineType, LineHeld, WildOnly
  <2> QED BY <2>1, <2>2 DEF LineInv, RanInv
<1>5. CASE key = "NL" /\ ~(Len(rps_buf) >= RpsSize)
  <2>1. \/ RunLine([kbhb EXCEPT ![kbhb_index] = NUL]) /\ UNCHANGED <<rps_buf, score>>
        \/ /\ rps_buf' = <<>> /\ UNCHANGED <<kstatus, reader, kbhb, kbhb_index, typed, erased, under>>
           /\ ran' = NotRun
    BY <1>5 DEF rps_handler
  <2>2. CASE RunLine([kbhb EXCEPT ![kbhb_index] = NUL]) /\ UNCHANGED <<rps_buf, score>>
    <3>1. kbhb = Zeroed /\ typed = <<>> /\ ~erased /\ ~under
      BY DEF LineInv, LineHeld
    <3>2. [kbhb EXCEPT ![kbhb_index] = NUL] = Zeroed
      BY <3>1 DEF Zeroed
    <3>3. RunLine(Zeroed)
      BY <2>2, <3>2
    <3>4. Holds(Zeroed, Size, typed) /\ Clear(Zeroed, Size, typed)
      BY <3>1, ZeroedHolds
    <3>5. LineType
      BY DEF LineInv
    <3> QED BY <2>2, <3>1, <3>3, <3>4, <3>5, LineRuns
  <2>3. CASE /\ rps_buf' = <<>> /\ UNCHANGED <<kstatus, reader, kbhb, kbhb_index, typed, erased, under>>
             /\ ran' = NotRun
    BY <2>3, EmptyKeys, NothingTyped
  <2> QED BY <2>1, <2>2, <2>3
<1> QED BY <1>2, <1>3, <1>4, <1>5

LEMMA LineKept == ASSUME LineInv, [ConsoleNext]_convars PROVE LineInv'
<1>1. CASE UNCHANGED convars
  <2>1. UNCHANGED <<reader, kbhb, kbhb_index, typed, erased, under, ran, rps_buf, kstatus>>
    BY <1>1 DEF convars, linevars
  <2>2. LineType' /\ LineHeld' /\ WildOnly'
    BY <2>1 DEF LineInv, LineType, LineHeld, WildOnly
  <2> QED BY <2>1, <2>2 DEF LineInv, RanInv
<1>2. ASSUME NEW sc \in Scancodes, process_kbh(sc) PROVE LineInv'
  <2>1. kstatus = "ok" /\ reader # "none"
    BY <1>2 DEF process_kbh
  <2>2. PICK key \in KeysOf(sc) : IF reader = "init" THEN handler(key, sc) ELSE rps_handler(key)
    BY <1>2 DEF process_kbh
  <2>3. key \in Key
    BY KeysTyped
  <2>4. CASE reader = "rps"
    BY <2>1, <2>2, <2>3, <2>4, GamePlayed
  <2>5. CASE reader = "init"
    <3>1. handler(key, sc) /\ rps_buf' = rps_buf
      BY <2>2, <2>5 DEF handler
    <3>2. KeyIgnored \/ Backspace \/ Enter \/ StoreKey(key)
      BY <3>1 DEF handler
    <3>3. CASE KeyIgnored
      <4>1. rps_buf' \in Seq(Key)
        BY <3>1 DEF LineInv, LineType
      <4> QED BY <2>1, <3>3, <4>1, NothingTyped DEF KeyIgnored
    <3>4. CASE Backspace
      BY <2>1, <2>5, <3>1, <3>4, KeyTakenBack
    <3>5. CASE Enter
      BY <2>1, <2>5, <3>1, <3>5, LineEntered
    <3>6. CASE StoreKey(key)
      BY <2>1, <2>3, <2>5, <3>1, <3>6, KeyStored
    <3> QED BY <3>2, <3>3, <3>4, <3>5, <3>6
  <2>6. reader \in {"init", "rps"}
    BY <2>1 DEF LineInv, LineType
  <2> QED BY <2>4, <2>5, <2>6
<1> QED BY <1>1, <1>2 DEF ConsoleNext

LEMMA LineStarts == ConsoleInit => LineInv
<1>1. SUFFICES ASSUME ConsoleInit PROVE LineInv
  OBVIOUS
<1>2. /\ reader = "init" /\ kbhb = Zeroed /\ kbhb_index = 0 /\ rps_buf = <<>>
      /\ typed = <<>> /\ erased = FALSE /\ under = FALSE /\ ran = NotRun /\ kstatus = "ok"
  BY <1>1 DEF ConsoleInit
<1>3. LineType
  <2>1. kbhb \in [0..Size - 1 -> Key] /\ typed \in Seq(Key) /\ kbhb_index \in Int /\ rps_buf \in Seq(Key)
    BY <1>2, ZeroedHolds
  <2>2. kstatus \in {"ok", "wild"} /\ reader \in {"init", "rps", "none"} /\ erased \in BOOLEAN /\ under \in BOOLEAN
    BY <1>2
  <2> QED BY <2>1, <2>2 DEF LineType
<1>4. LineHeld
  BY <1>2, ZeroedHolds, ConsoleAssumption DEF LineHeld
<1> QED BY <1>2, <1>3, <1>4 DEF LineInv, WildOnly, RanInv

LEMMA LineProved == LineInv => LineAsTyped /\ CommandAsTyped
  BY DEF LineInv, WildOnly, RanInv, RanRight, LineAsTyped, CommandAsTyped

-----------------------------------------------------------------------------
(* The program shell. *)

\* echo prints the line from behind the name up to the index.
LEMMA RawRest ==
  ASSUME NEW b, NEW N \in Nat, NEW t \in Seq(Key), Holds(b, N, t), NEW name \in Seq(Key)
  PROVE  Raw(b, Len(name) + 1, Len(t)) = Argument(t, name)
<1> DEFINE f == Len(name) + 1
<1>1. Len(t) \in Nat /\ f \in Nat
  OBVIOUS
<1>2. CASE Len(t) <= f
  BY <1>1, <1>2 DEF Raw, Argument
<1>3. CASE Len(t) > f
  <2>1. Raw(b, f, Len(t)) = [i \in 1..Len(t) - f |-> b[f + i - 1]]
    BY <1>1, <1>3 DEF Raw
  <2>2. Argument(t, name) = SubSeq(t, f + 1, Len(t))
    BY <1>1, <1>3 DEF Argument
  <2>3. SubSeq(t, f + 1, Len(t)) = [i \in 1..Len(t) - f |-> t[f + i]]
    BY <1>1, <1>3
  <2>4. ASSUME NEW i \in 1..Len(t) - f PROVE b[f + i - 1] = t[f + i]
    <3>1. f + i - 1 \in 0..Len(t) - 1 /\ (f + i - 1) + 1 = f + i
      BY <1>1
    <3> QED BY <3>1 DEF Holds
  <2> QED BY <2>1, <2>2, <2>3, <2>4
<1> QED BY <1>2, <1>3

LEMMA Interpreted ==
  ASSUME NEW s \in Seq(Key), NEW c \in DOMAIN Sooner, IsPrefix(ShellName[c], s),
         \A e \in Sooner[c] : Occurs(s, ShellName[e]) = {}
  PROVE  Interpret(s).command = c /\ Interpret(s).arg = Len(ShellName[c]) + 1
<1>1. c \in {"echo", "ls", "cd", "mount", "cat", "write"}
  BY DEF Sooner
<1>2. ShellName[c] \in Seq(Key) /\ ShellName.mount \in Seq(Key)
  BY <1>1, ShellAssumption
<1>3. s # ShellName.exit /\ s # ShellName.other
  BY <1>1, ShellAssumption
<1>4. Occurs(s, ShellName[c]) # {} /\ Behind(s, ShellName[c]) = Len(ShellName[c]) + 1
  <2>1. strstr(s, ShellName[c]) = 0 /\ Len(ShellName[c]) \in Nat
    BY <1>2, FoundFirst
  <2> QED BY <1>2, <2>1, FoundFirst DEF Behind
<1>5. ASSUME c \in {"cat", "write"} PROVE ~IsPrefix(ShellName.mount, s)
  <2>1. Apart(ShellName.mount, ShellName[c])
    BY <1>5, ShellAssumption
  <2> QED BY <1>2, <2>1, PrefixesAgree
<1>6. c # "echo" => Occurs(s, ShellName.echo) = {}
  <2>1. c # "echo" => "echo" \in Sooner[c]
    BY <1>1 DEF Sooner
  <2> QED BY <2>1
<1>7. c \notin {"echo", "ls"} => Occurs(s, ShellName.ls) = {}
  <2>1. c \notin {"echo", "ls"} => "ls" \in Sooner[c]
    BY <1>1 DEF Sooner
  <2> QED BY <2>1
<1>8. c \notin {"echo", "ls", "cd"} => Occurs(s, ShellName.cd) = {}
  <2>1. c \notin {"echo", "ls", "cd"} => "cd" \in Sooner[c]
    BY <1>1 DEF Sooner
  <2> QED BY <2>1
<1>9. c = "write" => Occurs(s, ShellName.cat) = {}
  BY <1>1 DEF Sooner
<1>10. CASE c = "echo"
  <2>1. Interpret(s) = [command |-> "echo", arg |-> Len(ShellName.echo) + 1]
    BY <1>3, <1>4, <1>10 DEF Interpret
  <2> QED BY <1>10, <2>1
<1>11. CASE c = "ls"
  <2>1. Interpret(s) = [command |-> "ls", arg |-> Behind(s, ShellName.ls)]
    BY <1>3, <1>4, <1>6, <1>11 DEF Interpret
  <2> QED BY <1>4, <1>11, <2>1
<1>12. CASE c = "cd"
  <2>1. Interpret(s) = [command |-> "cd", arg |-> Behind(s, ShellName.cd)]
    BY <1>3, <1>4, <1>6, <1>7, <1>12 DEF Interpret
  <2> QED BY <1>4, <1>12, <2>1
<1>13. CASE c = "mount"
  <2>1. Interpret(s) = [command |-> "mount", arg |-> Len(ShellName.mount) + 1]
    BY <1>3, <1>6, <1>7, <1>8, <1>13 DEF Interpret
  <2> QED BY <1>13, <2>1
<1>14. CASE c = "cat"
  <2>1. Interpret(s) = [command |-> "cat", arg |-> Behind(s, ShellName.cat)]
    BY <1>3, <1>4, <1>5, <1>6, <1>7, <1>8, <1>14 DEF Interpret
  <2> QED BY <1>4, <1>14, <2>1
<1>15. CASE c = "write"
  <2>1. Interpret(s) = [command |-> "write", arg |-> Len(ShellName.write) + 1]
    BY <1>3, <1>5, <1>6, <1>7, <1>8, <1>9, <1>15 DEF Interpret
  <2> QED BY <1>15, <2>1
<1> QED BY <1>1, <1>10, <1>11, <1>12, <1>13, <1>14, <1>15

\* The argument of write is split at its first space.
IsBlank(a, n) == (n <= Len(a) => a[n] = Space) /\ \A k \in 1..n - 1 : a[k] # Space

Parted(a) ==
  LET n == CHOOSE k \in 1..Len(a) + 1 : IsBlank(a, k)
  IN  <<SubSeq(a, 1, n - 1), SubSeq(a, n + 1, Len(a))>>

LEMMA Written ==
  ASSUME NEW b, NEW N \in Nat, N = BufferSize, NEW t \in Seq(Key), Holds(b, N, t), Clear(b, N, t),
         NEW name \in Seq(Key), Spaces(b, Len(name) + 1) # {}
  PROVE  WriteArgs(b, Len(name) + 1, Len(t)) = Parted(Argument(t, name))
<1> DEFINE f == Len(name) + 1
           a == Argument(t, name)
           S == Spaces(b, f)
<1>1. Len(t) \in Nat /\ Len(t) < N
  BY DEF Holds
<1>0. f \in Nat /\ f - 1 = Len(name) /\ N \in Nat
  OBVIOUS
<1> HIDE DEF f
<1>2. S \in SUBSET Nat
  <2>1. ASSUME NEW x \in S PROVE x \in f..N - 1
    BY <2>1 DEF Spaces
  <2> QED BY <1>0, <2>1
<1>3. PICK i \in S : \A k \in S : i <= k
  <2>1. S # {}
    BY DEF f
  <2> QED BY <1>2, <2>1, LeastIn
<1>4. i = CHOOSE j \in S : \A k \in S : j <= k
  BY <1>2, <1>3
<1>5. WriteArgs(b, f, Len(t)) = <<Raw(b, f, i), Raw(b, i + 1, Len(t))>>
  BY <1>4 DEF WriteArgs
<1>6. i \in f..N - 1 /\ b[i] = Space
  BY <1>3 DEF Spaces
<1>7. i < Len(t)
  <2>1. NUL # Space
    BY Zenon DEF NUL, Space
  <2>2. i \in 0..N - 1
    BY <1>0, <1>6
  <2>3. ~(i >= Len(t))
    BY <1>6, <2>1, <2>2 DEF Clear
  <2> QED BY <1>1, <2>2, <2>3
<1>8. /\ a \in Seq(Key) /\ Len(a) = Len(t) - f
      /\ \A j \in 1..Len(a) : a[j] = b[f + j - 1]
  <2>1. a = SubSeq(t, f + 1, Len(t))
    BY <1>0, <1>1, <1>6, <1>7 DEF Argument, f
  <2>2. a \in Seq(Key) /\ Len(a) = Len(t) - f /\ \A j \in 1..Len(a) : a[j] = t[f + j]
    BY <1>0, <1>1, <1>6, <1>7, <2>1
  <2> HIDE DEF a
  <2>3. ASSUME NEW j \in 1..Len(a) PROVE a[j] = b[f + j - 1]
    <3>1. f + j - 1 \in 0..Len(t) - 1 /\ (f + j - 1) + 1 = f + j
      BY <1>0, <1>1, <2>2
    <3>2. b[f + j - 1] = t[f + j]
      BY <3>1 DEF Holds
    <3> QED BY <2>2, <3>2
  <2> QED BY <2>2, <2>3
<1> HIDE DEF a
<1> DEFINE n == i - f + 1
<1>9. n \in 1..Len(a) /\ f + n - 1 = i
  BY <1>0, <1>1, <1>6, <1>7, <1>8
<1>10. a[n] = Space
  BY <1>6, <1>8, <1>9
<1>11. ASSUME NEW k \in 1..n - 1 PROVE a[k] # Space
  <2>1. f + k - 1 \in f..N - 1 /\ f + k - 1 < i /\ k \in 1..Len(a)
    BY <1>0, <1>1, <1>6, <1>9
  <2>2. f + k - 1 \notin S
    BY <1>2, <1>3, <2>1
  <2>3. b[f + k - 1] # Space
    BY <2>1, <2>2 DEF Spaces
  <2> QED BY <1>8, <2>1, <2>3
<1>12. n \in 1..Len(a) + 1 /\ IsBlank(a, n)
  BY <1>8, <1>9, <1>10, <1>11 DEF IsBlank
<1>13. ASSUME NEW m \in 1..Len(a) + 1, IsBlank(a, m) PROVE m = n
  <2>1. ~(m < n)
    <3>1. m < n => m \in 1..n - 1 /\ m <= Len(a)
      BY <1>9
    <3> QED BY <1>11, <1>13, <3>1 DEF IsBlank
  <2>2. ~(n < m)
    <3>1. n < m => n \in 1..m - 1
      BY <1>9
    <3> QED BY <1>10, <1>13, <3>1 DEF IsBlank
  <2> QED BY <1>9, <2>1, <2>2
<1>14. n = CHOOSE m \in 1..Len(a) + 1 : IsBlank(a, m)
  BY <1>12, <1>13
<1>15. Parted(a) = <<SubSeq(a, 1, n - 1), SubSeq(a, n + 1, Len(a))>>
  BY <1>14 DEF Parted
<1>16. Raw(b, f, i) = SubSeq(a, 1, n - 1)
  <2>1. Raw(b, f, i) = [j \in 1..n - 1 |-> b[f + j - 1]]
    <3>1. (IF i > f THEN i - f ELSE 0) = n - 1
      BY <1>0, <1>1, <1>6
    <3> QED BY <3>1 DEF Raw
  <2>2. SubSeq(a, 1, n - 1) = [j \in 1..n - 1 |-> a[j]]
    BY <1>0, <1>1, <1>8, <1>9
  <2>3. ASSUME NEW j \in 1..n - 1 PROVE b[f + j - 1] = a[j]
    BY <1>0, <1>1, <1>8, <1>9
  <2> QED BY <2>1, <2>2, <2>3
<1>17. Raw(b, i + 1, Len(t)) = SubSeq(a, n + 1, Len(a))
  <2>1. Raw(b, i + 1, Len(t)) = [j \in 1..Len(a) - n |-> b[i + 1 + j - 1]]
    <3>1. i \in Nat /\ Len(a) - n = Len(t) - (i + 1)
      BY <1>0, <1>1, <1>6, <1>8
    <3>2. (IF Len(t) > i + 1 THEN Len(t) - (i + 1) ELSE 0) = Len(t) - (i + 1)
      BY <1>1, <1>7, <3>1
    <3>3. (IF Len(t) > i + 1 THEN Len(t) - (i + 1) ELSE 0) = Len(a) - n
      BY <3>1, <3>2
    <3> QED BY <3>3 DEF Raw
  <2>2. SubSeq(a, n + 1, Len(a)) = [j \in 1..Len(a) - n |-> a[n + j]]
    <3>1. PICK m : m = n
      OBVIOUS
    <3>2. m \in 1..Len(a) /\ Len(a) \in Nat
      BY <1>8, <1>9, <3>1
    <3>3. SubSeq(a, m + 1, Len(a)) = [j \in 1..Len(a) - m |-> a[m + j]]
      BY <1>8, <3>2
    <3> QED BY <3>1, <3>3
  <2>3. ASSUME NEW j \in 1..Len(a) - n PROVE b[i + 1 + j - 1] = a[n + j]
    <3>1. n + j \in 1..Len(a) /\ f + (n + j) - 1 = i + 1 + j - 1
      BY <1>0, <1>1, <1>6, <1>8, <1>9
    <3> QED BY <1>8, <3>1
  <2> QED BY <2>1, <2>2, <2>3
<1> QED BY <1>5, <1>15, <1>16, <1>17 DEF f, a

ShellRight(r, ended) ==
  ~r.around =>
    /\ r.text = BeforeNul(r.typed)
    /\ (~r.erased /\ r.text = r.typed) =>
         \A c \in DOMAIN Sooner :
           (IsPrefix(ShellName[c], r.text) /\ \A e \in Sooner[c] : Occurs(r.text, ShellName[e]) = {})
             => /\ r.command = c
                /\ ended = "run" => r.arg = ArgumentOf(c, r.text)

\* the argument that shell_interpreter takes from b, with the index at
Lost(b, d) == d.command = "write" /\ Spaces(b, d.arg) = {}
Taken(b, d, at) ==
  CASE Lost(b, d) -> <<>>
    [] d.command = "echo" -> Raw(b, d.arg, at)
    [] d.command = "write" /\ ~Lost(b, d) -> WriteArgs(b, d.arg, at)
    [] OTHER -> Text(b, d.arg)

LEMMA TakenRight ==
  ASSUME NEW b, NEW t \in Seq(Key), Holds(b, BufferSize, t), Clear(b, BufferSize, t), \A j \in 1..Len(t) : t[j] # NUL,
         NEW c \in DOMAIN Sooner, NEW d, d.command = c, d.arg = Len(ShellName[c]) + 1, ~Lost(b, d),
         IsPrefix(ShellName[c], t)
  PROVE  Taken(b, d, Len(t)) = ArgumentOf(c, t)
<1>1. c \in {"echo", "ls", "cd", "mount", "cat", "write"} /\ BufferSize \in Nat
  BY ShellAssumption DEF Sooner
<1>2. PICK name \in Seq(Key) : name = ShellName[c]
  BY <1>1, ShellAssumption
<1>3. Len(name) <= Len(t)
  BY <1>2, FoundFirst
<1>4. CASE c = "write"
  <2>1. Taken(b, d, Len(t)) = WriteArgs(b, Len(name) + 1, Len(t))
    BY <1>2, <1>4 DEF Taken
  <2>2. Spaces(b, Len(name) + 1) # {}
    BY <1>2, <1>4 DEF Lost
  <2>3. WriteArgs(b, Len(name) + 1, Len(t)) = Parted(Argument(t, name))
    BY <1>1, <2>2, Written
  <2>4. ArgumentOf(c, t) = Parted(Argument(t, name))
    BY <1>2, <1>4, Zenon DEF ArgumentOf, Parted, IsBlank
  <2> QED BY <2>1, <2>3, <2>4
<1>5. ASSUME c # "write" PROVE ArgumentOf(c, t) = Argument(t, name)
  BY <1>2, <1>5, Zenon DEF ArgumentOf
<1>6. CASE c = "echo"
  <2>1. Taken(b, d, Len(t)) = Raw(b, Len(name) + 1, Len(t))
    BY <1>2, <1>6 DEF Taken
  <2> QED BY <1>1, <1>5, <1>6, <2>1, RawRest
<1>7. CASE c \notin {"echo", "write"}
  <2>1. Taken(b, d, Len(t)) = Text(b, Len(name) + 1)
    BY <1>2, <1>7 DEF Taken
  <2>2. Text(b, Len(name) + 1) = Argument(t, name)
    BY <1>1, <1>3, Rest
  <2> QED BY <1>5, <1>7, <2>1, <2>2
<1> QED BY <1>4, <1>6, <1>7

\* what shell_interpreter makes of b
ShellRunOf(b, at, t, er, ar) ==
  [command |-> Interpret(Text(b, 0)).command, text |-> Text(b, 0), arg |-> Taken(b, Interpret(Text(b, 0)), at),
   typed |-> t, erased |-> er, around |-> ar]

LEMMA ShellRan ==
  ASSUME NEW b, NEW t \in Seq(Key), NEW at, NEW er \in BOOLEAN, NEW ar \in BOOLEAN, NEW ended,
         ~ar => Holds(b, BufferSize, t) /\ at = Len(t), ~er /\ ~ar => Clear(b, BufferSize, t),
         ended = "run" => ~Lost(b, Interpret(Text(b, 0)))
  PROVE  ShellRight(ShellRunOf(b, at, t, er, ar), ended)
<1> DEFINE r == ShellRunOf(b, at, t, er, ar)
<1>1. /\ r.around = ar /\ r.erased = er /\ r.typed = t /\ r.text = Text(b, 0)
      /\ r.command = Interpret(Text(b, 0)).command /\ r.arg = Taken(b, Interpret(Text(b, 0)), at)
  BY DEF ShellRunOf
<1> HIDE DEF r
<1>2. BufferSize \in Nat
  BY ShellAssumption
<1>3. SUFFICES ASSUME ~r.around PROVE ShellRight(r, ended)
  BY Zenon DEF ShellRight, r
<1>4. ~ar /\ Holds(b, BufferSize, t) /\ at = Len(t)
  BY <1>1, <1>3
<1>5. r.text = BeforeNul(r.typed)
  BY <1>1, <1>2, <1>4, LineText
<1>6. ASSUME ~r.erased, r.text = r.typed, NEW c \in DOMAIN Sooner, IsPrefix(ShellName[c], r.text),
             \A e \in Sooner[c] : Occurs(r.text, ShellName[e]) = {}
      PROVE  r.command = c /\ (ended = "run" => r.arg = ArgumentOf(c, r.text))
  <2>1. Text(b, 0) = t /\ BeforeNul(t) = t /\ ~er /\ r.text = t
    BY <1>1, <1>5, <1>6
  <2>2. IsPrefix(ShellName[c], t)
    BY <1>6, <2>1
  <2>3. \A e \in Sooner[c] : Occurs(t, ShellName[e]) = {}
    BY <1>6, <2>1
  <2>4. Interpret(t).command = c /\ Interpret(t).arg = Len(ShellName[c]) + 1
    BY <2>2, <2>3, Interpreted
  <2>5. PICK n \in 0..Len(t) : BeforeNul(t) = SubSeq(t, 1, n) /\ \A i \in 1..n : t[i] # NUL
    BY BeforeNulIs
  <2>6. n = Len(t)
    BY <2>1, <2>5
  <2>7. \A j \in 1..Len(t) : t[j] # NUL
    BY <2>5, <2>6
  <2>8. Clear(b, BufferSize, t)
    BY <1>4, <2>1
  <2>9. ASSUME ended = "run" PROVE Taken(b, Interpret(t), Len(t)) = ArgumentOf(c, t)
    <3>1. ~Lost(b, Interpret(t))
      BY <2>1, <2>9
    <3> QED BY <1>4, <2>2, <2>4, <2>7, <2>8, <3>1, TakenRight
  <2> QED BY <1>1, <1>4, <2>1, <2>4, <2>9
<1> QED BY <1>5, <1>6, Zenon DEF ShellRight

ShellType ==
  /\ shell_buffer \in [0..BufferSize - 1 -> Key] /\ shell_buffer_index \in 0..BufferSize - 1
  /\ styped \in Seq(Key) /\ serased \in BOOLEAN /\ around \in BOOLEAN
ShellHeld ==
  ~around =>
    /\ shell_buffer_index = Len(styped)
    /\ \A i \in 0..Len(styped) - 1 : shell_buffer[i] = styped[i + 1]
    /\ ~serased => Clear(shell_buffer, BufferSize, styped)
ShellRanInv == sran = NotRun \/ ShellRight(sran, sstatus)
ShellInv == ShellType /\ ShellHeld /\ ShellRanInv

LEMMA Turned ==
  ASSUME NEW B \in Nat \ {0}, NEW i \in 0..B - 1
  PROVE  /\ (i + 1) % B \in 0..B - 1 /\ (i # B - 1 => (i + 1) % B = i + 1)
         /\ (i - 1 + B) % B \in 0..B - 1 /\ (i # 0 => (i - 1 + B) % B = i - 1)
<1>1. (i + 1) % B \in 0..B - 1 /\ (i - 1 + B) % B \in 0..B - 1
  OBVIOUS
<1>2. i # B - 1 => (i + 1) % B = i + 1
  OBVIOUS
<1>3. i # 0 => (i - 1 + B) % B = i - 1
  OBVIOUS
<1> QED BY <1>1, <1>2, <1>3

LEMMA ClearedKeys == Cleared \in [0..BufferSize - 1 -> Key] /\ 0 \in 0..BufferSize - 1
<1>1. BufferSize \in Nat \ {0}
  BY ShellAssumption
<1> QED BY <1>1, EmptyKeys DEF Cleared

LEMMA ShellEntered ==
  ASSUME ShellInv, sstatus = "run", shell_interpreter([shell_buffer EXCEPT ![shell_buffer_index] = NUL])
  PROVE  ShellInv'
<1> DEFINE b == [shell_buffer EXCEPT ![shell_buffer_index] = NUL]
<1>1. BufferSize \in Nat \ {0}
  BY ShellAssumption
<1>2. /\ b \in [0..BufferSize - 1 -> Key] /\ b[shell_buffer_index] = NUL
      /\ \A i \in 0..BufferSize - 1 : i # shell_buffer_index => b[i] = shell_buffer[i]
  BY EmptyKeys DEF ShellInv, ShellType
<1>3. shell_interpreter(b)
  OBVIOUS
<1> HIDE DEF b
<1>4. /\ sran' = ShellRunOf(b, shell_buffer_index, styped, serased, around)
      /\ shell_buffer' = Cleared /\ shell_buffer_index' = 0
      /\ styped' = <<>> /\ serased' = FALSE /\ around' = FALSE
  BY <1>3, Zenon DEF shell_interpreter, ClearedAfter, ShellRunOf, Taken, Lost
<1>5. sstatus' = "run" => ~Lost(b, Interpret(Text(b, 0)))
  BY <1>3 DEF shell_interpreter, Lost
<1>6. ASSUME ~around PROVE Holds(b, BufferSize, styped) /\ shell_buffer_index = Len(styped)
  <2>1. shell_buffer_index = Len(styped) /\ \A i \in 0..Len(styped) - 1 : shell_buffer[i] = styped[i + 1]
    BY <1>6 DEF ShellInv, ShellHeld
  <2>2. Len(styped) < BufferSize /\ Len(styped) \in Nat
    BY <1>1, <2>1 DEF ShellInv, ShellType
  <2>3. ASSUME NEW i \in 0..Len(styped) - 1 PROVE b[i] = styped[i + 1]
    BY <1>1, <1>2, <2>1, <2>2, <2>3
  <2> QED BY <1>2, <2>1, <2>2, <2>3 DEF Holds
<1>7. ~serased /\ ~around => Clear(b, BufferSize, styped)
  BY <1>2 DEF Clear, ShellInv, ShellHeld
<1>8. ShellRight(sran', sstatus')
  BY <1>4, <1>5, <1>6, <1>7, ShellRan DEF ShellInv, ShellType
<1>9. ShellType'
  <2>1. serased' \in BOOLEAN /\ around' \in BOOLEAN
    BY <1>4
  <2>2. styped' \in Seq(Key)
    BY <1>4
  <2> QED BY <1>4, <2>1, <2>2, ClearedKeys DEF ShellType
<1>10. ShellHeld'
  BY <1>4 DEF ShellHeld, Clear, Cleared
<1> QED BY <1>8, <1>9, <1>10 DEF ShellInv, ShellRanInv

LEMMA ShellTyped ==
  ASSUME ShellInv, sstatus = "run", NEW c \in Key, TypeKey(c)
  PROVE  ShellInv'
<1>1. BufferSize \in Nat \ {0} /\ shell_buffer_index \in 0..BufferSize - 1 /\ styped \in Seq(Key)
  BY ShellAssumption DEF ShellInv, ShellType
<1>2. shell_buffer' = [shell_buffer EXCEPT ![shell_buffer_index] = c] /\ sran' = NotRun /\ sstatus' = sstatus
  BY DEF TypeKey
<1>3. /\ shell_buffer' \in [0..BufferSize - 1 -> Key] /\ shell_buffer'[shell_buffer_index] = c
      /\ \A i \in 0..BufferSize - 1 : i # shell_buffer_index => shell_buffer'[i] = shell_buffer[i]
  BY <1>2 DEF ShellInv, ShellType
<1>4. CASE c = "BS"
  <2>1. /\ shell_buffer_index' = (shell_buffer_index - 1 + BufferSize) % BufferSize
        /\ styped' = (IF styped = <<>> THEN <<>> ELSE Front(styped))
        /\ serased' = TRUE /\ around' = (around \/ shell_buffer_index = 0)
    BY <1>4 DEF TypeKey
  <2>2. shell_buffer_index' \in 0..BufferSize - 1 /\ (shell_buffer_index # 0 => shell_buffer_index' = shell_buffer_index - 1)
    BY <1>1, <2>1, Turned
  <2>3. /\ styped' \in Seq(Key)
        /\ styped # <<>> => /\ Len(styped') = Len(styped) - 1
                            /\ \A i \in 1..Len(styped) - 1 : styped'[i] = styped[i]
    BY <1>1, <2>1, FrontKeys
  <2>4. ASSUME ~around' PROVE /\ shell_buffer_index' = Len(styped')
                              /\ \A i \in 0..Len(styped') - 1 : shell_buffer'[i] = styped'[i + 1]
    <3>1. /\ shell_buffer_index # 0 /\ shell_buffer_index = Len(styped)
          /\ \A i \in 0..Len(styped) - 1 : shell_buffer[i] = styped[i + 1]
      BY <2>1, <2>4 DEF ShellInv, ShellHeld
    <3>2. styped # <<>>
      BY <3>1
    <3>3. Len(styped') = Len(styped) - 1 /\ \A i \in 1..Len(styped) - 1 : styped'[i] = styped[i]
      BY <2>3, <3>2
    <3>4. ASSUME NEW i \in 0..Len(styped') - 1 PROVE shell_buffer'[i] = styped'[i + 1]
      <4>1. i \in 0..Len(styped) - 1 /\ i \in 0..BufferSize - 1 /\ i # shell_buffer_index /\ i + 1 \in 1..Len(styped) - 1
        BY <1>1, <3>1, <3>3
      <4> QED BY <1>3, <3>1, <3>3, <4>1
    <3> QED BY <2>2, <3>1, <3>3, <3>4
  <2>5. ShellType'
    BY <1>3, <2>1, <2>2, <2>3 DEF ShellInv, ShellType
  <2>6. ShellHeld'
    BY <2>1, <2>4 DEF ShellHeld
  <2> QED BY <1>2, <2>5, <2>6 DEF ShellInv, ShellRanInv
<1>5. CASE c # "BS"
  <2>1. /\ shell_buffer_index' = (shell_buffer_index + 1) % BufferSize
        /\ styped' = Append(styped, c) /\ around' = (around \/ shell_buffer_index = BufferSize - 1)
        /\ serased' = serased
    BY <1>5 DEF TypeKey
  <2>2. shell_buffer_index' \in 0..BufferSize - 1 /\ (shell_buffer_index # BufferSize - 1 => shell_buffer_index' = shell_buffer_index + 1)
    BY <1>1, <2>1, Turned
  <2>3. /\ styped' \in Seq(Key) /\ Len(styped') = Len(styped) + 1 /\ styped'[Len(styped) + 1] = c
        /\ \A i \in 1..Len(styped) : styped'[i] = styped[i]
    BY <1>1, <2>1
  <2>4. ASSUME ~around' PROVE /\ shell_buffer_index' = Len(styped')
                              /\ \A i \in 0..Len(styped') - 1 : shell_buffer'[i] = styped'[i + 1]
                              /\ ~serased => Clear(shell_buffer', BufferSize, styped')
    <3>1. /\ shell_buffer_index # BufferSize - 1 /\ shell_buffer_index = Len(styped)
          /\ \A i \in 0..Len(styped) - 1 : shell_buffer[i] = styped[i + 1]
          /\ ~serased => Clear(shell_buffer, BufferSize, styped)
      BY <2>1, <2>4 DEF ShellInv, ShellHeld
    <3>2. ASSUME NEW i \in 0..Len(styped') - 1 PROVE shell_buffer'[i] = styped'[i + 1]
      <4>1. CASE i = Len(styped)
        BY <1>3, <2>3, <3>1, <4>1
      <4>2. CASE i # Len(styped)
        <5>1. i \in 0..Len(styped) - 1 /\ i \in 0..BufferSize - 1 /\ i # shell_buffer_index /\ i + 1 \in 1..Len(styped)
          BY <1>1, <2>3, <3>1, <4>2
        <5> QED BY <1>3, <2>3, <3>1, <5>1
      <4> QED BY <4>1, <4>2
    <3>3. ASSUME ~serased PROVE Clear(shell_buffer', BufferSize, styped')
      <4>1. ASSUME NEW i \in 0..BufferSize - 1, i >= Len(styped') PROVE shell_buffer'[i] = NUL
        <5>1. i # shell_buffer_index /\ i >= Len(styped)
          BY <1>1, <2>3, <3>1, <4>1
        <5> QED BY <1>3, <3>1, <3>3, <4>1, <5>1 DEF Clear
      <4> QED BY <4>1 DEF Clear
    <3> QED BY <2>2, <2>3, <3>1, <3>2, <3>3
  <2>5. ShellType'
    BY <1>3, <2>1, <2>2, <2>3 DEF ShellInv, ShellType
  <2>6. ShellHeld'
    BY <2>1, <2>4 DEF ShellHeld
  <2> QED BY <1>2, <2>5, <2>6 DEF ShellInv, ShellRanInv
<1> QED BY <1>4, <1>5

LEMMA ShellKept == ASSUME ShellInv, [ShellNext]_shellvars PROVE ShellInv'
<1>1. CASE UNCHANGED shellvars
  BY <1>1 DEF shellvars, ShellInv, ShellType, ShellHeld, ShellRanInv
<1>2. ASSUME NEW sc \in Keys, shell_run(sc) PROVE ShellInv'
  <2>1. sstatus = "run"
    BY <1>2 DEF shell_run
  <2>2. CASE sc >= 80 \/ sc = NumLock
    <3>1. /\ sran' = NotRun
          /\ UNCHANGED <<shell_buffer, shell_buffer_index, curr_dir, styped, serased, around, sstatus>>
      BY <1>2, <2>2 DEF shell_run
    <3> QED BY <3>1 DEF ShellInv, ShellType, ShellHeld, ShellRanInv
  <2>3. CASE ~(sc >= 80 \/ sc = NumLock) /\ KCTC(sc) = "NL"
    <3>1. shell_interpreter([shell_buffer EXCEPT ![shell_buffer_index] = NUL])
      BY <1>2, <2>3 DEF shell_run
    <3> QED BY <2>1, <3>1, ShellEntered
  <2>4. CASE ~(sc >= 80 \/ sc = NumLock) /\ KCTC(sc) # "NL"
    <3>1. TypeKey(KCTC(sc))
      BY <1>2, <2>4 DEF shell_run
    <3>2. KCTC(sc) \in Key
      BY EmptyKeys DEF KCTC, Key
    <3> QED BY <2>1, <3>1, <3>2, ShellTyped
  <2> QED BY <2>2, <2>3, <2>4
<1> QED BY <1>1, <1>2 DEF ShellNext

LEMMA ShellStarts == init_shell => ShellInv
<1>1. SUFFICES ASSUME init_shell PROVE ShellInv
  OBVIOUS
<1>2. /\ shell_buffer = Cleared /\ shell_buffer_index = 0
      /\ styped = <<>> /\ serased = FALSE /\ around = FALSE /\ sran = NotRun
  BY <1>1 DEF init_shell
<1>3. BufferSize \in Nat \ {0}
  BY ShellAssumption
<1>4. ShellType
  <2>1. serased \in BOOLEAN /\ around \in BOOLEAN
    BY <1>2
  <2>2. styped \in Seq(Key)
    BY <1>2
  <2> QED BY <1>2, <2>1, <2>2, ClearedKeys DEF ShellType
<1>5. ShellHeld
  BY <1>2, <1>3 DEF ShellHeld, Clear, Cleared
<1> QED BY <1>2, <1>4, <1>5 DEF ShellInv, ShellRanInv

(* Both shells run what is on the screen, for every size of their buffers, every set of keys and
   every name of a command that no other name begins (handler, rps_handler, shell_run). *)
THEOREM LinesRunAsTyped == ConsoleSpec /\ ShellSpec => []CommandsAsTyped
<1>1. ConsoleInit /\ init_shell => LineInv /\ ShellInv
  BY LineStarts, ShellStarts
<1>2. (LineInv /\ ShellInv) /\ [ConsoleNext]_convars /\ [ShellNext]_shellvars => (LineInv /\ ShellInv)'
  BY LineKept, ShellKept
<1>3. LineInv /\ ShellInv => CommandsAsTyped
  <2>1. ShellInv => ShellAsTyped
    BY Zenon DEF ShellInv, ShellRanInv, ShellRight, ShellAsTyped
  <2> QED BY <2>1, LineProved DEF CommandsAsTyped
<1> QED BY <1>1, <1>2, <1>3, PTL DEF ConsoleSpec, ShellSpec
=============================================================================
