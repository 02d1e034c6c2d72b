--------------------------- MODULE ProcessManager ---------------------------
(***************************************************************************)
(* The cooperative process manager of SectorOS-RE2 (process/process.c)     *)
(* with what drives it: the timer and keyboard interrupts, the int 0x80    *)
(* gate and the shell "sosh" whose keyboard handler runs inside IRQ 1.     *)
(*                                                                         *)
(* A context_t is abstracted to whose code it resumes and whether that     *)
(* code was inside a keyboard handler.  Register values, stacks and page   *)
(* directories are left out.  Every interrupt and trap gate clears IF, so  *)
(* a handler interleaves with nothing and "task" is the only mode in which *)
(* an interrupt is taken.                                                  *)
(***************************************************************************)
EXTENDS Integers

CONSTANTS
  MaxPid,         \* bound on the pids handed out in a behaviour
  PidSpace,       \* number of values of pid_t, 2^32 in the code
  ShellCommands,  \* commands typed at sosh, out of {"exit", "rps", "chpr"}
  ApiClients,     \* programs that issue the process system calls 13, 14, 15
  CHPModeReads    \* what `isCHPMode == 1` yields: process_kbh never sets it

ASSUME BoundAssumption == MaxPid \in Nat /\ PidSpace \in Nat /\ MaxPid < PidSpace
ASSUME CommandAssumption == ShellCommands \subseteq {"exit", "rps", "chpr"}
ASSUME ClientAssumption == ApiClients \subseteq {"sosh", "rps", "user"}
ASSUME CHPAssumption == CHPModeReads \subseteq BOOLEAN

Pid     == 0 .. MaxPid
NULL    == -1
Program == {"sosh", "rps", "user"}      \* "user" is the one TASK_TYPE_USER
Context == [owner : Pid \cup {NULL}, at : {"task", "handler"}]
Line    == [cmd : {"none", "exit", "rps", "chpr"}, pid : Pid]
NoLine  == [cmd |-> "none", pid |-> 0]

VARIABLES
  process_list,     \* pids of the PCBs in the list
  prog,             \* program a pid runs, which fixes pcb->type
  regs,             \* pcb->regs
  kbhandler,        \* pcb->handler # 0
  current_process,
  last_process,
  curr_pid,         \* the next pid to allocate
  saved_context,    \* the one global register snapshot
  mode,             \* what the CPU executes
  kbhb_command,     \* the command in kbhb, the shell's line buffer
  in_service,       \* interrupts the PIC waits an EOI for
  status            \* "run", or why nothing runs any more

vars == <<process_list, prog, regs, kbhandler, current_process, last_process,
          curr_pid, saved_context, mode, kbhb_command, in_service, status>>
pcbs == <<process_list, prog, kbhandler, curr_pid>>
cpu  == <<regs, current_process, last_process, mode, in_service, status>>

\* "handler3" is a keyboard handler resumed in ring 3 by user_regs_switch.
InHandler == mode \in {"handler", "handler3"}
Alive     == status = "run"

Init ==
  /\ process_list = {} /\ curr_pid = 0
  /\ prog = [p \in Pid |-> "sosh"]
  /\ regs = [p \in Pid |-> [owner |-> NULL, at |-> "task"]]
  /\ kbhandler = [p \in Pid |-> FALSE]
  /\ current_process = NULL /\ last_process = NULL
  /\ saved_context = [owner |-> NULL, at |-> "task"]
  /\ mode = "boot" /\ kbhb_command = NoLine /\ in_service = {} /\ status = "run"

-----------------------------------------------------------------------------
(* Switching *)

\* Variant: the 0 of pic_eoi(0) taken as the number of the interrupt to end.
SpecificEOI(s) == s \ {"timer"}

\* pic_eoi(0) is a non-specific EOI: it ends the highest priority in service.
EOI(s) == IF "timer" \in s THEN s \ {"timer"} ELSE s \ {"keyboard"}

\* The registers a trap or interrupt frame holds at this moment.
Frame == [owner |-> current_process, at |-> IF InHandler THEN "handler" ELSE "task"]

\* The k-th pid tried by `get_process_by_pid(pid--)`, pid_t being unsigned.
Tried(pid, k) == IF k <= pid THEN pid - k ELSE PidSpace + pid - k

\* Variant: the search counts up.
SearchUpwards(pid, live) ==
  LET n == CHOOSE k \in 0 .. PidSpace - 1 :
             /\ (pid + k) % PidSpace \in live
             /\ \A j \in 0 .. k - 1 : (pid + j) % PidSpace \notin live
  IN  (pid + n) % PidSpace

\* The loop of change_process: the first pid tried that is in the list.
Search(pid, live) ==
  LET n == CHOOSE k \in 0 .. PidSpace - 1 :
             /\ Tried(pid, k) \in live
             /\ \A j \in 0 .. k - 1 : Tried(pid, j) \notin live
  IN  Tried(pid, n)

\* Where execution continues once the context is loaded.
Resumed(program, ctx) ==
  CASE ctx.at = "task" -> "task"
    [] ctx.at = "handler" /\ program = "user" -> "handler3"
    [] OTHER -> "handler"

\* context_switch(&saved, &next->regs): rs are the PCBs' regs and last the
\* value of last_process on entry.
ContextSwitch(next, rs, last, saved) ==
  /\ regs' = IF last = NULL THEN rs ELSE [rs EXCEPT ![last] = saved]
  /\ current_process' = next
  /\ last_process' = next
  /\ in_service' = EOI(in_service)
  /\ mode' = Resumed(prog'[next], regs'[next])
  /\ status' = IF regs'[next].owner = next THEN "run" ELSE "mixed"

ChangeProcess(pid, live, rs, last, saved) ==
  \/ /\ pid = 0 /\ 0 \notin live
     /\ status' = "panic"
     /\ regs' = rs /\ last_process' = last
     /\ UNCHANGED <<current_process, mode, in_service>>
  \/ /\ pid # 0 \/ 0 \in live
     /\ ContextSwitch(Search(pid, live), rs, last, saved)

CreateWithPid(program, saved, next_pid) ==
  /\ curr_pid <= MaxPid
  /\ curr_pid' = next_pid
  /\ process_list' = process_list \cup {curr_pid}
  /\ prog' = [prog EXCEPT ![curr_pid] = program]
  /\ kbhandler' = [kbhandler EXCEPT ![curr_pid] = FALSE]
  /\ ChangeProcess(curr_pid, process_list',
                   [regs EXCEPT ![curr_pid] = [owner |-> curr_pid, at |-> "task"]],
                   last_process, saved)

CreateProcess(program, saved) == CreateWithPid(program, saved, curr_pid + 1)

-----------------------------------------------------------------------------
(* Interrupts *)

\* timer_callback: IRQ 0 snapshots the interrupted registers and sends its EOI.
TimerTick ==
  /\ Alive /\ mode \in {"boot", "task"} /\ "timer" \notin in_service
  /\ saved_context' = Frame
  /\ UNCHANGED <<pcbs, cpu, kbhb_command>>

\* A key before the first process: process_kbh reads current_process->handler
\* through NULL, and calls whatever the page at 0 holds unless it is 0.
KeyAtBoot ==
  /\ Alive /\ mode = "boot"
  /\ status' \in {"run", "wild"}
  /\ UNCHANGED <<pcbs, regs, current_process, last_process, mode, in_service,
                 saved_context, kbhb_command>>

KeyboardIRQ ==
  /\ Alive /\ mode = "task" /\ in_service = {}
  /\ mode' = "irq"
  /\ in_service' = {"keyboard"}
  /\ UNCHANGED <<pcbs, regs, current_process, last_process, saved_context, kbhb_command, status>>

\* process_kbh with isCHPMode reading 1 and Enter pressed.
KbhCHP(pid) ==
  /\ Alive /\ mode = "irq" /\ TRUE \in CHPModeReads
  /\ UNCHANGED <<pcbs, saved_context, kbhb_command>>
  /\ ChangeProcess(pid, process_list, regs, last_process, saved_context)

\* process_kbh returns: no handler, or isCHPMode reads 1 and the key is no Enter.
KbhReturn ==
  /\ Alive /\ mode = "irq"
  /\ TRUE \in CHPModeReads \/ ~kbhandler[current_process]
  /\ mode' = "task"
  /\ in_service' = EOI(in_service)
  /\ UNCHANGED <<pcbs, regs, current_process, last_process, saved_context, kbhb_command, status>>

\* process_kbh calls the handler of the current process.  The shell's first
\* makes system call 0, and on Enter has a command line in kbhb.
KbhHandler ==
  /\ Alive /\ mode = "irq" /\ FALSE \in CHPModeReads
  /\ kbhandler[current_process]
  /\ mode' = "handler"
  /\ IF prog[current_process] = "sosh"
     THEN /\ saved_context' = [owner |-> current_process, at |-> "handler"]
          /\ kbhb_command' \in {l \in Line : /\ l.cmd \in ShellCommands \cup {"none"}
                                             /\ l.cmd # "chpr" => l.pid = 0
                                             /\ l.cmd = "rps" => curr_pid <= MaxPid}
     ELSE UNCHANGED <<saved_context, kbhb_command>>
  /\ UNCHANGED <<pcbs, regs, current_process, last_process, in_service, status>>

\* A handler other than the shell's returns through irq_handler.  In ring 3
\* the outb of pic_eoi is a general protection fault.
HandlerReturn ==
  /\ Alive /\ InHandler /\ prog[current_process] # "sosh"
  /\ IF mode = "handler3"
     THEN status' = "gpf" /\ UNCHANGED <<mode, in_service>>
     ELSE mode' = "task" /\ in_service' = EOI(in_service) /\ UNCHANGED status
  /\ UNCHANGED <<pcbs, regs, current_process, last_process, saved_context, kbhb_command>>

-----------------------------------------------------------------------------
(* The shell's handler after its first system call; resuming a context saved *)
(* there re-enters at the same place with the kbhb of that moment.           *)

InShell(cmd) == Alive /\ InHandler /\ prog[current_process] = "sosh" /\ kbhb_command.cmd = cmd

RunRps(line) ==
  /\ InShell("rps")
  /\ kbhb_command' = line
  /\ CreateProcess("rps", saved_context)
  /\ UNCHANGED saved_context

\* Variant: kbhb is not cleared before the switch.
ShellRpsKeepsLine == RunRps(kbhb_command)

ShellRps == RunRps(NoLine)

ShellChpr ==
  /\ InShell("chpr")
  /\ UNCHANGED <<pcbs, saved_context, kbhb_command>>
  /\ ChangeProcess(kbhb_command.pid, process_list, regs, last_process, saved_context)

\* Any other line: the prompt is printed by system calls and the IRQ ends.
ShellDone ==
  /\ InShell("none")
  /\ saved_context' = Frame
  /\ mode' = "task"
  /\ in_service' = EOI(in_service)
  /\ UNCHANGED <<pcbs, regs, current_process, last_process, kbhb_command, status>>

-----------------------------------------------------------------------------
(* System calls: syscall_handler snapshots the registers, then dispatches. *)

InProcess == Alive /\ mode \in {"task", "handler", "handler3"}
Client    == prog[current_process] \in ApiClients

\* The rps game exits from its handler, the shell on its exit command.
CanExit ==
  \/ Client
  \/ prog[current_process] = "rps" /\ InHandler
  \/ InShell("exit")

Exit(last) ==
  /\ InProcess /\ CanExit
  /\ saved_context' = Frame
  /\ process_list' = process_list \ {current_process}
  /\ UNCHANGED <<prog, kbhandler, curr_pid, kbhb_command>>
  /\ ChangeProcess(current_process, process_list', regs, last, Frame)

\* Variants: last_process still points to the freed PCB; exit returns.
ExitKeepsLast == Exit(last_process)
ExitReturns ==
  /\ InProcess /\ CanExit
  /\ saved_context' = Frame
  /\ process_list' = process_list \ {current_process}
  /\ UNCHANGED <<prog, kbhandler, curr_pid, kbhb_command, cpu>>

SysExit == Exit(NULL)

\* Programs attach at their start; API clients do it wherever they like.
SysAttach ==
  /\ InProcess
  /\ mode = "task" \/ Client
  /\ saved_context' = Frame
  /\ kbhandler' = [kbhandler EXCEPT ![current_process] = TRUE]
  /\ UNCHANGED <<process_list, prog, curr_pid, cpu, kbhb_command>>

\* The calls that leave the process manager alone: 0, 3 to 12, 16.
SysOther ==
  /\ InProcess
  /\ saved_context' = Frame
  /\ UNCHANGED <<pcbs, cpu, kbhb_command>>

\* wait(ms) halts until the next tick, with IF clear, unless ms < 2.
SysWait ==
  /\ InProcess /\ Client
  /\ saved_context' = Frame
  /\ status' \in {"run", "halted"}
  /\ UNCHANGED <<pcbs, regs, current_process, last_process, mode, in_service, kbhb_command>>

SysCreate ==
  /\ InProcess /\ Client
  /\ saved_context' = Frame
  /\ CreateProcess("user", Frame)
  /\ UNCHANGED kbhb_command

ChangeTo(pid, frame) ==
  /\ InProcess /\ Client
  /\ saved_context' = frame
  /\ UNCHANGED <<pcbs, kbhb_command>>
  /\ ChangeProcess(pid, process_list, regs, last_process, frame)

\* Variant: syscall_handler takes no snapshot.
SysChangeUnsaved(pid) == ChangeTo(pid, saved_context)

SysChange(pid) == ChangeTo(pid, Frame)

\* kernelmain ends by creating the shell and never gets the CPU back.
BootShell ==
  /\ Alive /\ mode = "boot"
  /\ CreateProcess("sosh", saved_context)
  /\ UNCHANGED <<saved_context, kbhb_command>>

Next ==
  \/ BootShell \/ TimerTick \/ KeyAtBoot
  \/ KeyboardIRQ \/ KbhReturn \/ KbhHandler \/ HandlerReturn
  \/ ShellRps \/ ShellChpr \/ ShellDone
  \/ SysExit \/ SysAttach \/ SysOther \/ SysWait \/ SysCreate
  \/ \E pid \in Pid : KbhCHP(pid) \/ SysChange(pid)

Spec == Init /\ [][Next]_vars

\* With IF clear the CPU executes the interrupt code and nothing else.
Progress ==
  \/ KbhReturn \/ KbhHandler \/ HandlerReturn
  \/ ShellRps \/ ShellChpr \/ ShellDone \/ (InShell("exit") /\ SysExit)

FairSpec == Spec /\ WF_vars(Progress)

-----------------------------------------------------------------------------
(* Properties *)

\* Every variable keeps its type (the C types of process.c and pit.c).
TypeOK ==
  /\ process_list \subseteq Pid /\ curr_pid \in 0 .. MaxPid + 1
  /\ prog \in [Pid -> Program]
  /\ regs \in [Pid -> Context]
  /\ kbhandler \in [Pid -> BOOLEAN]
  /\ current_process \in Pid \cup {NULL} /\ last_process \in Pid \cup {NULL}
  /\ saved_context \in Context
  /\ mode \in {"boot", "task", "irq", "handler", "handler3"}
  /\ kbhb_command \in Line
  /\ in_service \subseteq {"timer", "keyboard"}
  /\ status \in {"run", "panic", "gpf", "wild", "halted", "mixed"}

\* While processes run, current_process and last_process point to one PCB that
\* is in the list (exit frees it in between), the init process is there to
\* fall back on and no pid of the list can be handed out again.
CurrentLive ==
  Alive /\ mode # "boot" =>
    /\ current_process \in process_list
    /\ last_process = current_process
    /\ 0 \in process_list
    /\ \A p \in process_list : p < curr_pid

\* Code that runs with interrupts enabled has no interrupt left unacknowledged,
\* though a switch out of the keyboard handler never returns to irq_handler:
\* otherwise the PIC would hold back every later key.
PicFree == Alive /\ mode = "task" => in_service = {}

\* Each process resumes where it, and no other process, was suspended: the one
\* global saved_context is the right snapshot at every switch.
OwnContext == Alive => \A p \in process_list : regs[p].owner = p

\* exit has freed the PCB it leaves: the switch that follows must not save
\* registers into it, nor any later one.
FreedUntouched ==
  [][\A p \in Pid \ process_list' : regs'[p] = regs[p]]_vars

\* exit hands over to the youngest process older than the one that exits,
\* whatever pids have gone before, and panics only for the init process.
ExitFallsBack ==
  [][\A p \in process_list \ process_list' :
        IF p = 0 THEN status' = "panic"
        ELSE /\ current_process' \in process_list' /\ current_process' < p
             /\ \A q \in process_list' : q < p => q <= current_process']_vars

\* A keyboard interrupt comes to an end: interrupts are enabled again unless
\* the machine has stopped.
KeyboardEnds == (mode \in {"irq", "handler", "handler3"}) ~> (mode = "task" \/ ~Alive)
=============================================================================
