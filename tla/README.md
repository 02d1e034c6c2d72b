# A verification model of SectorOS-RE2

SectorOS-RE2 is a 32-bit x86 hobby kernel: cooperative multitasking with an
`int 0x80` gate, a kernel heap, paging, a virtual filesystem with EXT2 and
SORFS below it, ATA and RAM disks, a small IPv4 stack and two network cards.
This directory holds TLA+ modules translated from that source, the TLC
configurations that model-check them and TLAPS proofs. `PROJECT.json` says which
source lines each definition stands for. Paths below are relative to the
kernel's source directory `src/` of the repository.

    tlc -workers 2 -config pm_all.cfg ProcessManager.tla      # one run
    tlapm ProcessManagerProofs.tla                            # one proof module

## 1. Inventory

### Components, their state and their operations

| Component | State | Operations | Interacts with |
|---|---|---|---|
| Process manager `process/process.c`, `context_switch.asm` | process list, `current_process`, `last_process`, next pid, a PCB with saved registers and keyboard handler | create, exit, change_process, attach_handler, process_kbh | heap and paging (PCB, stack, page directory), list, PIC (`pic_eoi(0)`), the global `saved_context` |
| System call gate `Interrupt/syscall.c` | `saved_context` (written on entry) | 17 calls, through a table | process manager, VFS, heap |
| Interrupt dispatch `Interrupt/interrupt.c`, `drivers/cpu/pic.c` | handler table, the PIC's in-service register | irq_handler, pic_eoi | timer, keyboard, NICs |
| Timer `drivers/cpu/pit.c` | ticks, wakeup list | timer_callback, wait, register_wakeup_call | `saved_context`, RTC, list |
| Keyboard `drivers/input/keyboard.c` | shift and caps flags | keyboard_handler | process_kbh |
| Kernel shell `Kernel/KernelMain.c` | line buffer `kbhb`, the game's `rps_buf` | line editor; exit, rps, chpr, ls, cd, cat, echo, uname inside the keyboard interrupt | process manager by system call, and directly for chpr; VFS |
| Kernel heap `mem/kheap.c` | boundary-tagged blocks, free list, head, tail, heap_curr/end | malloc, free, realloc and the k-wrappers | ksbrk |
| Paging `mem/paging.c`, frames `mem/pmm.c` | page directories, tables, frame bitmap | alloc_page, alloc_region, ksbrk, copy_page_dir | heap, process manager, BIOS32 |
| List `common/structures/list.c`, tree `gentree.c` | nodes with next, prev; head, tail, size | insert, remove, pop, foreach | process list, wakeup list, interfaces, mount tree, tokens of a path |
| VFS `fs/vfs.c`, `fs/mount.c` | mount tree, `vfs_root`, ref counts | mount, unmount, file_open, close, create, mkdir, unlink | tree, list, every filesystem and device node |
| devfs, procfs `fs/devfs.c`, `fs/procfs.c` | 64 device slots | add, remove, finddir | VFS |
| EXT2 `fs/ext2.c` | block and inode bitmaps, group descriptor, inodes, directory entries | read, write, mkfile, mkdir, unlink, finddir | VFS, disk node |
| SORFS `fs/sorfs.c` | read-only image | finddir, read | VFS, disk node |
| MBR, ATA, RAM disk `fs/mbr.c`, `drivers/storage/*` | partition offsets, drive registers | read and write of byte ranges by sectors | devfs |
| Log disk `drivers/storage/logdisk.c` | log buffer and its position | putc, read and write of /dev/log | every part that logs, VFS |
| Network `network/*.c` | ARP ring, UDP sockets, DHCP lease, interface list | resolve and wait, send, receive callbacks, DHCP | NIC drivers (from interrupts), list |
| NICs `drivers/ethernet/*.c` | rings and descriptors shared with the card | send, interrupt, receive | network |
| RTC `drivers/time/rtc.c` | none; the chip's registers | read until two passes agree | timer |
| PCI `drivers/pci.c` | none; the configuration space | enumerate, search for a device | NIC drivers |
| APM `drivers/cpu/apm.c`, BIOS32 `common/bios32.c` | three flags | check, connect, enable, set power state | BIOS through BIOS32 |
| Strings and printf `common/string.c`, `common/printf.c` | none | str_split, vsprintf, ... | all |
| Init file, program shell `program/initfile.c`, `program/shell.c` | line buffer, files under way | run a line, load a file | VFS, network, APM |
| Screen `drivers/video/vga.c` | video memory, cursor | putchar, scroll, clear | everything that prints |
| Graphics, fonts, serial, tables and boot, exceptions | pixels, tables | formatting, register I/O | everything, by calls only |

### What is hard here

* **One register snapshot for everybody.** `saved_context` is written by the
  timer tick, by every system call, and stored into `last_process->regs` by the
  next context switch, whoever asks for it.
* **Handlers that never return.** A context switch made inside an interrupt
  abandons the handler; acknowledging the interrupt and clearing the line buffer
  must have happened before it.
* **Freed but still named.** `exit` frees the PCB that `last_process` and
  `current_process` point to; the list's `tail` points to a freed node after the
  last removal.
* **Data that is only right after every step.** The heap's boundary tags, free
  list and tail are rewritten by four different merge paths.
* **Waiting with nothing to wake.** `wait()` behind an interrupt gate, the ARP
  wait of `ip_send_packet` when every request was lost.
* **Memory shared with a device that works on.** The cards' rings and
  descriptors, and the clock's registers, change between any two steps.
* **Non-atomic updates** of persistent state in EXT2, and of state shared with
  interrupt handlers without masking (log, screen, ARP table, heap).
* **Loops over bytes, sectors and words with edges**: sector and block ranges,
  line buffers, tokens, arguments popped uncounted.

`PROJECT.json` lists the hazards one by one, at their lines, with the properties
that would catch them.

### What makes each component correct

* Process manager: the current process is always one that exists; a process is
  resumed from its own context; exit hands over to the process it is meant to;
  nothing is written to a freed PCB; interrupts come to an end and are
  acknowledged.
* Heap: allocations are disjoint, do not move and keep their contents; blocks
  tile the heap; the free list is exactly the free blocks; free merges all it can.
* List: both chains agree with what the owner put in; no write to freed nodes.
* VFS: a path is answered by the nearest mount above it; a node is closed once,
  when nobody has it open.
* EXT2: an entry names an inode that was written, a block has one owner, also
  after a crash; a file keeps the bytes it was given.
* Disks: a read or write moves exactly the bytes asked for.
* Log and screen: the buffer is what was written last, and nothing outside it is
  touched.
* Network: an address is resolved while replies can still arrive; an answer is
  matched to its question; cards hand over packets and frames in order, once.
* Frames and pages: a frame backs one page; every process maps the kernel alike.
* Consoles and init files: what runs is what is on the screen, or in the file.

## 2. Plan

Most important behaviour first; every row is built.

| # | Module | What it states | Proofs |
|---|---|---|---|
| 1 | `ProcessManager` | switching, exit, keyboard interrupts, the shared snapshot | `ProcessManagerProofs` |
| 2 | `KHeap`, abstract `Allocator` | the heap implements an allocator | `KHeapProofs`, `AllocatorProofs` |
| 3 | `LinkedList`, `MCLists` | the two disciplines its owners use | `TreeProofs` |
| 4 | `Network`, `MCNetwork` | ARP, waiting senders, DHCP | `NetworkProofs` |
| 5 | `Vfs`, `MCVfs` | mount tree, path resolution against the nearest mount, reference counts, device slots | `TreeProofs` |
| 6 | `Ext2`, `MCExt2` | directory entries, bitmaps, the order of disk writes and crashes between them | `Ext2Proofs` |
| 7 | `Blocks`, `Ext2File`, `LogDisk`, composed by `MCStorage` | byte ranges over sectors and blocks, the log under interrupts | `StorageProofs` |
| 8 | `Paging`, `Rtl8139`, `Am79c973`, `Rtc`, `Pci`, `Apm`, composed by `MCMachine` | frames and directories, card rings, torn clock reads, the bus, power management | `MachineProofs` |
| 9 | `Console`, `Shell`, `Text`, `InitFile`, `Screen`, composed by `MCConsole` | from a scancode to a command, init files, tokens, numbers, the text screen | `ProcessManagerProofs` (`Console`, `Shell`), `MachineProofs` (`Screen`) |

What is left: the heap's steps split so that an interrupt handler can allocate inside
them.

Modules that are proved about have no RECURSIVE operator; `Text` and `InitFile`
have some, where a reference definition over a string is clearest recursively.

How modules are put together: `KHeap` implements `Allocator` (refinement);
`MCLists` instantiates `LinkedList` twice; `Shell` extends `Console`, whose key
table and flags it shares, and `InitFile` extends `Text`, whose token list it
fills. `MCStorage`, `MCMachine` and `MCConsole` check several modules in one run.
Their parts share no memory that is modelled, so a behaviour steps one of them,
chosen at the start, and the others keep their initial values.

## 3. The modules and the code

### ProcessManager

A PCB is its pid. `process_list`, `current_process`, `last_process`,
`curr_pid` and `saved_context` are the variables of process.c and pit.c; `prog`
fixes the PCB's type, `regs` its saved context. A context is abstracted to *whose
code it resumes* and *whether that code was inside a keyboard handler*; stacks,
register values and page directories are left out. `mode` is what the CPU
executes, `in_service` what the PIC still waits an EOI for, `status` why nothing
runs any more.

Every gate of the IDT is an interrupt gate, so interrupts are off in handlers and
in system calls, and `TimerTick` and `KeyboardIRQ` start only in a task (or, for
the timer, during boot). One action is one stretch of code that nothing
interrupts:

* `TimerTick` is `timer_callback`; `KeyboardIRQ` enters `process_kbh`, which goes
  on as `KbhCHP` (Enter in change-process mode), `KbhHandler` or `KbhReturn`.
  `isCHPMode` is an uninitialised local, so what it reads is the constant
  `CHPModeReads`.
* `ShellRps`, `ShellChpr`, `ShellDone` and `SysExit` are what the shell's handler
  does with a command line, from its first system call on: that call's snapshot
  is where a saved shell context re-enters.
* `SysExit`, `SysCreate`, `SysChange`, `SysAttach`, `SysWait` and `SysOther` are the
  system calls, each with the snapshot `syscall_handler` takes first. Calls 14
  and 15 (create and change) are used by no program of the repository;
  `ApiClients` says which programs are allowed to, as the system call interface
  offers them.
* `ChangeProcess` and `ContextSwitch` are `change_process` and `context_switch`:
  the save into `last_process->regs`, the search downwards through the unsigned
  pids (`Search`, `Tried`), the EOI, the jump.

States where the code really stops: `"panic"` (exit of pid 0), `"halted"`
(`wait()` waits for a tick with interrupts off), `"gpf"` (a user process is
resumed in ring 3 inside its keyboard handler, and `pic_eoi`'s `outb` faults),
`"wild"` (a key before the first process makes `process_kbh` read its handler
through NULL). `"mixed"` means that a process was resumed with another's
context: from there on two processes run on one stack, and the model stops. That
is why these runs disable the deadlock check.

Left out: `list_process` (prints), the `TASK_STOPPED` test of `change_process`
(nothing sets it), and the boot context of `kernelmain`, which the first switch
drops.

### KHeap and Allocator

`KHeap` is a transcription of malloc, free and realloc with their four merge
paths over memory in units of 16 bytes. The 16 bytes of a block's two tags are one
unit: cell *c* stands for the 16 bytes that end 4 bytes before unit boundary
*c*+1, so `hd[c]` is the header of the block at *c*, `ft[c]` the trailing size of
the block before it, and `data` the callers' contents. A block is split when the
rest has room for two units, as in the code. The free list is a sequence (list
order only matters for `BestFit`'s ties). `krealloc(NULL, n)` is `kmalloc(n)`, so
it is not an action of its own; `kcalloc` only clears what `kmalloc` returned.

A caller may do what it likes with its own memory; in the model it fills it
with 1, 2, 3, ... after each call, so that a lost or swapped unit shows. Tags left
inside swallowed blocks are dropped, as is the content of memory nobody owns: the
code reads neither, except past the last block, where `ReadsPast` takes whatever
is there for a header: `"wild"`. `OutOfSpace` is the assertion in malloc.
`kmalloc_a` returns an address inside its block that cannot be passed to `kfree`.

A `krealloc` that shrinks the last block gives its end back without moving
`tail` (kheap.c:446). `shrunk` remembers that; after it two neighbours may be
free, the tail is not the last block, and a later call may read a header past the
last block. `NeverWild` and the merging half of `FreeListExact` are claimed
until then; the tiling, the rest of the free list and `AllocatorSpec` always.

`Allocator` is the promise: allocations are disjoint ranges that stay where
they are and keep what was written to them; a reallocation keeps the common
prefix. `AllocatorSpec` is its specification with `owned` mapped to the callers'
regions and the bytes in them.

Calls are atomic. An interrupt handler that allocates while the interrupted task
is inside malloc is a hazard of this code that the model does not show.

### LinkedList

A node is its address. Page 0 is mapped, so the code's accesses through NULL do
not fault: NULL is an address with a `next` and a `prev` field. `items` is a
history variable, what the owner put in, in order. `Calls` selects a discipline:
owners of the process list, the wakeup list and the tree's children insert at the
front and remove a node or an index; `str_split` and `list2str` push at the back and
pop. Popped nodes are not freed by the code. A list emptied by `list_pop` keeps a
stale `head`, so `ForwardWalk` is not claimed for tokens, and nobody walks them
forward after that. `MCLists` steps one list of each
discipline; `TokensBackward` is `BackwardWalk` of the second; the
back links of the first show when a node is removed, and are proved. NULL is no node's address
(`NullAssumption`, `TokenAssumption`).

### Network and MCNetwork

`Network` runs the network commands of an init file in task context (`script`,
`pc`), the receive path as an interrupt, and the peers, the DHCP server and the
wire as the environment. `sending[c]` is the queue of packets a context still has
to send: the first is the one `ip_send_packet` is in. `Lookup`, `Ask` and
`Transmit` are the turns of its loop, so that receive interrupts fall between
them; in the interrupt context nothing else runs meanwhile, because interrupts
are off. `InitArp`, `WriteAddress`, `Advance` and `CheckBroadcast` are `init_arp`
with the three writes of `arp_lookup_add` apart. (`arp_table_current++` and its
wrap are one step.) `HandleDhcp` looks at the message type and the offered
address only, as the code does; `IsForMe` compares the whole own address with one
octet of the requested one, as arp.c:23 does.

The commands are those of `load_initfile`, which no code calls in this version: the
model shows the stack as the shipped init file, once its comments are removed,
would use it.

Abstractions: an address has two of its four octets; a hardware address is named by
its owner; DHCP messages keep their order; checksums, ICMP (an echo request is
answered from the interrupt by the same `ip_send_packet`), UDP sockets (none is
registered), a second card and the card's descriptor rings are left out, as is the
rescan of DHCP options: the server puts the message type first.

### Vfs

A path is the sequence of its tokens, a node a tuple `<<kind, number>>`: a
driver's node, devfs's copy of it, the roots of devfs, procfs and each mounted
disk, and nodes a lookup has allocated. `tree` is the mount tree, `Descent`
the descent of get_mountpoint_recur, `Mounted` and `VFS_unmount` what mounting and
unmounting do to it, `Resolve` where a path leads, the wild write for a trailing
slash included (`"wild"`). `file_open` resolves and opens in
one step; `mount` opens the device by its path, asks the disk for its
filesystem and mounts the root it made. Creation and removal go through the
parent's node. `VFS_listdir` is an open that nobody closes, and a call of the node's
listdir. Calls are atomic: the kernel makes them in interrupts or at
boot, one at a time. EXT2 and SORFS nodes differ in what their `ref_count` starts
from (zero, or the bytes kmalloc returned).

`sorfs_root` is one variable for all SORFS mounts (`SorfsRoot`, the root mounted last), and
`sorfs_finddir` ends without a return for any other root and for a name that is not
there; what its caller then gets is what the build without optimisation leaves in the register:
the last root, or the number of entries looked at. A node it makes below the root is
not cleared, so both outcomes of its flags are open.

`NearestMountAnswers` gives the answer of a path by its definition: the nearest
entry of the tree above it, then one lookup below. What strays in SORFS is part of it: below
another root than the last, or below an entry of the last, the answer is the last root or an
entry of it, never a node of another mount. It also relates the tree's
root entry to `vfs_root` unless `/` was mounted or unmounted by a path like `//`,
which the code does not take for `/`. `PathAssumption` says that paths and names
are made of strings, that a disk holds the directories above each of its files,
and that a SORFS disk has one level.

### Ext2

One block group and one block per directory, in units of four bytes: an entry is
`[ino, rec, name]`, and only the lengths of names matter. Every disk write is a
step. An operation reads only what nobody else changes meanwhile, so it is the
sequence of disk images that its writes produce (`todo`); `Crash` drops the
rest and reads the descriptor again. `EXT2_mkfile`, `EXT2_mkdir` and `EXT2_unlink`
are compositions of `alloc_inode`, `EXT2_alloc_block`, the rewrites and
`EXT2_createEntry`, in the order of the code. `MkfsAssumption` is what
`mkfs` leaves (`src/Makefile:247`): the inode of every clear bit in place, none of them written by
the code, counts that agree with the bitmaps, and no name twice in a directory; `NamesAssumption`
says that an entry of any name fits in a block. `Expected` and `Rounded` are the two
different roundings with which entries are written and looked for.

### Blocks, Ext2File, LogDisk

`Blocks` is the byte interface of the disks: `ata_read`, `ata_write` with the
read-modify-write of each sector (`Piece` is the slice of one), partitions,
the RAM disk and the null device. Any set of sectors may fail during a call; a sector
that cannot be read leaves junk in the buffer, which a write puts back. Offsets are
words of the machine, so sums may wrap. A byte is a tuple that says where it comes from.
The fifth table entry that `mbr.c` looks at, past the end of its array, holds
what the constant `Beyond` says. The name of a disk, by which its table is read, is put
together by `sprintf`, whose position is the word at address 0 (`displaced`, see section 4):
from the second disk on the name is what the memory of its buffer held, so
`identify` finds the partitions of any disk found so far or of none. A partition or another
device that such a text names is taken to begin with no partition table.

`Ext2File` is `read_inode_filedata`, `write_inode_filedata` and `get_DBlock_num`
over a disk of blocks. Blocks are not allocated by writes, so an unset number is
block 0 of the disk. `FilesAssumption` is the disk that is mounted: no block in two files or twice
in one, none is the boot block, and each file has the blocks its size needs. A write that crosses the end of a block shifts what follows
(`strained`) and writes one byte past a heap buffer (`overrun`).

`LogDisk` cuts `logdisk_putc` into its store, increment and wrap, with calls from
interrupt handlers between them, and reads and writes of `/dev/log` that address
the same buffer.

### Paging

Tables have `Span` pages; directories are functions from an index to a table, so
that a table in two directories is shared as in the code. `alloc_page`,
`alloc_region` (the page at the end address included, as its loop does), `ksbrk`,
`copy_page_dir` and the mapping of `bios32_service` act on one record `mem`, and
`alloc_block` takes the first clear bit. `TempTables` bounds the tables that fit
before the heap is enabled. When frames are used up the model stops at `"wild"`.
A process whose directory was copied before the heap got a new table faults in
the kernel (`"fault"`); `KernelShared` says that nothing else does.

### Rtl8139 and Am79c973

The card is a process: it stores arriving packets, sends what descriptors hold
and sets status bits between any two steps of the driver. The handler's steps
are the status read, the packet, the acknowledgement; a send from a task has the
steps of its code and may be cut by the handler, which may send in turn (ARP
and ICMP are answered at once). `Am79c973` keeps the memory the descriptors point to,
because the arrays' dimensions are swapped in am79c973.h and buffers lie over one
another. Histories record what was given and received; `crowded`, `merged`,
`split`, `unread`, `late` and `met` record the situations in which the code loses the order,
and the properties say that it is lost only then.

### Rtc, Pci, Apm

`Rtc` reads second, minute, hour and year one register at a time while the clock
goes on, in each of the four modes of register B. Passes are compared as in the
code. `Pci` enumerates buses, devices and functions of a set of machines, and runs
the drivers' recursive search; the secondary bus is read from the
programming-interface register (`PCI_OFF_SECONDARY_BUS` is 0x09), so a bridge
leads back to bus 0 or to bus 1 by its interface. `Apm` is a table
of the calls of each operation, stepped one BIOS call at a time, each of which may
fail; the flags and the BIOS's own state are kept apart. That power management stays
enabled over a disconnect is assumed of the BIOS.

### Console, Shell, Text, InitFile, Screen

`Console` is `process_kbh`'s decoding of a scancode and the two handlers it calls;
`handler` is called for every scancode, with an unassigned `key` for some: `Junk`
says what it may hold. A line is the buffer and what is on the screen, the history
`typed`. Commands with an argument record it (`ran`). `Shell` is the same for
program/shell.c, whose index is one byte wide. `ProcessManager` has of the line buffer
only the command in it (`kbhb_command`).

`Text` steps `str_split` by token and `vsprintf` by conversion. `InitFile` runs
`load_initfile` and the `load_init` of files loaded by files, one line a step:
what it calls is recorded with the arguments it pops. The shipped text of a file
is not ended by a NUL, so it may run on into older memory (`overrun`). The paths of a listed
directory go through `sprintf`: the first of all is right if the word at address 0 was 0,
each other leaves `""` in its buffer and is written behind it. `Screen` cuts
`putchar`, `scroll` and `clear` into their steps, with handlers that print whole
characters between them.

## 4. The runs

All runs are exhaustive. `CHECK_DEADLOCK FALSE` stands in every configuration
because every system here really may stop: a panic or halt, a full heap, an
emptied list with no node left, a bound on calls, an init file that has ended.

| Run | Question | Distinct states |
|---|---|---|
| `pm_all` | Do the process list, the current and last process, the PIC and freed PCBs stay consistent, with every command, both readings of `isCHPMode` and two programs using the whole system call interface? | 31 thousand |
| `pm_kbd` | Without the uncaptured switch of `chpr` and of change-process mode: is each process resumed from its own context, and does every keyboard interrupt end? | 24 thousand |
| `kh` | Do the blocks tile the heap, is the free list exact, is no header read past the last block until a shrinking realloc, does the heap implement `Allocator`? | 33 thousand |
| `list` | Does foreach see what owners put in, is no freed node written, and are tokens popped last first? | 596 thousand |
| `net` | Do init files end, do packets go where their destination announced, does the card end with the leased address? | 38 thousand |
| `vfs` | Is every path answered by the nearest mount, SORFS only from the last root, and do reference counts agree with the users of a node? | 404 thousand |
| `ext2` | Is what is on disk consistent at every write and after a power loss, is no name listed twice, and is what is listed found? | 1.0 million |
| `storage` | Do disks, partitions and RAM disks move exactly the bytes asked for, does the log stay in its buffer, do files keep their bytes? | 561 thousand |
| `machine` | Are frames apart and the kernel mapped alike, do the cards keep packets and frames in order, is the clock read whole, is each card found, is power management asked for what was meant? | 1.8 million |
| `console` | Does each line run as it is on the screen, do init files call what they say, are strings split, numbers printed and the screen scrolled right? | 2.8 million |

Two runs show a disagreement between the code and what it says of itself; each
has an entry under `findings` in `PROJECT.json`.

| Run | What TLC finds |
|---|---|
| `net_assert` | A reply received inside `arp_lookup_add` takes the half-written broadcast entry over, and the assertion in `init_arp` fails. |
| `mbr` | A write inside a partition lands outside it: its start is added as a sector number to a byte offset. |

Five further disagreements are visible in the models without a run of their own:
`chpr` runs again whenever the saved shell context is resumed, and may save
another process's registers as the shell's (`pm_kbd` with `"chpr"` among
`ShellCommands`); the exit of pid 0 panics with "No process left" while others are
in the list; the read past the last block after a shrinking `krealloc`; and these two:

* `docs/Readme.md:7` calls sprintf fully functional. In `vsprintf` the position is `*pos`, where
  `static uint32_t* pos` (`printf.c:30`) is never assigned: it is the word at address 0, which is
  mapped (`paging.c:182`). Every sprintf adds to it, nothing resets it, so at most the first
  text of all starts at its buffer; the others are written behind theirs. Each disk found at
  boot uses it once (`ata_pio.c:147`, `ata.c:361`), so the partitions of the second disk are missed
  or taken from another disk, and `load all` of an init file opens `""` for its files
  (`initfile.c:139`). `Blocks` and `InitFile` model it, and `InitFilesFollowed` says exactly what is left.
* After a second SORFS mount the files of the first are not found any more
  (`sorfs.c:137,194`); `NearestMountAnswers` says what is answered instead.

### Bounds, and why they are enough

* `MaxPid` 2 or 3: three or four pids are the shell, the process that switches, the
  one switched to and one that has exited. `PidSpace` 8 is larger than the pids in
  use, as 2^32 is, so the search's wrap below 0 happens. Pids are not reused in the
  code either.
* `HeapMax` 11 units, growth by pages of 2 units, sizes 1, 2 and 4: room for
  four blocks, so that a block with two free neighbours, a split that leaves a
  minimal rest, a heap that grows while its last block is free, and exhaustion
  all happen. `HeapInitial` makes the first growths skip the page table, as at boot.
* Four nodes in a list with removals give a first, a last and two middle nodes and
  a freed one; tokens need one more to be emptied and filled again.
* `TableSize` 6 stands for 512: one broadcast entry, the three possible replies of
  one peer and some of the other's fit, and more overwrite it, so both cases occur.
  `MaxLost` 2 is the most that three requests survive; `MaxSpare` 1 unasked frame
  is enough to hit every point of `init_arp`, and a peer's question for this
  host. The four init files ask for a dynamic address, a static one that is granted,
  one that is refused, and a static one while a dynamic request is under way.
* `vfs`: three devices, two of them of one name, for two slots; mounts on `/`, on a
  directory and by `//`; two users make a count differ from "open". Two mounts of the SORFS disk, which
  has a file and a directory, give an earlier root and names below an entry. One allocated
  file node is enough, because nodes do not refer to one another.
* `ext2`: 14 units to a block hold lost+found and three entries; two free blocks and
  three free inodes are used up within four operations; names of 1, 2, 4 and 10
  bytes cover both roundings. One power loss can cut any write of any operation.
* `storage`: sectors of two bytes make first, middle and last sectors of a call; offset
  62 of 64 wraps; with one direct block and two numbers per block, nine blocks reach
  the third level of indirection. The log has two bytes and five characters, so it
  wraps twice, with two interrupts anywhere. Two disks with partitions are found, so one of them is
  probed by a name left in memory. `MaxCalls` and `MaxWrites` 2 let a call
  meet what another left.
* `machine`: tables of 4 pages make the heap need a second table after processes
  exist; 18 frames run out. A receive ring of 5 units with packets of 1 and 2
  makes the reader meet the end of the ring exactly and over it; five sends go once
  round the four descriptors. Two descriptors stand for eight in `Am79c973`. A clock of 3
  seconds and 2 minutes starts before the roll-over of each field, and two updates fall
  into a reading. Buses have three devices, functions wrap after two.
* `console`: names of one key and buffers of 4 and 5 keys make a line overrun them;
  strings of up to 7 characters have four tokens; two conversions of every
  width and kind follow one another; an init file lists a directory twice, and a file of it lists
  another, from a position of 0 or not; a screen of 2 by 2 scrolls within four characters.

### Fairness

* `pm_kbd` assumes weak fairness of `Progress`: the code that a CPU with
  interrupts off executes next. The CPU does not stop, and nothing else can run.
  Nothing is assumed of tasks, of the timer or of the user.
* `net` assumes that the CPU goes on executing the init file and, with interrupts
  off, the interrupt (`TaskStep`, `IrqStep`); that a frame on the wire that is not
  lost arrives, each on its own (a loss is an action that may happen first, at most
  `MaxLost` times); and that peers and server answer what reaches them. DHCP
  messages are not lost: the code has no retry for them, and `udpsend` would wait
  for ever.

### What some properties leave open

Where the code gives a promise up in a known situation, the property says so, and
a history variable says when that situation has come; the properties still claim
that nothing else breaks the promise.

* `SentToAnnounced`, `ScriptEnds` and the static half of `LeaseAgrees` claim nothing
  once an ARP entry was written over another (`overwritten`): the code may then send
  to a stale or to no address, and a broadcast spins for ever.
* `OwnContext` and `KeyboardEnds` are claimed without `chpr` and change-process mode.
* `NeverWild` and the merging in `FreeListExact`: until a shrinking realloc (`shrunk`).
* `NearestMountAnswers`: in SORFS, the promise is kept only for what is in the root mounted last.
* `CountsUsers` says nothing of a node that a mount has pinned, of SORFS and procfs nodes whose
  count starts from old memory (it is then at least the users), or of a cleared slot.
* `FoundUntilFour`: up to the first name whose length is a multiple of four. `NamesOnce` needs no
  exception: the scan of `EXT2_createEntry`, which refuses a name that is there, is that of
  `EXT2_listdir`.
* `CountsTrail`: each power loss may leave a count one too high.
* `WritesSlice`: except in a sector that failed; both slices: no sum of 2^32.
* `FilesKeepBytes`: files written only inside their own blocks (`strained`).
* `PacketsInOrder`, `FramesInOrder`: not after the reader met the end of the RTL8139's ring
  exactly, not for a packet that arrived while another was handled (it waits), and
  not once a descriptor was reused too early or a send was cut by another.
* `ClockRead`: noon and midnight are exchanged in 12-hour mode, as the code has it.
* `DeviceFound`: a card behind a bridge is enumerated but not found.
* `PowerAsAsked`: when a call failed, the state may be asked of a BIOS that is not
  ready for it; `apm_restart` asks for off.
* `CommandsAsTyped`: not after more keys were taken back than typed or more typed than
  fit; `ls` and `cd` are looked for anywhere in the line, before other commands.
* `InitFilesFollowed`: for files whose lines have the words their commands take, up to the
  first file whose text runs on in memory; a command with one word too few takes
  its own name for the argument. Of the files that `load all` lists only the first of all is
  expected, and only if the word at address 0 was 0; the others are passed over, or the path
  lands on memory in use and the interpreter is lost. `load` with `one` is left open: the comparison
  is inverted.
* `ScreenShows`: not after a handler printed in the middle of a character (`cut`).

## 5. The proofs

TLAPS proves these for every value of the constants, that is for any number of
pids, any set of commands and clients, any number of nodes, any memory and size of a
heap, any table size and init file, any paths and devices, any disk that mkfs may leave, any size of the log, any
number of frames, packets and descriptors, any clock. The assumptions they start from are named
in the modules that declare the constants, and TLC evaluates them in the runs.

`ProcessManagerProofs`, from `BoundAssumption` and the assumptions on
the constants' types:

* `TypeCorrect`, `CurrentIsLive`, `PicIsFree` follow from one inductive
  invariant, `IInv == TypeOK /\ CurrentLive /\ PicFree /\ BootClean /\
  OnlyKeyboard`. `CurrentLive` alone is not inductive: it says nothing of the boot
  phase, in which there is no current process (`BootClean`), and whether a switch
  leaves the PIC free depends on the timer never being in service when it happens
  (`OnlyKeyboard`). The lemma `SearchFinds` says that the search
  downwards through the pids ends, at a live process, and at the youngest
  older one when pid 0 lives; `ChangeProcessEffect` and `CreateProcessEffect` say
  what a switch and a creation leave behind, so that each action cites them
  instead of opening the definitions.
* `FreedIsUntouched` and `ExitResumesOlder` are action properties from `IInv`.
* `ContextsAreOwned` assumes `NoUncaptured`, the constants of `pm_kbd`. Its
  invariant adds `PendingOwned`: while an `rps` line is pending, the CPU is in the
  shell's handler and the snapshot taken there is still the current one. Without
  it the snapshot that `ShellRps` saves could be anybody's.
* `LinesRunAsTyped` is about the consoles, from `ConsoleAssumption` and `ShellAssumption`: the
  sizes are positive, and no command with an argument begins the name of another that
  the handlers compare with first, as is so for the names in the code. While no more keys were
  taken back than typed, the index is the length of the line on the screen and the buffer holds
  that line (`LineHeld`, `ShellHeld`); while none was taken back, the rest of the buffer is
  clear, so that an argument that would begin behind the line is empty. The game needs a part
  of its own: the index is stale while it reads the keyboard, but the buffer is clear. From
  there the text is that of the screen (`LineText`), the command is the first whose name
  matches (`Dispatched`, `Interpreted`), and the argument what follows the name (`Rest`,
  `RawRest`, `Written`).

`TreeProofs`, from `NullAssumption`, `TokenAssumption`, `VfsAssumption` and `PathAssumption`; the list first:

* `OwnedListIntact`: `OwnedInv` (type, both walks, membership) is inductive when
  only `insert_front` and removals are called. The walks need each other: removing
  the head is right because the second node's `prev` is, and the other way round.
* `OwnedFreedUntouched`: every field such a step writes is that of a node in the list
  before or after it, or of NULL.
* `TokenListIntact`: `TokenInv` replaces the forward walk by the two facts on an
  emptied list (`tail` is NULL, whatever `head` says) that make the next push
  right. `ListsIntact` carries both over to the two lists of `MCLists`: the proof about tokens
  is that of `LinkedList` for an instance of it.
* `PathsAnswered` and `UsersCounted` (the mount tree of `Vfs`) share the invariant `VInv`. Its
  parts are the shape of the tree (every entry has those above it, `TreeOk`), of the slots, disks and
  allocated nodes (`Shape`), that everything mounted is pinned and that a driver's node was
  never opened by path unless it is pinned (`Pins`), the counts of nodes not made yet and of
  pinned ones (`Counts`), that the last answer is right (`AnswerOk`) and that a node that was just
  closed had no user left (`ClosedOk`). The counts need the tree: an open through `/dev` counts in
  a slot, and whatever is reached as a mount's own node is pinned.
  The descent and the lookup are functions by recursion over the tokens, so they are put
  in closed form first: the descent ends at the first token that is empty or has no entry
  (`DescentAt`, by induction over the range of tokens, `RangeInduct`), and because the tree has
  all entries above each entry, that is the nearest one (`DescentIs`); a lookup reaches
  what the driver has at the tokens left (`GoesReached`). In SORFS a lookup that leaves the
  root mounted last (`Astray`) stays at that root, at an entry of it or nowhere, whatever
  tokens follow (`FindNextAstray`, `StrayAnswers`). Each operation then changes one
  entry, one count or one disk (`MountedIs`, `OpensAre`, `ModifyIs`, `ProbeCounts`).

`NetworkProofs`, from `TableAssumption`, `AddrAssumption`, `BoundAssumption` and
`ScriptAssumption`:

* `TypeCorrect` and `PacketsReachAnnounced` follow from `IInv == TypeOK /\ Waiting /\
  WireAgrees /\ TableAgrees /\ SentToAnnounced`. That packets go where their
  destination announced is not inductive alone: it needs that the wire carries
  only true announcements (`WireAgrees`), that every table entry is one, the entry
  that `init_arp` has half written included (`TableAgrees`), and that the entry a
  sender found is still its destination's when it sends (`Waiting`), although
  receive interrupts fall in between.
* `LeaseHonoured` is `LeaseAgrees` for behaviours in which the network is on and a card selected
  whenever a request or a DHCP message is under way (`DhcpUp`); without that the model shows the
  code dropping what the server granted. `LInv` follows the server's last word: the last ack on
  its way is about the lease, and when there is none the card has it (`Leased`); and the last
  request of a static address goes from the task's queue to the server, comes back as a verdict and
  ends in the card with no other request behind it (`Static`, `Toward`). `LeaseHonouredWhileUp`
  discharges `DhcpUp` for all init files that bring the network up before they ask for an address
  and never switch it off (`StaysUp`), as three of the four of the run `net` do; the fourth switches it off
  at its end, when nothing is under way.

`KHeapProofs`, from `SizeAssumption` and `CallAssumption`:

* `HeapInvariant`, `HeapTiles`, `FreeListIsExact` and `HeapNeverWild` share one invariant. It
  says for every block that its end is a block again or the end of the heap, with the same size in the
  tag on both sides (`Good`); that the callers' regions are the allocated blocks with their
  contents (`Held`); and that free blocks and the free list are the same, with no two neighbours
  until a shrinking `krealloc` (`Exact`). Each merge path keeps it because the block that it
  takes over was one: the tags that lie inside it afterwards are dropped.
* `HeapImplements` is the refinement: every call is a step of `Allocator` under the mapping of
  `AllocatorSpec`, or leaves what callers see alone. `HeapKeepsApart` carries the two theorems
  about `Allocator` below over to the heap.

`AllocatorProofs`, from `Addressed` (addresses are numbers, no allocation is empty):

* `AllocationsDisjoint` and `AllocationsKept` say what the abstract allocator
  promises, from the invariant that every allocation is its caller's pattern at
  some positive length. An empty allocation would not do: it could share its
  address with another. The lemma `Refilled` says that a kept prefix with the rest
  filled in is the pattern again, whichever way a reallocation goes.

`Ext2Proofs`, from `Ext2Assumption`, `MkfsAssumption` and `NamesAssumption`:

* `BlocksNeverShared`, `EntriesNameInodes` and `CountsTrailLosses` hold on every disk a power loss may
  leave. None is inductive, since a step only writes what its operation had planned: the
  invariant speaks of all images under way. Each is `Sound` (inodes the code has written have
  their own bit and their block's bit set, share no block, and are all that its entries name)
  and its counts trail by at most one more than there were losses (`Passing`); the last one trails
  by no more than there were losses, and agrees with the descriptor in memory (`Steady`), so that
  the next operation starts where this one ends. The bits come before the inode and the inode
  before its entry, which is why every image is sound (`AllocatesInode`, `AllocatesBlock`,
  `CreatesEntry`); unlinking clears the entry and counts the link down. A loss turns `Passing` into
  `Steady` for one loss more, because the descriptor is read again.
* `NamesListedOnce` and `ListedAreFound` are about the chain of entries. A scan of a block follows
  the lengths that the entries state, so it is put in closed form first, as a function over offsets
  whose existence is an induction over the range of offsets (`RangeInduct` upwards for what a scan
  visits, `RangeInductDown` for where it ends). Appending shortens the last entry and adds one
  behind it: the scan then visits what it visited before, and the new entry (`EntryAppended`);
  clearing an entry leaves the chain alone (`EntryCleared`). So `Orderly`, that every listed name
  is a name and none is listed twice, is kept by each rewrite, since `EXT2_createEntry`
  refuses a name that its own scan meets. The scan of `EXT2_finddir` rounds an entry's length
  differently, and agrees with that of `EXT2_listdir` up to the first name of a length that is a multiple
  of four (`ListedFound`).

`StorageProofs`, from `LogAssumption`, `BlocksAssumption` and `FilesAssumption`:

* `StaysInBuffer` and `KeepsLast` share the invariant `LogInv`: the type of the state, the
  position inside the buffer or, only between the increment and the wrap, at its
  end (`Inside`), what the register may hold in the interrupted call (`WritesBack`),
  that the byte behind the buffer is reached only after an interrupt cut in (`Guarded`),
  and, while none has, that the position is the number of characters modulo the
  size and every cell holds the last character with its remainder (`Ring`). The
  lemmas on `%` carry the step from one character to the next round the end.
* `SlicesRead` and `SlicesWritten`: the sector loop adds up the lengths of its pieces (`Done`), so
  the loop is first put in closed form: sector *c* begins `StartOf(c)` bytes into the request
  (`DoneIs`, by induction over the range of sectors, `RangeInduct`), and its piece ends where the
  next one begins (`PieceIs`). Pieces that follow one another make up the slice
  (`FlattenPieces`), and a byte of the disk is in one of them exactly if it was asked for
  (`WriteIs`). A call states its own result, so the invariant only adds the shape of the state
  (`Shapes`).
* `FilesKept` has two halves. The block map: `get_DBlock_num(i)` is *i* written with digits in base
  `PerBlock` below one, two or three levels (`DigitsOf`), which orders the slots as the tool that
  made the disk fills them (`OrderOfSlots`), so the *i*-th slot in that order is the one the
  code looks at (`SlotOfIs`, by counting the earlier ones), and a number beyond the map meets none
  of them (`SlotsApart`). The loops: a read is put together of pieces like a sector read
  (`PartIs`, `FileReadIs`), and a write changes only blocks that the written part maps to
  (`WriteFrames`, by induction over the loop). The invariant `FileInv` adds to the property that
  a byte whose origin is known lies in a block that the file holds, and not in block 0 that
  stands for the unset ones: without it, a stray write of another file to block 0 could reach it.
* `StorageHolds` carries all of them, and the log, over to the composition.

`MachineProofs`, about the parts of `MCMachine` and the screen, from `PagingAssumption`, `NicAssumption`,
`AmAssumption`, `RtcAssumption`, `PciAssumption` and `ScreenAssumption`:

* `PagingInvariant`, `FramesStayApart`, `KernelStaysShared`: every frame that a table maps, that
  a table or directory lies in, or that is in use is accounted for once, through boot, the growth of the heap, new
  processes and BIOS calls. `alloc_region` maps one page after the other;
  that what it leaves is right is shown by the least page for which it would not be.
* `FramesSentInOrder` (RTL8139): while not `crowded`, frame *f* uses descriptor (*f* - 1) % 4,
  exactly the frames started and not yet sent are in busy descriptors, and the card's
  next descriptor is that of its next frame. The property alone is not inductive:
  without the descriptors it does not follow which frame the card sends next.
* `PacketsReceivedInOrder` (RTL8139): `NicRecvInv` gives each stored packet a position, counted
  without wrapping, from the reader to the writer; the ring is those positions modulo its size. The
  reader is right until it meets the end exactly (`met`).
* `RingFramesSent`, `RingPacketsReceived` (AMD card): the state says how many frames were started and
  how many packets stored only modulo the descriptors, so the invariants say that there are
  counters of which the indices are the remainders.
* `ClockReadIsShown`: `RtcInv` says when the passes were read: what the last pass has so far between its
  beginning and now, the one before it from its beginning to its end. The update flag is what the loop
  waits on only between passes, so one pass may be torn; two equal passes cannot be, because
  a reading takes less than a minute (`MaxUpdates < Seconds`), and a field that is equal at
  two times less than a minute apart was equal in between. The rest is that each of the four encodings
  of register B decodes back.
* `PowerStateAsAsked`: the calls that an operation has still to make end by asking
  for its state once, with the interface connected and enabled just before (`Asking`); a call that
  fails leaves that shape, and the flags agree with the BIOS throughout.
* `CardsAreFound`: for every machine with the addresses and headers that the PCI standard
  prescribes (`PciAssumption`). The stack of scans is the state that matters: all but the innermost
  wait in a bridge, and the outermost has not passed a device on bus 0 that is looked for
  (`Ongoing`), so when it ends, or when the stack does, that device was not before it (`NotPassed`). The
  enumeration, which stops at a gap, skips only what is not `Enumerated` (`SlotGoesOn`).
* `MachineKeepsFrames`, `MachineReceives`, `MachineSends`, `MachineClock`, `MachineFinds` and `MachinePower` carry them over to
  the composition: whatever part a behaviour steps, the others keep their initial values.
* `ScreenShowsPaper`: `SInv` says at each step of `putchar` and `clear` which rows of the
  paper stand on the screen and how many of them `scroll` has moved (`InStep`), as long as no handler
  cut in, and where the cursor can be whoever did (`Kept`): at most one row below the
  screen, and past the right margin only before the wrap. What is drawn at a place is the last
  character printed there, so one character more changes one place (`DrawnMore`), and the row that
  `scroll` blanks is one on which the paper has nothing yet, because it is only written downwards
  (`TrailSpots`, `DrawnBelow`).

Only model-checked: liveness (`KeyboardEnds`, `ScriptEnds`), which TLAPS does not
prove; and the tokens and numbers of `Text` and the init files of `InitFile`
(`SplitResolves`, `NumbersPrinted`, `InitFilesFollowed`). Their reference definitions
recurse over strings: what such a function computes for every input needs induction with
theorems that take an operator as a parameter, which the provers cannot instantiate.

## 6. What is not modelled

`PROJECT.json` lists every component with its status.

* Left out for good: graphics, fonts and VESA (pixels, data), serial port, sound, port and
  MMIO access (register I/O), math, cpuid and hex dumps (pure helpers), descriptor tables
  and boot (straight-line set-up), exceptions (print and halt).
* The spinlock is taken once, in `init()`, and never contended, so there is no behaviour to
  check; its argument is the line buffer, and what it locks is the word that the buffer's
  second word points to.
* Code without a caller: `free_page`, `free_region`, `copy_page_table`, a `ksbrk` that shrinks,
  `list_destroy`, `logdisk_store` with its change of size, EXT2's `free_block`, `free_inode`
  and `chmod`.
* Code that is modelled although this version does not start it: `load_initfile` has no
  caller (so `InitFile` and the commands of `Network` show what the shipped init file
  would do), and program/shell.c's keyboard handler is replaced at boot.
* System call 6 (write) reads: syscall.c:54 calls `VFS_read`. The call gate forwards only,
  so no property is stated of it.
* Inside the modelled components, section 3 says what each model leaves out; the
  largest are interrupts inside malloc, stacks and register values, ICMP, several
  network cards and interfaces, and the polling protocol of one disk command.
