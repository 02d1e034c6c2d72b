------------------------------ MODULE Paging ------------------------------
(***************************************************************************)
(* Frames and page tables (mem/pmm.c, mem/paging.c): the bitmap of frames, *)
(* the kernel's directory, the growth of the heap, and the directories of  *)
(* processes, which share the kernel's tables.                             *)
(*                                                                         *)
(* Addresses are page numbers. A table maps Span pages; table 0 of the     *)
(* address space maps low memory, KernelTable the kernel from KERNEL_BASE  *)
(* on, the tables after it the heap, and the table before it ends in the   *)
(* stacks of processes. No call gives a page or a frame back: ksbrk's      *)
(* argument is unsigned, and free_region and free_page have no caller.     *)
(***************************************************************************)
EXTENDS Integers, Sequences, FiniteSets

CONSTANTS
  NumFrames,      \* total_blocks
  Span,           \* pages of a table, 1024
  KernelTable,    \* index of the kernel's first table in a directory, 768
  LastTable,      \* the last index of a directory, 1023
  LowPages,       \* the pages below 0x10000 and the one at it are identity mapped
  HeapInitial,    \* pages of the heap mapped at boot
  HeapMax,        \* pages below heap_max
  StackPages,     \* of a process, 4
  TempTables,     \* tables that fit between the frame bitmap and the heap
  MaxProcs        \* bound

ASSUME PagingAssumption ==
  /\ {NumFrames, Span, KernelTable, LastTable, LowPages, HeapInitial, HeapMax, StackPages, TempTables, MaxProcs} \subseteq Nat
  /\ 0 < KernelTable /\ KernelTable < LastTable
  /\ 0 < LowPages /\ LowPages < Span /\ StackPages < Span
  /\ Span + HeapInitial + 1 <= NumFrames /\ HeapInitial <= HeapMax
  /\ HeapMax <= (LastTable - KernelTable) * Span

VARIABLES
  mem,        \* the bitmap, the tables in the order of their creation, the directories
  heap_end,   \* in pages from the start of the heap
  procs,      \* number of processes; directory 0 is the kernel's, p that of process p
  current,    \* the directory in CR3
  born,       \* history: process -> number of tables when its directory was copied
  pstatus     \* "ok", "fault", or "wild" after a frame or a table outside what there is

pagevars == <<mem, heap_end, procs, current, born, pstatus>>

NULL   == 0
Absent == -1
KERNEL_BASE == KernelTable * Span
KHEAP_START == KERNEL_BASE + Span

-----------------------------------------------------------------------------
(* first_free_block and alloc_block. With no frame free, bit -1 is set: a byte far outside. *)

FreeFrames(used) == {f \in 0..NumFrames - 1 : f \notin used}
first_free_block(used) == CHOOSE f \in FreeFrames(used) : \A g \in FreeFrames(used) : f <= g
alloc_blockNext(used) == used \cup {first_free_block(used) + 1}      \* mutant: the bit after it is set
alloc_block(used) == used \cup {first_free_block(used)}

(* alloc_page: the table is made when it is missing (d_kmalloc), and a page that is present is
   left as it is. Frame 0 means any frame, so page 0 is not identity mapped. *)
WithTable(M, d, i) ==
  IF M.dirs[d][i] # NULL THEN M
  ELSE [M EXCEPT !.tables = Append(@, [k \in 0..Span - 1 |-> Absent]),
                 !.dirs = [@ EXCEPT ![d][i] = Len(M.tables) + 1]]
alloc_pageAgain(M, d, v, frame) ==      \* mutant: a page that is present gets a new frame
  LET M1 == WithTable(M, d, v \div Span)
      t  == M1.dirs[d][v \div Span]
  IN  IF FreeFrames(M1.used) = {} THEN [M1 EXCEPT !.out = TRUE]
      ELSE [M1 EXCEPT !.tables = [@ EXCEPT ![t][v % Span] = IF frame # 0 THEN frame ELSE first_free_block(M1.used)],
                      !.used = IF frame # 0 THEN @ ELSE alloc_block(@)]
alloc_page(M, d, v, frame) ==
  LET M1 == WithTable(M, d, v \div Span)
      t  == M1.dirs[d][v \div Span]
  IN  IF M1.tables[t][v % Span] # Absent THEN M1
      ELSE IF frame # 0 THEN [M1 EXCEPT !.tables = [@ EXCEPT ![t][v % Span] = frame]]
      ELSE IF FreeFrames(M1.used) = {} THEN [M1 EXCEPT !.out = TRUE]
      ELSE [M1 EXCEPT !.tables = [@ EXCEPT ![t][v % Span] = first_free_block(M1.used)],
                      !.used = alloc_block(@)]

(* alloc_region maps the page of the end address too. *)
alloc_region(M, d, first, last, iden_map) ==
  LET after[v \in first - 1..last] ==
        IF v < first THEN M ELSE alloc_page(after[v - 1], d, v, IF iden_map THEN v ELSE 0)
  IN  after[last]

NoDir == [i \in 0..LastTable |-> NULL]
EmptyMem == [used |-> {}, out |-> FALSE,           \* out: frames have run out
             tables |-> <<>>, dirs |-> [d \in 0..MaxProcs |-> NoDir]]

(* init_pmm and init_paging: the kernel's 4 MB, the first pages of the heap, low memory. *)
init_paging ==
  alloc_region(alloc_region(EmptyMem, 0, KERNEL_BASE, KHEAP_START + HeapInitial - 1, FALSE), 0, 0, LowPages, TRUE)

PagingInit ==
  /\ mem = init_paging /\ heap_end = HeapInitial
  /\ procs = 0 /\ current = 0 /\ born = <<>> /\ pstatus = "ok"

After(M) == IF M.out \/ Len(M.tables) > TempTables THEN "wild" ELSE "ok"

(* virt2phys through a directory, in frames *)
virt2phys(M, d, v) ==
  LET t == M.dirs[d][v \div Span]
  IN  IF t = NULL THEN Absent ELSE M.tables[t][v % Span]

-----------------------------------------------------------------------------
(* ksbrk maps page after page up to the new boundary; below heap_end there is nothing to do. *)
ksbrk(boundary) ==
  /\ pstatus = "ok" /\ heap_end < boundary /\ boundary <= HeapMax
  /\ mem' = alloc_region(mem, 0, KHEAP_START + heap_end, KHEAP_START + boundary - 1, FALSE)
  /\ heap_end' = boundary /\ pstatus' = After(mem')
  /\ UNCHANGED <<procs, current, born>>

(* copy_page_dir from the kernel's directory: every table is shared. The branch that copies a
   table is for a source other than the kernel's directory, which no caller has. *)
copy_page_dirShort(src) == [i \in DOMAIN src |-> IF i = KernelTable + 1 THEN NULL ELSE src[i]]     \* mutant: a bound too low
copy_page_dir(src) == src

(* create_process_from_routine: the directory, then the stack below KERNEL_BASE and, because
   alloc_region includes its end, the page at KERNEL_BASE, in a table of the kernel. *)
create_process ==
  /\ pstatus = "ok" /\ procs < MaxProcs
  /\ procs' = procs + 1 /\ current' = procs'
  /\ LET M == [mem EXCEPT !.dirs = [@ EXCEPT ![procs + 1] = copy_page_dir(mem.dirs[0])]]
     IN  mem' = alloc_region(M, procs + 1, KERNEL_BASE - StackPages, KERNEL_BASE, FALSE)
  /\ born' = Append(born, Len(mem.tables)) /\ pstatus' = After(mem')
  /\ UNCHANGED heap_end

(* context_switch loads the directory of the process. *)
switch_page_dir(p) ==
  /\ pstatus = "ok" /\ p # current /\ current' = p
  /\ UNCHANGED <<mem, heap_end, procs, born, pstatus>>

(* bios32_helper's page is identity mapped before each BIOS call. *)
bios32_service ==
  /\ pstatus = "ok" /\ mem' = alloc_region(mem, 0, 1, LowPages, TRUE)
  /\ UNCHANGED <<heap_end, procs, current, born, pstatus>>

(* Whoever runs, the kernel below uses its own memory and heap; a page that the current
   directory does not map ends in page_fault_handler, which panics. *)
touch(v) ==
  /\ pstatus = "ok" /\ virt2phys(mem, current, v) = Absent
  /\ pstatus' = "fault" /\ UNCHANGED <<mem, heap_end, procs, current, born>>

PagingNext ==
  \/ \E boundary \in 1..HeapMax : ksbrk(boundary)
  \/ create_process \/ bios32_service
  \/ \E p \in 1..procs : switch_page_dir(p)
  \/ \E v \in KERNEL_BASE..KHEAP_START + heap_end - 1 : touch(v)

PagingSpec == PagingInit /\ [][PagingNext]_pagevars

-----------------------------------------------------------------------------
(* Properties. *)

Entries(M) == {e \in (DOMAIN M.tables) \X (0..Span - 1) : M.tables[e[1]][e[2]] # Absent}
FrameAt(M, e) == M.tables[e[1]][e[2]]
IsLowAndKernel(e, f) == e[1] = mem.dirs[0][0] /\ f = <<mem.dirs[0][KernelTable], e[2]>> /\ e[2] # 0

(* While frames last, no frame is mapped at two places, in whichever directories, except the pages
   of low memory, which the kernel maps a second time at KERNEL_BASE: a process's stack is nobody
   else's memory, and the heap never grows over it (alloc_block, alloc_page). *)
FramesApart ==
  pstatus # "wild" =>
    \A e, f \in Entries(mem) :
      (e # f /\ FrameAt(mem, e) = FrameAt(mem, f)) => IsLowAndKernel(e, f) \/ IsLowAndKernel(f, e)

(* Every directory maps the kernel's 4 MB where the boot code had them, frame k at page k, although
   the stack of each process is mapped one page too far; and every page of the heap the way the
   kernel's directory does, unless its table was made after the process. Only then does the kernel
   fault on its own heap inside that process (copy_page_dir, ksbrk). *)
Missing(p) == {v \in KHEAP_START..KHEAP_START + HeapMax - 1 : virt2phys(mem, p, v) # virt2phys(mem, 0, v)}
Younger(p, v) == mem.dirs[0][v \div Span] > born[p]
KernelShared ==
  /\ \A p \in 0..procs : \A k \in 0..Span - 1 : virt2phys(mem, p, KERNEL_BASE + k) = k
  /\ \A p \in 1..procs : \A v \in Missing(p) : Younger(p, v)
  /\ pstatus = "fault" => \E v \in Missing(current) : Younger(current, v)
=============================================================================
