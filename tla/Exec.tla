-------------------------------- MODULE Exec --------------------------------
(***************************************************************************)
(* Memory from the boot to the running of programs: the heap               *)
(* (src/mm/kmalloc.c, src/kernel/memory.c), the one page context that all  *)
(* tasks share (src/cpu/paging.c) and the loader (src/kernel/exec.c), with *)
(* the first caller init_process and the later ones, programs in SYS_EXEC. *)
(*                                                                         *)
(* An address is a number of cells and a page has PageSz cells.  The heap  *)
(* is mapped to itself and stays so: programs are linked below it          *)
(* (userspace/link.ld) and the stack is far above, so the kernel's own     *)
(* writes are taken as writes to physical memory.  The machine has RamEnd  *)
(* cells; what is written beyond them is lost.  Nothing is ever freed.     *)
(***************************************************************************)
EXTENDS Integers, FiniteSets

CONSTANTS
    PageSz,         \* cells of a page
    Span,           \* pages that one page table maps
    UserPages,      \* the pages programs are linked at
    HeapStart,      \* first cell of the heap (heap_ptr)
    RamEnd,         \* first cell that does not exist
    StackTop,       \* the page above the stack (USER_STACK_TOP)
    StackPages,     \* pages of the stack (USER_STACK_SIZE)
    MaxSize,        \* bound: cells of a segment, in memory and in the file
    MaxAllocs,      \* bound: allocations of the kernel at boot
    MaxLoads,       \* bound: segments loaded, in all
    MaxExecs        \* bound: calls of exec

ASSUME ExecAssumption ==
    /\ PageSz \in Nat \ {0} /\ Span \in Nat \ {0}
    /\ HeapStart \in Nat /\ RamEnd \in Nat /\ HeapStart <= RamEnd
    /\ UserPages \subseteq Nat
    /\ \A p \in UserPages : (p + 1) * PageSz <= HeapStart
    /\ StackTop \in Nat /\ StackPages \in Nat
    /\ (StackTop - StackPages) * PageSz >= RamEnd
    /\ MaxSize \in Nat

Cell == 0 .. RamEnd - 1
LowTables == {p \div Span : p \in 0 .. (RamEnd - 1) \div PageSz}
Segment == [page : UserPages, off : 0 .. PageSz - 1, memsz : 0 .. MaxSize]

\* What a cell may hold besides the bytes of files.
Junk == -1
Kernel == -2

VARIABLES
    mem,        \* physical memory
    pages,      \* the pages exec has mapped, each to the cell where it begins
    tables,     \* the page tables there are
    heap_ptr,
    running,    \* who runs: "boot", "init", a "program", or nobody: "halted"
    loading,    \* exec is at work, and for whom: "no", "init" or "program"
    allocs, loads, execs,
    kernel,     \* history: the cells the kernel has taken for itself
    image       \* history: what each cell of the program in memory should hold

vars == <<mem, pages, tables, heap_ptr, running, loading, allocs, loads, execs, kernel, image>>
counters == <<allocs, loads, execs>>

\* paging_init: the memory is mapped to itself.
Init ==
    /\ mem = [c \in Cell |-> Junk]
    /\ pages = << >>
    /\ tables = LowTables
    /\ heap_ptr = HeapStart
    /\ running = "boot" /\ loading = "no"
    /\ allocs = 0 /\ loads = 0 /\ execs = 0
    /\ kernel = {}
    /\ image = << >>

-----------------------------------------------------------------------------
(***************************************************************************)
(* The heap.                                                               *)
(***************************************************************************)

Cells(from, size) == from .. from + size - 1

\* Mutant of AlignUp: an address is aligned downwards.
AlignDown(a) == (a \div PageSz) * PageSz

AlignUp(a) == ((a + PageSz - 1) \div PageSz) * PageSz

\* kmalloc_aligned asks kmalloc for size + align; the heap pointer afterwards.
\* The memory it returns begins at AlignUp(h).
Reserve(h, size) == h + size + PageSz

\* Memory after a write of content(c) to the cells that exist.
Written(m, cells, content(_)) == [c \in Cell |-> IF c \in cells THEN content(c) ELSE m[c]]
Zero(c) == 0
OfKernel(c) == Kernel

\* kmalloc, or kmalloc_a, at boot: the kernel's page context, a task and its stack,
\* the buffers of the network card.
KernelAlloc(size, aligned) ==
    /\ running = "boot"
    /\ allocs < MaxAllocs
    /\ LET at == IF aligned THEN AlignUp(heap_ptr) ELSE heap_ptr
       IN  /\ heap_ptr' = at + size
           /\ mem' = Written(mem, Cells(at, size), OfKernel)
           /\ kernel' = kernel \cup Cells(at, size)
    /\ allocs' = allocs + 1
    /\ UNCHANGED <<pages, tables, running, loading, loads, execs, image>>

-----------------------------------------------------------------------------
(***************************************************************************)
(* Paging.                                                                 *)
(***************************************************************************)

\* The tables that mapping n pages from page v on needs and that are missing.
Missing(v, n) == {p \div Span : p \in v .. v + n - 1} \ tables

\* paging_map_page takes the missing tables from the heap, each in its turn.
TableCells(h, v, n) ==
    UNION {Cells(AlignUp(h + k * 2 * PageSz), PageSz) : k \in 0 .. Cardinality(Missing(v, n)) - 1}

\* The pages after a loop of paging_map_page over n pages from page v on.
Mapped(v, n, base) ==
    [p \in DOMAIN pages \cup v .. v + n - 1 |->
        IF p \in v .. v + n - 1 THEN base + (p - v) * PageSz ELSE pages[p]]

\* What the program in memory keeps when these pages are mapped anew.
Kept(v, n) ==
    {a \in DOMAIN image : a \div PageSz \notin v .. v + n - 1}

-----------------------------------------------------------------------------
(***************************************************************************)
(* The loader.                                                             *)
(***************************************************************************)

\* init_process starts when the boot is over.
StartInit ==
    /\ running = "boot"
    /\ running' = "init"
    /\ UNCHANGED <<mem, pages, tables, heap_ptr, loading, counters, kernel, image>>

\* exec is called by init_process or, through SYS_EXEC, by a program.
ExecStart ==
    /\ running \in {"init", "program"} /\ loading = "no"
    /\ execs < MaxExecs
    /\ execs' = execs + 1
    /\ loading' = running
    /\ UNCHANGED <<mem, pages, tables, heap_ptr, running, allocs, loads, kernel, image>>

\* The file cannot be opened or is no program, or a program header cannot be read.
\* The program goes on with -1, init_process halts; what was loaded stays.
ExecFails ==
    /\ loading # "no"
    /\ loading' = "no"
    /\ running' = IF loading = "init" THEN "halted" ELSE "program"
    /\ UNCHANGED <<mem, pages, tables, heap_ptr, counters, kernel, image>>

PageCount(seg) == (seg.memsz + PageSz - 1) \div PageSz

\* The content of a segment: byte i of what was read, then zeros.  No two files or
\* segments have a byte in common.
Byte(i, got) == IF i < got THEN 1 + i + MaxSize * (loads + MaxLoads * execs) ELSE 0

\* Mutant of SegmentMem: the offset of the segment in its page is forgotten.
SegmentMemAtPage(seg, got, base) ==
    LET cleared == Written(mem, Cells(base, PageCount(seg) * PageSz), Zero)
        FromFile(c) == Byte(c - base, got)
    IN  Written(cleared, Cells(base, got), FromFile)

\* The memory is cleared, then the file is read into it.
SegmentMem(seg, got, base) ==
    LET at == base + seg.off
        cleared == Written(mem, Cells(base, PageCount(seg) * PageSz), Zero)
        FromFile(c) == Byte(c - at, got)
    IN  Written(cleared, Cells(at, got), FromFile)

\* One program header of type PT_LOAD.  How many bytes fat32_read got, at most the
\* segment's size in the file, is not looked at.  The program expects its segment
\* where it is linked, as far as the pages go: their number does not count the
\* offset in the first.
LoadSegment(seg, got) ==
    /\ loading # "no"
    /\ loads < MaxLoads
    /\ loads' = loads + 1
    /\ LET n == PageCount(seg)
           base == AlignUp(heap_ptr)
           h == Reserve(heap_ptr, n * PageSz)
           start == seg.page * PageSz + seg.off
           own == {a \in Cells(start, seg.memsz) : a < (seg.page + n) * PageSz}
           kept == Kept(seg.page, n)
       IN  /\ mem' = SegmentMem(seg, got, base)
           /\ pages' = Mapped(seg.page, n, base)
           /\ heap_ptr' = h
           /\ image' = [a \in own \cup kept |->
                            IF a \in own THEN Byte(a - start, got) ELSE image[a]]
    /\ UNCHANGED <<tables, running, loading, allocs, execs, kernel>>

\* All headers are done: the stack, cleared, with the page table it may need, and
\* the jump to the program.
Enter ==
    /\ loading # "no"
    /\ LET v == StackTop - StackPages
           n == StackPages
           base == AlignUp(heap_ptr)
           h == Reserve(heap_ptr, n * PageSz)
           own == Cells(v * PageSz, n * PageSz)
           table == TableCells(h, v, n)
           kept == Kept(v, n)
       IN  /\ mem' = Written(Written(mem, Cells(base, n * PageSz), Zero), table, OfKernel)
           /\ heap_ptr' = h + Cardinality(Missing(v, n)) * Reserve(0, PageSz)
           /\ pages' = Mapped(v, n, base)
           /\ tables' = tables \cup Missing(v, n)
           /\ kernel' = kernel \cup table
           /\ image' = [a \in own \cup kept |-> IF a \in own THEN 0 ELSE image[a]]
    /\ running' = "program" /\ loading' = "no"
    /\ UNCHANGED counters

Next ==
    \/ \E size \in 1 .. MaxSize, aligned \in BOOLEAN : KernelAlloc(size, aligned)
    \/ StartInit \/ ExecStart \/ ExecFails \/ Enter
    \/ \E seg \in Segment, got \in 0 .. MaxSize : LoadSegment(seg, got)

Spec == Init /\ [][Next]_vars

-----------------------------------------------------------------------------
(***************************************************************************)
(* Properties.                                                             *)
(***************************************************************************)

InRam == heap_ptr <= RamEnd

\* The program in memory finds at every address what it was linked to find there:
\* the bytes of its file, zeros behind them, a stack of zeros, also when segments
\* overlap in a page and the later one takes it, and when earlier loads have left
\* the heap unaligned.  After an exec that failed half-way the caller has just the
\* pages that were not yet taken from it.
ImageInPlace ==
    InRam => \A a \in DOMAIN image :
                /\ a \div PageSz \in DOMAIN pages
                /\ mem[pages[a \div PageSz] + (a % PageSz)] = image[a]

\* Memory has one owner: a page given to a program holds nothing of the kernel and
\* is mapped nowhere else, and nothing was ever written over what the kernel took,
\* its page tables included, however far a segment's file runs over its memory.
OneOwner ==
    InRam =>
        /\ \A c \in kernel : mem[c] = Kernel
        /\ \A p \in DOMAIN pages :
              /\ Cells(pages[p], PageSz) \cap kernel = {}
              /\ \A q \in DOMAIN pages \ {p} : pages[p] # pages[q]
=============================================================================
