# A TLA+ model of QuantumKernel

QuantumKernel is a small 32-bit x86 kernel: one address space, cooperative
tasks, a FAT32 disk behind an ATA driver, a network stack on an RTL8139 card, a
framebuffer terminal, and a shell in user mode. This directory models the parts
of it that keep state, checks them with TLC on small instances, and proves the
most important invariants with TLAPS for every instance.

File paths below are relative to the kernel's `src/` directory (`src/kernel`,
`src/drivers`, ...), or to `userspace/`.

## The system

### What runs concurrently

Every interrupt gate and the system call gate `int 0x80` clear the interrupt flag
(`cpu/idt.c`), and nothing in a handler sets it again. So a system call and an
interrupt handler never interleave with each other: each is one step of the
models. Concurrency is what remains:

* the order in which interrupts (timer, keyboard, mouse, network card) and system
  calls follow one another;
* the hardware: the disk drive, the network card and the network go on while a
  handler runs, so the ATA driver and the card's interrupt handler are modelled
  step by step; so do the devices behind the PS/2 controller, which fill its one
  buffer while `mouse_init` polls it;
* failures: a disk access that fails, and a loss of power between any two of them;
* tasks, which give up the processor only in `task_schedule`.

### Inventory

| Component | State | Operations | Interacts with | What must be right |
|---|---|---|---|---|
| Keyboard (`drivers/keyboard.c`, `SYS_READ`) | ring of characters, prefix flag | interrupt, read | shell polls it; shares the PS/2 controller with the mouse | no key lost, repeated or reordered; a full ring drops only the new key |
| Tasks (`kernel/task.c`, `scheduler.c`, `context_switch.asm`, `drivers/timer.c`) | circular list, states, wake-up ticks, tick counter | create, yield, sleep, exit, kill, tick | every system call that blocks | the ring stays whole, zombies stay dead, sleepers wait their time, nobody starves |
| Boot (`kernel/kernel.c`, `init.c`, `steps.c`) | where `kernel_main` stands | create init, schedule, fail | tasks | the shell keeps the processor |
| FAT32 (`fs/fat32.c`, `user/syscall.c`) | allocation table, directories, open files, current directory and path stack | open, close, read, write, seek, unlink, mkdir, chdir, readdir | disk driver | no shared, lost or dangling cluster; sizes covered; every entry found; path and directory agree |
| ATA driver (`drivers/ata.c`) | the drive's state, the call under way | identify, read, write | FAT32 | an answer belongs to its call; failed writes are not on the disk; calls return |
| Network (`drivers/net/`) | ARP table, queue of waiting packets, ping state | ping, ARP request/add, init, received frames | card driver, timer | one entry per address; a packet is sent once, waits, or is given up |
| PCI (`drivers/pci/`) | table of devices, the recursion | enumerate, register drivers | card driver | every device found, once; the search ends |
| RTL8139 (`drivers/rtl8139/`) | receive ring and offset, transmit descriptors | init, send, interrupt | PCI, network stack, the card | frames in order; a frame lost only where the code accepts it |
| Terminal (`drivers/fb_terminal.c`) | cursor, pixels, saved background of the pointer | write, clear, paint pointer | timer, mouse, shell | the cursor stays on the screen; the pointer leaves no trace |
| Mouse (`drivers/mouse.c`) | position, packet bytes | init, interrupt | PS/2 and interrupt controller, terminal | the keyboard keeps working; packets stay in step; the pointer follows |
| Shell (`userspace/shell.c`) | line buffer | keys, commands | all system calls | what is on the screen is the command |
| Loader, memory, paging (`kernel/exec.c`, `mm/`, `kernel/memory.c`, `cpu/paging.c`) | heap pointer, page tables, physical memory | kmalloc, map, exec | FAT32, init task, programs | a program finds its image in its pages; memory has one owner |
| Interrupt entries and controller (`cpu/irq.asm`, `drivers/pic.c`) | pending requests, open lines | entry, acknowledgement | keyboard, mouse, card | a request reaches its handler |
| GDT, IDT, TSS, RTC, power, libraries | tables written at boot, or none | | | |

What is hard here: key and timer interrupts between any two system calls; a drive
that answers after its call gave up; frames that are late, repeated or lost; a
disk that fills up, fails or loses power in the middle of an operation; a byte
polled during the boot that was meant for someone else; an `exec` that fails when
half of the caller is overwritten; counters that wrap; and loops that run with
interrupts off. `PROJECT.json` lists these hazards at their lines.

## Modules

| Module | Models | Notes |
|---|---|---|
| `BoundedFifo` | what the keyboard promises | abstract specification |
| `Keyboard` | `keyboard_irq`, `kbd_push`, `kbd_pop` in `SYS_READ` | implements `BoundedFifo` with `queue <- Pending`, `input <- accepted` |
| `Ps2`, `MCPs2` | extends `Keyboard` with `mouse_init`, `mouse_irq`, the PS/2 controller and the interrupt entries | keyboard and mouse composed |
| `Tasks` | `task_*`, `task_schedule`, `context_switch`, `timer_callback` | any task may call anything |
| `Boot` | extends `Tasks` with `kernel_main` and the init task | who really calls |
| `Fat32`, `MCFat32` | the file system behind its system calls | |
| `FatListing` | extends `Fat32` with `fat32_readdir` and the shell's loop | |
| `FatDisk`, `MCFatDisk` | the file operations of `fat32.c` as disk accesses that may fail, and loss of power | |
| `Net` | `arp.c`, `ip.c`, `icmp.c`, `ethernet.c`, and the hosts | |
| `Rtl8139` | `rtl8139_send`, `rtl8139_irq_handler`, and the card | |
| `Pci` | `pci_enumerate` on any machine | |
| `NetCard`, `MCNetCard` | `Pci`, then `pci_register_drivers`, then `Rtl8139` | composition |
| `Ata` | `ata_*`, and the drive | |
| `Screen` | `term_putc` as operators on a terminal | shared by the next two |
| `Terminal`, `MCTerminal` | text and the mouse pointer | |
| `ShellLine`, `MCShellLine` | the shell's line editor on `Screen` | |
| `Exec` | `kmalloc*`, `paging_map_page`, `exec`, `init_process`, `SYS_EXEC` | |
| `KeyboardProofs` | theorems about `Keyboard` and `Ps2` | |
| `NetProofs` | theorems about `Net`, `Rtl8139`, `Pci` and `NetCard` | |
| `TasksProofs`, `TerminalProofs`, `AtaProofs`, `ExecProofs`, `Fat32Proofs`, `FatDiskProofs` | theorems about the module of that name; `Fat32Proofs` also about `FatListing`, `TerminalProofs` about `ShellLine` | |

Operators named `...Unchecked`, `...Stale` and the like, introduced by "Mutant of",
are wrong versions of the definition below them. They are not part of a
specification; put in place of the right version, they show that a property would
notice.

### How state and actions correspond to the code

**Keyboard.** `kbd_buf`, `kbd_head`, `kbd_tail` and `extended` are the driver's
variables; `accepted` and `delivered` are histories. Characters are signed, as
`char` is in this build, so the cursor keys' codes 0x80..0x83 are negative:
`kbd_pop`'s caller cannot tell them from "empty". The model keeps this: a cursor
key is taken out of the ring, ends the read and is not delivered.

**Ps2.** The controller (external) has one output buffer for keys, mouse bytes and
its own answers. `mouse_init` polls it with interrupts off, once for the
configuration byte and once for the mouse's acknowledgement, and takes whatever byte
comes. Two things can go wrong, both marked by the history `stray`. A key typed
before the first poll is read as the configuration, and written back as such. And the
interrupt request of a polled byte may still be pending at the interrupt controller
when `sti` comes (both kinds of controller are in the model): the handler then reads
the last byte again, and 0xFA, which has bit 3 set, begins a packet. Without either,
configuration, bytes and packets are right. What happens after: `mouse_irq` has no
other way back into step than a first byte without bit 3.

**Tasks.** A pid indexes functions for the fields of `task_t`. The scheduler's
loop is described by the lap `w` of the ring it walks: it stops at the first task
that is runnable, waking (and passing over) the due sleepers before it; if none
was runnable it stops in the second lap at one it has woken; otherwise it never
ends (`control = "hung"`). `context_switch` saves `ecx` as the address to resume
at, which no caller sets; resuming such a task is a choice between going on and
landing elsewhere (`"lost"`). `left` and `skipped` are histories. The tick counter
wraps at `TICK_MOD`. `task_sleep` adds milliseconds to a counter of 10 ms ticks
(`timer_init(100)`), so `sleep(n)` lasts n ticks, where the repository's README says
"Sleep for specified milliseconds"; the properties speak of ticks.

**Fat32.** A cluster holds directory slots, or file data ("junk" to anyone who
reads it as a directory). A multi-cluster allocation is one sequence `w` with
`NextFit(w)`: the clusters that so many calls of `fat32_alloc_cluster` return. A
descriptor's copy of first cluster and size is kept apart from the directory
entry's until `SYS_CLOSE`, as in the code. Names are those the 8.3 conversion and
the path stack keep whole.

The calls are made with discipline (`Openable`, `Removable`): a file is open once
at a time, directories are not opened as files, what is open is not unlinked, a
directory is unlinked only when empty. The kernel enforces none of it. Without it:

* a file opened twice and truncated through one descriptor leaves the other with
  released clusters, which the next file shares; so does unlinking an open file;
* a directory opened as a file can be overwritten or truncated as one;
* `rm` of a directory that is not empty loses the clusters of all that is in it;
* `mkdir` of a name that exists makes a second entry with that name, which cannot
  be reached until the first one is gone (this one is part of the model).

The disk that is mounted is the one `build.sh` makes with `mkfs.fat` and `mcopy`, or a
newly formatted one (`Init`): an empty root directory or one with files of at most one
cluster (`RootSlots`), each entry behind the slots of its long name, and any hint where
the search for a free cluster begins; longer files come about by writing (`FatDisk` begins
with an empty disk). The kernel knows long names (`"lfn"` slots) only to pass over them, in
searches (`fat32.c:195`) and in listings (`fat32.c:701`): it never makes one, and after an
`unlink` of the entry the slots of its long name stay, in use for `fat32_create_entry`. Directories that `mcopy -s` would copy (`diskfiles/` has none) are not
in the model. They begin with `.` and `..`, entries that name the directory itself and its
parent; the kernel makes none and treats these as any others.

A listing that passes over a deleted slot or one of a long name returns the entry behind
it once more for each such slot, because `fat32_readdir` adds one to the index whatever it
skipped (`fat32.c:701`, `fat32.c:722`); `ListingComplete` says exactly that, and that
nothing is left out.

**FatDisk.** A call is a list `op.todo` of accesses: table entries (each two writes,
one per copy), the steps of the search along a chain, data, the directory's cluster.
Which cluster the allocator returns is left open; so is which of a cluster's sectors
failed. `fat32_write_fat`'s result is ignored by its callers, so after a failure the
rest of the call goes on. `suspect` is a history of the files a fault may have
damaged:

* the file whose truncation, unlink or table write was cut short, or whose close could
  not replace the entry of a released chain;
* both files of a name when a read error let `open` create it a second time;
* a new file whose entry reached the disk before an error made `open` give back its
  cluster;
* and files that share a cluster with a suspect one, once that one is used.

A loss of power while a file is created or grows damages nothing: clusters are marked
used, then linked, then entered, so at worst they are lost. The reverse order in
`O_TRUNC` and `unlink` (clusters released first, entry last) is the one that hurts.

**Exec.** Memory is an array of cells, `pages` what `exec` has mapped, `image` what
the program in memory should find. A segment's pages are counted from its size alone
(`exec.c:52`): when it begins inside a page, its last bytes may fall into a page that
was not allocated for it, and `image` leaves them out. A segment of a program that
fails to load keeps the pages it has already taken from the caller; the caller, to
which `exec` then returns -1, has only the rest. `fat32_read`'s result is ignored for
segments (`got` may be anything). The heap pointer grows with every `exec` and nothing
checks it against the end of memory: the properties hold while it is below (`InRam`).
`KernelAlloc` also stands for the page context, the tasks and the buffers of the card.
The kernel's own image, below the heap, is not in the model: it begins at 1 MB and programs
are linked at 0x400000 (`userspace/link.ld`), and nothing checks a segment against it.

**Net.** The wire is the set of all frames ever sent; a frame in it may arrive
now, later, again or never; requests no host hears are not kept. A host's Ethernet address is written as its IP
address. `lost` is a history of the pings the IP layer gave up.
The model takes it that the card's interrupt arrives. The kernel unmasks only
IRQ 10 (and 12, for the mouse) on the second controller, so this holds when the
firmware gives the card IRQ 10.

**Pci, NetCard.** A machine is a set of occupied places with a bridge, the card or
something else at each; the recursion of the search is the stack `scan`. A bus that is
reached both through a bridge and as the number of a function of device 0 is entered
twice, and so are its devices; a bridge to its own bus is entered until the table is
full. `FoundOnce` claims single entries for trees, and that nothing is left out while
the table has room; `PciAssumption` says of machines what PCI guarantees and the search
relies on, that a device's function 0 is there when another is. The card runs once
`pci_register_drivers` has found one, and its interrupt reaches the handler when its
line is open: line 10, or one of the first controller's.

**Rtl8139.** Offsets and sizes are in units of 4 bytes. The handler's offset is
not taken modulo the ring's size (`rtl8139.c:213`): at the end of the first lap it
is reset to 0 wherever the card is, so afterwards the handler reads old or broken
headers (`DrainGarbage`). `DeliveredInOrder` and `StrandedOnlyByAck` are therefore
claimed for the first lap; the model goes on beyond it. `start` is a history of where
the card has put each frame, in units since the beginning of the first lap. Errors that the
card reports are not in the model: the handler logs them (`rtl8139.c:222-228`) and does
nothing more, so a frame that the card gives up is lost in a way that
`FrameLostOnlyToFourth` does not speak of.

**Ata.** The steps of the driver are the moments it reads or writes a register
with effect; polls that find nothing are no steps, and a timeout may happen
whenever the awaited bit is not there. The drive takes a command unless it is busy
and is busy from then on. (A real drive may take 400 ns to raise BSY, and the
driver does not wait them out; emulated drives, the kernel's usual home, do not
need it.)

**Screen, Terminal, ShellLine.** A pixel is abstracted to what it is part of.
`Terminal` interleaves text with pointer painting; `tainted` is a history of the
pixels written below the painted pointer, where the next tick puts older pixels
back over the text. `ShellLine` follows the keys of a line on the same `term_putc`;
`tracked` turns false where the code gives up the correspondence: a control
character, which draws nothing; a key the full buffer ignores but the shell
echoes; a line that continues at the top of the screen.

## Runs

Passing runs (every property has a mutant of the code that breaks it):

| Run | Checks | Bounds, and why they are enough |
|---|---|---|
| `ps2` | `NoTypedKeyLost`, `ConfigKept`, `BytesInStep`, `PointerFollows`, `ImplementsFifo`, `EveryKeyIsTaken` | 4 bytes of the keyboard and reports of the mouse, of these 2, at any moment before, in and after `mouse_init`; a ring of 3 fills, empties and wraps; read lengths 0, 1 and more than the ring; a letter, its release, the prefix and a cursor key; reports with a movement byte that could begin a packet, beyond the edges of a screen of 10 by 4 |
| `tasks` | `RingOrder`, `CurrentIsRunnable`, `NotWokenEarly`, `BoundedBypass`, `HangOnlyWhenAllBlocked`, `ZombieForever` | the kernel task and three more, sleeps of 0 and 1, one tick: every state of every task relative to the scheduler's position. Deadlock is allowed: a hung scheduler stops the machine |
| `fat_files` | `NoCrossLink`, `NoDanglingLink`, `SizeCovered`, `OthersUntouched` | 4 clusters, two files and descriptors, a directory, writes of a cluster and seeks of one and a half, so that the disk fills up in mid-write, seeks leave gaps and the allocator wraps; directories of one slot, so that the second file extends the root |
| `fat_dirs` | `NoLostCluster`, `NoHiddenEntry`, `PathMatchesCwd`, `ListingComplete` | module `FatListing`: 4 clusters of two slots, path stack of 2, one name for files and one for directories; nesting deeper than the stack, duplicates and listings over two clusters happen, with deleted slots, slots of a long name and both in a row |
| `net` | `OneEntryPerAddress`, `NoPacketLeftBehind`, `PingInOnePlace`, `QueuedIsSent` | 3 addresses, one live host, table and queue of 2: eviction and a full queue happen; the clock wraps, so that "oldest" ties and lies |
| `terminal` | `CursorOnScreen`, `PointerRestoresText` | 3 by 2 pixels, glyphs of 2 by 1, a pointer of 2 by 2 with opaque and clear pixels, partly off the screen |
| `shell_line` | `LineOnScreen` | 6 cells in 3 lines, a buffer of 5: lines wrap, overflow the buffer and reach the top again |
| `ata` | `ReadReturnsSector`, `FailedWriteHarmless`, `StoredOnSuccess`, `CallReturns` | 2 sectors, 3 writes, faults and hangs at every point |
| `rtl8139` | `FoundOnce`, `EnumerationEnds`, `DeliveredInOrder`, `StrandedOnlyByAck`, `FrameLostOnlyToFourth` | all machines with a host and up to five more functions on two buses, each a bridge to either bus or something else, a table of 5 that fills up; the card on bus 0, behind a bridge, on a closed line and on a bus found twice; a ring of 5 units, frames of 1 or 2, 5 frames in and 5 out through 4 descriptors |
| `fat_crash` | `HarmContained`, `CopiesAgree` | 3 clusters, two names, two slots, files of up to two clusters, one fault (a failed access or a loss of power) at any access, and any calls after it. Clusters and names are interchangeable |
| `exec` | `ImageInPlace`, `OneOwner` | pages of 2 cells, two pages of programs, two allocations of the boot, two segments of any offset and size (file and memory) in two calls of `exec`, a stack of two pages that needs a page table |

Deadlock checking is off where the bounds (writes, frames) or a halted machine
stop the model, and on elsewhere.

A run that ends in a violation, a disagreement of code and documentation:

| Run | Shows |
|---|---|
| `boot` | the only program's `sleep` hands the processor to `kernel_main`, which calls `boot_fail` (or resumes at a stale address) |

Other weaknesses of the code appear in the properties that hold, as exceptions they
have to make; several are described above. A sleep whose
wake-up time wraps at 2^32 ends at once: `NotWokenEarly` is checked and proved
without a wrap. A write that the drive fails after taking the data returns
`ATA_OK`, because `ata_write_sector` looks at neither the result of its last wait
nor ERR: `StoredOnSuccess` has to except it.

### Fairness

* `ps2`: weak fairness of reads of at least one character. The shell
  polls `read(STDIN, &c, 1)` in an endless loop.
* `net`: weak fairness of a live host's answer to an ARP request and of that
  answer's arrival. This is an assumption about the network, not the code; the
  property is about the code that asks only once. Without it a lost answer leaves
  the packet queued for ever, since nothing is retried.
* `ata`: weak fairness of the driver's steps, which run with interrupts
  off and are not preempted. None for the drive.
* `rtl8139`: weak fairness of the enumeration and of the drivers' initialisation,
  which `kernel_main` runs through with interrupts off. None for the card.
* `boot`: weak fairness of `kernel_main`'s steps and of the timer. None for system
  calls.

## Proofs

All for every value of the constants that satisfies the module's `ASSUME`.

Induction over numbers is available: `LeastElement` (every set of naturals that is not
empty has a least element, from the library's well-foundedness of `<`) gives
`SetInduction`, and that gives `Iteration`, the existence of the functions that a
definition by recursion over 0 .. n chooses. The properties that are defined by
recursion (`NoTypedKeyLost`, `PointerFollows`) are proved with it.

**Keyboard** (`KeyboardProofs`). `TypeCorrect`, and `RingIsFifo`: the driver
implements `BoundedFifo`. `TypeOK` is inductive by itself. For the refinement each
step is shown to append one accepted character to `Pending`, to drop its first n or
to leave it alone; the lemmas about indices turn the modulo into a case split, which
is where a full ring and an empty one must be told apart. `NoKeyIsLost` is inductive
given the types; its weight is in `PlainAppend` and `ReadSplits`, which say what the
recursion of `Plain` makes of a longer sequence and of one that a read splits at its
first cursor key.

**Ps2** (`KeyboardProofs`). To the keyboard's variables a step of the whole system is
a run of a handler with some byte (`KeyStep`), so the two results above hold of
`Ps2Spec` too (`SharedRingIsFifo`, `NoSharedKeyIsLost`). `ConfigurationKept` rests on
`BootInv`: until `mouse_init` has read the configuration only a key or the answer can
be in the buffer, and the answer is the configuration. `EveryByteInStep` and
`PointerFollowsMouse` add, as long as nothing went astray:

* `RequestInv`: a pending request is for the byte that is in the buffer. With it the
  two lines are never pending together, and a handler reads its own device's byte;
* `KbdStream`, `AuxStream`: bytes heard, waiting and to come are the bytes sent, the
  mouse's acknowledgement included until it is read;
* `FollowInv`: `mouse_cycle` counts the bytes of the next report, `mouse_packet` has
  those bytes, and the pointer is where the reports before have moved it.

**Tasks** (`TasksProofs`). `IndInv` = `TypeOK`, `RingOrder` and
`CurrentIsRunnable`: the order of the ring is what makes the walk of
`task_schedule` meet only existing tasks, and gives `TypeCorrect`, `RingIsKept`,
`RunnableHasProcessor`. `ZombiesStayDead` is an action property over it.
`SleepersWaitTheirTime` adds `SleepInv` (a sleeper with ticks left is due exactly
that many ticks from now) and needs `NoWrap`: the largest tick plus the longest
sleep stays below the counter's width. It is needed:
with a wrap the comparison `now >= wakeup_tick` holds at once.
`HangsOnlyWhenBlocked` needs it for the same reason; it follows from `SleepInv` and
from the lap of the walk passing every task. `RoundRobin` rests on `BypassInv`, which
bounds how often a task that could run has been passed by how far the current task is
ahead of it in the ring: a call moves towards it, a new task moves it one away.

**Net** (`NetProofs`). `AddressesAreUnique` and `ResolvedMeansSent` from `NetInv`,
their conjunction with the shapes of table and queue. Neither depends on
timestamps: eviction may take any entry. `PingsAreNeverDoubled` from `PlaceInv`, which
says of every number in use that it is in exactly one slot, one frame or `lost`, without
cardinalities, and of every other that it is nowhere.

**Rtl8139** (`NetProofs`). The theorems are about the driver and the card by themselves;
`CardAfterEnumeration` shows that `NetCard`, the composition the run checks, takes only
steps of theirs, so that they hold after the enumeration of any machine. For the
receive side `RxInv`: during the first lap the frames lie one behind the other from 0
(`start`), the card's position is behind the last, the handler's offset is the start of
the first that it has not delivered, and the ring holds their headers there. `InOrder`
and `StrandedOnlyInWindow` follow; the second adds which frames an interrupt is still
due for. For the transmit side `TxInv`: frame f uses descriptor f modulo their number,
and of the last frames each is sent or still in its descriptor (`LostOnlyToOverwriting`).

**Pci** (`NetProofs`). `FunctionsFoundOnce` from `PciInv`. `Entered` is the set of buses a
loop has been started for: those `pci_enumerate` begins with and those of the bridges
found.

* `PciShape`: every active loop is on such a bus, and inside a device only when function 0
  says that there are more functions;
* `AllAhead`: these buses and what has been found can be reached, and while the table has
  room every function on them is in it or still ahead of a loop;
* `NoneAgain`: in a tree no function is in the table twice, no two loops are on the same
  bus, and nothing found is ahead of a loop or on a bus that no loop has been on.

The buses that can be reached are the least set that has the first ones and with a bus
those its bridges lead to (`Buses`). When no loop is left, `Entered` is such a set, so it
is all of them. The invariant holds for any number of buses, in circles too; only
`NoneAgain` needs the tree. That the loops come to an end (`EnumerationEnds`) is liveness
and stays with TLC, which also checked the invariant on the machines of the run.

**Terminal** (`TerminalProofs`). `PointerInv` adds `BufferHoldsText` to the types
and `PointerRestoresText`: what is saved below the pointer is the text, except
where it is tainted. The cursor part (`Good`) is proved of each case of
`term_putc`.

`LineIsOnScreen` is about `ShellLine`. Its invariant adds to `LineOnScreen` that the cursor
is at the corner of a cell (`Aligned`), or behind the last one of a line. Then a printable
character is drawn in the cell with the cursor's number and the cursor goes on by one, unless
the screen begins again (`PrintStep`); backspace blanks the cell before (`BackStep`), so that
the three characters of a rubout change that one alone; and cells with different numbers share
no pixel (`CellsApart`). That `write` of a whole string exists and keeps `Aligned` takes an
induction over its length (`AfterSteps`). The assumption that the screen has two lines is
needed: on a single one, a wrapped line would overwrite itself without `tracked` noticing.

**Ata** (`AtaProofs`). `AtaInv` says that while the driver waits for data the
drive works on the driver's own command (`OwnCommand`, which rests on waiting for
BSY before every command), that what it offers is the sector's content, that
nothing is on its way to the disk once a read has returned, and that a write not
yet handed over is nowhere (`Fresh`). `SuccessMeansStored` adds where the data of a
write is from its transfer on (`HandedInv`).

**Exec** (`ExecProofs`). `MemInv`: allocations lie below the heap pointer, in order and
apart (`Layout`), and mapped pages contain what the loader has put there since
(`Content`), also between two segments and after a failure. Both theorems assume
nothing about sizes: overlapping segments, unaligned heaps and files longer than the
memory they ask for are covered.

**Fat32** (`Fat32Proofs`). `NothingIsCrossLinked`, `NothingDangles`, `NothingIsLost`,
`NothingIsHidden`, `SizesAreCovered` and `PathLeadsToCwd` from `FatInv`, the first part of
which is stated of single links, not of chains:

* `Links`: no two links lead to the same cluster, and none to a free one;
* `Kinds`: what is free holds no directory slots, a link joins two clusters of files or
  two of directories, and none leads to the root;
* `Heads`: the first cluster of every entry, as an open descriptor or the entry has it,
  is in use, no link leads to it, and no other entry has it;
* `Covered`: every cluster in use is in the chain of the root or of an entry's first
  cluster;
* `SlotsOK`: the slots of a directory hold no junk, an end mark is in its last cluster
  only, and no live entry comes after one;
* `SizesOK`: the chain of a file has room for its size, as the open descriptor or else the
  entry has it, and a directory's entry has size 0;
* `OpenOK`: what is open is the live entry of a file, and open once;
* `PathOK`: the names of the stack lead from the root through different directories, none
  of them but the last the current one, and the last is it unless the stack is full.

For cross-links and dangling links little is needed of the walk: it is a sequence of links
(`WalkIs`), it stays in every set that is closed under links (`ChainStays`), and it is the
same in a table that agrees on its clusters (`SameWalk`); so two chains whose heads no link
leads to are disjoint (`ChainsApart`). Lost clusters and sizes need its length: a walk from
a cluster no link leads to meets no cluster twice (`WalkDistinct`), so the bound of
`TotalClusters` steps never cuts it off before the end of the chain (`WalkEnds`), and all
that is linked is in it (`WalkComplete`). A write is then a list of clusters, the old walk
and the new ones, all different, and the chain has as many (`GrownChain`, `WriteFits`). For
directories, positions in the list of slots count the clusters first and the slots of one
second (`PlaceOf`, `PlacesOrder`). What allocation, truncation and release do to `Links`,
`Kinds`, `Heads` and `Covered` is proved once each (`GrowForest`, `StartForest`, `CutForest`, `RemoveForest`,
`DirForest`). The way to the current directory is kept because a call changes no
directory on it but the last (`Calm`, `WaySame`), and a directory in the current one is
none of those (`ChildNotOnWay`). That unlinked directories are empty and unlinked files
closed, as `Next` asks of the caller, is used exactly in `InvUnlink`.

`OneAtATime` states the action property `OthersUntouched`. Beside `FatInv`, the lemma of
each call proves what the call spares (`OnlyOne`, `Spares`): apart from one entry, no live
slot and no descriptor changes, and no link outside that entry's chain does. As chains of
different entries are disjoint, every other entry keeps its chain (`OneTouched`).

`ListingsAreComplete` is about the specification of `FatListing`, whose steps
`ListingKeepsDirectories` shows to be steps of `Fat32`. `ListingOK` says that
the calls so far have returned, for the indices from 0 on, the first live entry from there
on. A listing that has ended has an index past every live entry (`PastLive`), which rests on
`SlotsOK`: no live entry is behind an end mark. As different positions are different slots
(`PlacesApart`), the calls that returned an entry are those of its own index and of the
deleted and long-name slots right before it.

**FatDisk** (`FatDiskProofs`). `CopyInv` says for every moment of a call which table
entry, if any, has one of its two writes behind it (`HalfDone`), and counts the entries
that differ against the faults so far; `Paired` pairs the two writes on the list of
accesses, in every list that an operation can make.

`HarmStaysContained` needs `HarmInv`, in two parts. `FilesOK`: the table has, for every
file that is neither suspect nor the one of the call in progress (`Sure`), a chain from
its first cluster to an end mark, as long as its size asks, and no two of these chains
meet; and the entry of an open file that `O_TRUNC` has not cut names no clusters or those
of the descriptor (`Near`), so that the file is as good after a loss of power. `Doing`:
what the call still has to do, and what has to be true of its own file before each
access, unless that is suspect by now. A call writes to an *area* of the disk only
(`Area`): a set of clusters that no link leaves and that meets no chain of a sure file,
which are its own clusters and the free ones it has taken. A write inside it keeps it
closed and the other chains as they were (`AreaWrite`). Which lists a call may have left
is a matter of order, and the order is what keeps the file: the new cluster has its end
mark before it is linked (`Linking`) or named (`Creating`), and the search is never
further from the first cluster than the file is long (`Seeking`), so that the size
written last is not more than the chain has. A chain is the least set of clusters that
has its first one and with every cluster the next; from that follow, without induction,
that it has one end mark (`OneEnd`), that no cluster of such a chain comes again
(`NotBack`), and that a link at the end makes it one cluster longer (`ChainGrows`). The
invariant was first checked by TLC on the instance of `fat_crash` and, with two
clusters, for two faults.

### Model-checked only

Liveness (`EveryKeyIsTaken`, `QueuedIsSent`, `CallReturns`, `EnumerationEnds`,
`SleepReturns`) is out of the prover's reach.

## Not modelled

* Descriptor tables (`gdt.c`, `idt.c`, `tss.c`) are written once at boot; an exception
  prints a message and halts. All tasks enter the kernel on one stack (`tss.c:13`),
  which would matter with a second user task.
* `kfree`, `paging_unmap_page`, `paging_get_physical`, `pci_find_device` and the block
  list of `memory.c` have no caller.
* RTC (`rtc.c`): a conversion of registers that may be read while the clock changes
  them, and whose time zone changes hours without the day. It keeps no state.
* Power (`power.c`): port writes that end the machine. `acpi_initialized` is never set
  to 1, so the ACPI ways are not taken.
* String, memory and number helpers, the user library's stubs: no state.
* `vfs.h` and `procfs.h`: declarations without an implementation.
* Directories on a failing disk (`FatDisk` has the root only), 32-bit file offsets,
  command parsing, formatting, colours, glyph bitmaps, log messages.

## Plan

What is left, in order.

1. `FileArith`: 32-bit arithmetic of `fat32_read`, `fat32_write` and `fat32_seek`
   against the unbounded one.
2. `Shell`: keyboard, line editor and tasks together, from interrupt to command.
