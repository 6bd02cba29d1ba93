# TERMOB kernel: TLA+ specifications

TERMOB is a small i386 kernel in C and NASM: it boots through GRUB, sets up
memory and devices, and runs a shell in its main loop. This directory holds TLA+
modules for the parts of it that have state worth reasoning about, the
configurations that TLC checks them with, and theorems that TLAPS proves for every
value of the constants. `PROJECT.json` is the machine-readable index: components,
runs, the map from definitions to source lines, the hazards and the theorems.

To check a module: `tlc -config Scheduler.cfg Scheduler` (the module of each
configuration is in the table of runs below). To check the proofs:
`tlapm KernelProofs.tla`, and likewise `KeyboardProofs`, `MemoryProofs`,
`HeapBlockProofs`, `HeapProofs`, `DeviceProofs`, `FatProofs` and `Arithmetic`.

## 1. The system

There is one processor. Three kinds of control flow share it:

* the **kernel context**: `kernel_main`, which boots with interrupts off and then
  loops: drain the mouse ring, drain the keyboard ring, `scheduler_dispatch`,
  refresh the footer, `hlt`;
* **kernel threads**, which run until they yield or return;
* **interrupt handlers** (timer, keyboard, mouse), which run with interrupts off,
  between any two instructions of the others.

The other independent actors are devices: the virtio disk works on its request
while the driver polls, and the PS/2 mouse talks through a controller that the
keyboard uses too. Nothing is persistent: the kernel never writes to a disk, so
there is no crash recovery; a fault silences the devices, sounds the speaker, prints
a report and halts.

| part | source | state | operations | module |
|---|---|---|---|---|
| scheduler, main loop, timer | `scheduler.c`, `scheduler.asm`, `kernel.c`, `timer.c` | task list, current and last task, reschedule flag, saved contexts | create, tick, dispatch, yield, exit, context switch | `Scheduler` |
| input rings | `keyboard.c`, `mouse.c` | ring, head, tail, drop counter | enqueue in the handler, drain in the loop | `InputRing` |
| keyboard | `keyboard.c`, `irq.c` | prefix, modifiers, Caps Lock, last key | interrupt, decode a scancode | `Keyboard` |
| heap | `heap.c` | block headers, free list | init, `kmalloc`, `kcalloc`, `kfree`, integrity check, self-test | `Heap` |
| boot information, frames, paging | `bootinfo.c`, `pmm.c`, `paging.c` | ranges, bitmap, counters, page directory | store a range, build the bitmap, alloc, free, map | `Memory` |
| driver model, PCI scan, probes | `driver.c`, `pci.c`, `virtio.c`, `audio.c`, `dummy_pci.c`, `block.c` | lists of drivers, devices and block devices, counters | register, match, bind, probe, scan | `DriverModel` |
| sounds and panic | `audio.c`, `sound.c`, `timer.c`, `panic.c`, `fault.c`, `kernel.c` | PCM channel, speaker gate, interrupt flag, deadline in ticks | beep, melody, tone, panic alert, fault | `Sound` |
| disk reads | `virtio.c`, `block.c` | request header, status byte, rings, deadline | set up the queue, read sectors | `VirtioBlk` |
| FAT mount, paths, directories | `fat.c` | layout, walk position, long name under way | mount, look up, open, list | `FatDir` |
| FAT files | `fat.c` | file cursor, visited clusters | open, seek, read, range read | `FatFile` |
| FAT table entries, `fatentry`, `fatchain`, `fatcat` | `fat.c`, `keyboard.c` | bytes of the table, walk, output | decode an entry, list a chain, print a file | `FatShell` |
| `fatinfo`, `fatcheck` | `keyboard.c` | none | judge a boot sector | `FatCheck` |
| terminal and line editor | `terminal.c`, `keyboard.c` | screen, scrollback ring, view offset, line, cursor, prompt position | print, scroll, edit, paste, redraw, enter | `Console` |
| mouse | `mouse.c` | set-up dialogue, packet under way | set-up, interrupt, packet assembly | `Mouse` |

Interactions. `Keyboard` is built on `InputRing`, `Sound` on `DriverModel` (the
controller it plays on is the one the registration bound), `FatShell` on `FatFile`
(the commands call the file functions), `FatCheck` on the boot sectors of `FatDir`.
`FatDir` and `FatFile` read through `block_read_device`, whose
failures they take as input; `VirtioBlk` shows what a successful read is worth.
`Mouse` uses a queue that drops when full, which is what `InputRing` is shown to
implement. `InputRing`'s drain is called again and again because the kernel
context always gets the processor back (`Scheduler!KernelComesBack`). `Console`
receives the decoded keys and wheel steps. The heap's `kmalloc` may fail at every
call of the other modules; `Memory` takes its bitmap from the heap's region.

What makes the parts hard to get right, and what is therefore stated of them:

* Scheduler: a tick may fall between any two stores of dispatch, yield and exit.
  No READY task may be forgotten, code that acts on `scheduler_current_task_ptr`
  must find itself there, the endless `hlt` after an exit must be out of reach, and
  round robin must be fair while tasks appear, exit and are killed by the guard check.
* Rings: handler and loop share memory without locks; the array is not volatile.
* Keyboard: the ring drops prefixes, presses and releases alike, and the decoder has
  only the bytes to tell which keys are down.
* Heap: splitting and merging must keep list and tiling through any sequence of
  calls, bad frees included, and leave nothing unusable.
* Memory: 32-bit sums, rounding in two directions, a free count kept by hand and a
  search hint that must not hide a free frame.
* Driver model: probes register devices inside a walk over the same lists.
* Sounds: waits count ticks of a wrapping counter, need interrupts on, and may be cut
  short by a fault, whose own sound runs with interrupts off.
* Disk: one request at a time over shared memory, a deadline, a late answer.
* FAT: any boot sector, any table, failed reads, cursors left half moved by an
  error, long names assembled over sector and cluster boundaries, entries that straddle
  two sectors; the shell has its own copy of the entry decoder and of the boot-sector
  parser, which may disagree with the file system's.
* Console: screen and history are written by different paths; the editor keeps its
  own idea of where the prompt is.
* Mouse: answers read out of turn, bytes dropped in the middle of a packet, a mouse
  that is absent or falls silent while the controller is shared with the keyboard.

The hazards in `PROJECT.json` give the line at which each of these bites.

## 2. Modules and how they correspond to the code

Variables keep the source's names where possible; a comment beside each gives the
C name where it differs. A handler or function is one action, or one action per
stretch between the points at which another actor can make a difference.

**Scheduler** (with **CoopThreads**, the abstract specification). `cpu` says which
context executes, `kpc` and `tpc[t]` where each context is. Dispatch is cut into
pick, select, clear, switch, return and rearm, and yield and exit into their
stores, the leaving and the switch, because a tick reads the current task and
writes its slice and the reschedule flag. Task numbers are list positions: the list
only grows. A stack overrun may overwrite the guard word whenever the thread runs.
`CoopThreads` knows only the states of threads and promises one running thread, a
turn for each ready one, and no way back from EXITED.

**InputRing** (with **BoundedFifo**). The keyboard's and the mouse's ring are the
same code. The drain loop's load of the slot and store of `tail` are separate
steps, in either order, since the compiler may exchange them. The refinement
mapping takes the bytes between `tail` and `head` as the queue and lets a byte be
out of it from the store of `tail` on.

**Keyboard** adds the two ends of the keyboard's ring. The physical keyboard, which
is external, has keys down, one of which repeats, and sends a byte, or the prefix and
a byte, for each event. `Irq1` enqueues a byte; `ProcessScancode` is the decoder, run
at the drain loop's `Process` step. Two history variables say what the decoder cannot
know: `framed`, whether the last byte the ring took was a prefix, and `missed`, the
codes whose last byte was dropped or follows the wrong frame.

**Heap**. Headers at addresses, with `Word`-bit arithmetic. `kmalloc` and `kfree`
are operators from heap to heap, with the error flags they raise; a call is one step,
since nothing preempts the kernel context but handlers, and those do not allocate.
The self-test is a step per call it makes, with no other caller in between, and a
ghost of the heap it began with. `HeapAssumption` keeps requests to at most
`Word - Align` bytes, and products in `kcalloc` to that or to what its overflow test
refuses: `heap_align_up` would wrap anything between to 0, and no code of the kernel asks
for so much.

**Memory**. The boot sequence, a step per iteration of its loops: entries of the
loader's map are stored or dropped; the bitmap is built (release the available
ranges, reserve five regions); paging takes a directory and tables; then callers
allocate and free. Addresses wrap at `Word`. One assumption is made about the
loader, `LoaderAssumption`: no available range starts inside the last frame of the
address space (rounding its start up would wrap to 0 in `pmm_release_region`).

**DriverModel**. Registrations nest: the stack of walks under way is a variable,
and a probe that registers a device pushes a walk. Devices are told apart by what
the match functions see. Any allocation may fail. The kernel registers its drivers
before the scan; the model lets them come at any time, as the interface does, and
lets the example driver of `dummy_pci.c` be registered, which the kernel does not do.

**Sound** goes on from there: with the registration done, the shell's sound commands
and, at any moment, a fault, whose panic plays an alert. On the speaker a sound is a
sequence of notes and gaps; on the AC'97 controller that the registration bound it is
a start, a wait in ticks, a second wait for the status bits and a stop. Time advances
by quarters of a tick. The tick counter wraps at `Word`; with interrupts off the waits
watch the counter of the timer chip instead.

**VirtioBlk**. The driver's steps (fill, publish, look at the used index, read the
timer, collect), the caller's loop over sectors, the timer, and the device, which is
external: it takes a published request at any moment, reads the shared chain then,
writes data and status, and advances the used index. Data is represented by the
sector's number. A device is prompt if it has answered before the driver's last look at
the used index; one that answers between that look and the reading of the timer is late.

**FatDir**. A volume is the fields of its boot sector, the sectors of a fixed root,
and for each cluster its sectors and table entry. `Mount` computes the layout in
`Word`-bit arithmetic, from a boot sector anywhere on the device. Table entries are
clusters or marks, and no cluster has the number of a mark; `FatFile` has that case.
A lookup or listing then goes sector by sector; the entries
of a sector are visited in one step by a fold that carries the long name under way.
Names are sequences of texts, one for each long-name entry; a text in `FullTexts`
has all of an entry's 13 characters.

**FatFile**. The cursor of an open file (position, cluster, where the cluster lies
in the file, visited list) on an arbitrary table of numbers, of which the sixteen
largest are marks; a read is a step per sector. The count of clusters computed from the
size wraps at `Word`. A range read is an open, a seek and a read, which the model's
callers make in any order.

**FatShell** puts bytes under the tables: an entry is 12, 16 or 28 bits, low byte first,
and an entry of 12 bits may straddle two sectors. `FatEntry` follows `fat_read_fat_entry` and
`ShellEntry` the shell's copy of it, whose sector offsets are constants: the first takes
the sector's size from the mounted volume, which has the device's, the second divides by
the size in the boot sector and compares with 509 and 511. Both give a set of numbers: that
of the entry's value, or `Strays` where bytes outside the buffer or the table are read. The
commands `fatentry`, `fatchain` and `fatcat`
are actions; `fatcat` calls the range read of `FatFile` chunk by chunk.

**FatCheck** holds the shell's second boot-sector parser and the checks of `fatcheck`
as operators, compared with `FatDir!Mount`.

**Console**. The terminal is a record transformed by operators that follow
`terminal.c`; actions are the keys, the wheel and the end of a command. Colours and
what is drawn outside the shell region are left out.

**Mouse**. The set-up script with its acknowledgements, the controller's output
buffer, which keyboard and mouse share, and after the set-up the packets. The mouse
may be absent, refuse a command or stop answering. A byte is its source, its place in
the device's packet and bit 3. The interrupt requests are variables: the PIC latches one
when a byte comes to the front of the buffer and keeps it although `mouse_init` polls the
byte, so that `irq1_handler_c`, which reads the port without a look at the status, may
find a byte of the mouse there. If a key is read as the configuration byte, the value
written back may turn the keyboard's interrupt off.

`MC...` modules give sets of machines, volumes, memory maps and outputs for TLC.
The theorems are in **KernelProofs** (scheduler and disk), **KeyboardProofs** (ring and
decoder), **MemoryProofs**, **HeapBlockProofs** and **HeapProofs**, **DeviceProofs**
(driver model, registry and sounds) and **FatProofs** (files, table entries and the shell's
FAT commands); **Arithmetic** has the lemmas that several of them use.

## 3. Runs

| run | configuration | states | what it shows |
|---|---|---|---|
| `scheduler` | `Scheduler.cfg` on `Scheduler` | 479,000 | the running thread is the current task and the only RUNNING one (`CurrentIsExecuting`); a READY thread outside dispatch has a reschedule pending (`NoForgottenTask`); each dispatch is matched by a yield, an exit or the run under way, modulo the counter width (`DispatchesMatched`); the scheduler implements `CoopThreads` with its fairness (`ImplementsFairly`); the main loop always comes round again (`KernelComesBack`) |
| `keyboard` | `Keyboard.cfg` on `Keyboard` | 1,371,000 | the ring is a FIFO of `Size - 1` bytes that drops only when full, and every accepted byte is processed (`ImplementsFairFifo`); whatever bytes are dropped, the decoder is wrong about a key only until the next byte of that key comes through (`LossesHeal`) |
| `heap_calls` | `Heap.cfg` on `MCHeap` | 62,800 | the integrity conditions always hold (`AlwaysIntact`); callers' memory is disjoint, in bounds and large enough (`LiveIsPrivate`); `kmalloc` fails only if no stretch between used blocks has room (`FailsOnlyWhenFull`); the self-test, however it ends, leaves every header as it was (`SelfTestIsNeutral`) |
| `memory_boot` | `Memory.cfg` on `MCMemory` | 8,100 | the free count is exact and nothing below the search point is free, so an allocation gives the lowest free frame and fails only if there is none (`SearchIsExact`); only frames wholly inside reported memory and outside the kernel, heap and boot information are ever free or handed out (`OnlyGoodFrames`); the kernel is identity-mapped (`IdentityMapped`); no frame has two owners (`FramesHaveOneOwner`) |
| `driver_registration` | `Sound.cfg` on `MCSound` | 474,000 | each device ends with the first driver that matches it, probed once (`BoundToFirstMatch`); lists and counters agree, the first AC'97 controller stays the one in use and the scan finds each function once (`RegistryAgrees`); no sound outlives its command or the panic (`Quiet`); notes keep their length over a wrap of the tick counter, and the tone is stopped only when played or overdue (`SoundsAreWhole`); commands and panics come to an end (`SoundsEnd`) |
| `virtio_reads` | `VirtioBlk.cfg` on `VirtioBlk` | 461,000 | with a device that answers before the driver's last look a successful read has delivered every sector (`PromptReadDelivers`) and nothing is left with the device (`Quiescent`); every read returns, even if the device never answers (`ReadReturns`) |
| `virtio_late` | `VirtioBlkLate.cfg` on `VirtioBlk` | | expected violation, finding 1 below |
| `fat_reads` | `FatShell.cfg` on `FatShell` | 774,000 | bytes handed out are the file's, after any failed seek or read (`BytesAreFile`); corruption is reported only where there is some, with the two exceptions named below (`CorruptIsReal`); success means complete (`OkIsComplete`); both decoders find the entry the format puts into the table's bytes, in all three formats, the shell's where volume and device have the sectors it takes for granted (`EntriesDecoded`); `fatchain` lists nothing twice, and on such a volume lists the chain and says truly how it ends (`ChainIsTrue`); `fatcat` prints a prefix of the file and says truly how far it came (`CatIsPrefix`); calls and commands return on tables with loops (`CommandsReturn`) |
| `fat_directories` | `FatDir.cfg` on `MCFatDir` | 960,000 | a path leads to the first entry of each name (`LookupIsFirstMatch`); a listing is the directory or reports an error (`ListingIsDirectory`); no part of a long name comes from another file (`NamesAreOwn`); what was mounted is read only inside its own area, and clusters inside the volume also where its sector numbers wrap (`ReadsInItsArea`); `fatinfo` and `fatcheck` read a boot sector as `fat_mount` does, but for the type of volumes that name another one or are of FAT32 shape and too small (`CheckAgrees`) |
| `console` | `Console.cfg` on `MCConsole` | 272,500 | the screen is the stretch of history the view asks for (`ScreenIsView`); prompt and line stand where the editor draws them (`LineIsShown`) |
| `console_clear` | `ConsoleClear.cfg` on `MCConsole` | | expected violation, finding 2 below |
| `mouse` | `Mouse.cfg` on `Mouse` | 949,000 | an undisturbed set-up ends with driver and mouse agreeing on the packet size and no answer left over (`SetupAgrees`); IRQ 1 takes at most the first byte of the mouse, without loss bytes are read as meant, and after a loss packets still start at a first byte as long as no other byte has bit 3 (`FramingKept`); the set-up ends with any mouse or none, and with the mouse in use and the keyboard's interrupt on the keyboard's bytes get through the shared controller (`KeyboardServed`) |

The types of the scheduler and the ring, and the refinements without fairness, are not
listed as properties of runs: the refinements with fairness imply the latter, and all
of them are proved (section 6), as is that the endless `hlt` of an exit is out of reach.

Each property of a passing run has a mutant in `PROJECT.json`: a definition changed
as a slip in the code would change it, for which TLC finds the property violated.

### Findings

1. `virtio_late`: after its one-second limit `virtio_blk_block_read` returns failure
   with the request still at the device and does not reset the queue. The next read
   rewrites the shared header and status byte and takes the late completion for its
   own; it reports success with the wrong sector's bytes, those of the earlier request.
   `docs/ARCHITECTURE.md` calls block I/O synchronous.
2. `console_clear`: `kernel_draw_ui` indents its prompt by one column, later prompts
   are not indented. A line that fills its row at an ordinary prompt is one longer
   than the capacity after Ctrl+L, and Ctrl+U then leaves its last character on the
   screen, although `docs/USAGE.md` says that it clears the current line.

Smaller things met while modelling, which contradict no document: an incomplete set
of long-name entries is used as far as it goes, because the result of
`fat_lfn_collect` is not looked at; `..` in a directory of the root has first cluster
0 and is reported as corrupt; path components are limited to 12 characters, so longer
names can be listed but not looked up; a seek to the end of a file of whole clusters
is reported as corrupt; `fat_mount` takes volumes of 4079 to 4084 clusters for FAT12 and
of 65519 to 65524 for FAT16, whose last clusters have the numbers of reserved values, and
a file that reaches one is reported as corrupt; `fatentry` and `fatchain` accept a boot
sector that names sectors of another size than the device's 512 bytes and then read the
entry from another place; that a volume ends below the last 32-bit sector number is not
checked, and a fixed root whose end wraps is listed as empty; an interrupt of the keyboard
that was latched while `mouse_init` polled may hand the first byte of the mouse to the
keyboard as a scancode; a boot sector whose FAT sizes overflow 32 bits may be mounted,
and then clusters are still read inside the volume but may overlap the FATs; a mouse
whose last acknowledgement is missed goes on reporting to a controller nobody reads;
a note of the panic alert lasts half its time, since the loop that waits with
interrupts off counts two reloads of the timer chip per tick; `audio.c` does not give
back the first of its two allocations if the second fails; a volume of FAT32 shape
with too few clusters is called FAT32 and consistent by `fatcheck`, and mounted as
FAT12 or FAT16 with an empty root.

## 4. Bounds, and why they are enough

* `Scheduler`: three threads (one runs, one waits, one is new or dead), a timeslice
  of 2 (a tick that does and one that does not end it), counters modulo 2, so that
  they wrap. The proofs cover every value.
* `Keyboard`: a ring of three slots, so that two bytes wait, their order matters, and
  the next is dropped: any byte of an event can be the one that is lost.
  One modifier, Caps Lock for all keys that act once per press, the right Control key
  for all that come behind the prefix; one key down at a time. With two keys down the
  run has 5.7 million states and takes a quarter of an hour, with the same result. The drop
  counter, which only reports read, has one value.
  `LossesHeal`, and that the ring is a FIFO, are proved for every size of at least 2
  and every set of keys.
* `Heap`: 30 units with headers of 4: up to five blocks, so a free block can have
  free and used neighbours on both sides. Requests of 0, of odd sizes, of the largest
  size that does not wrap when rounded, and products that do not fit in a word.
* `Memory`: 16 frames in an address space of 64 units; map entries that overlap, are
  empty, unaligned, end at or pass the end of the address space; one more entry than
  there are range slots; page tables of two entries, so that several are needed.
* `DriverModel` and `Sound`: two slots of two functions; machines in which two drivers
  want one device, a function 0 is missing, the multi-function bit is clear, and there
  are two AC'97 controllers. Sounds of one to three ticks, begun at tick 0 or two ticks
  before the 4-bit counter wraps; a controller that plays the tone in time, within the
  margin, or not at all in the time allowed. The time something sounds is counted up to
  `MaxHeld`, beyond the longest sound.
  Each of the kernel's drivers may be missing at the prompt, as after a registration without
  memory.
* `VirtioBlk`: two sectors per call, ring indices modulo 3, so that they wrap within
  two calls, and a limit of one tick.
* `FatFile` and `FatShell`: a FAT12 volume of 4084 clusters, the most there can be, of
  two four-byte sectors each. Three clusters, the volume's last one among them, which
  is numbered like a reserved value, have all combinations of entries: one of the three, a
  number below 2, bad, or the end; the others are free. A visited list of two, so that
  files reach its limit, and a preview of three; offsets at, before and after cluster
  boundaries; a size that overflows the 16-bit `Word` when it is rounded up; chunks of 7
  bytes, which end inside a sector, and at most 12 bytes shown. With sectors of four bytes
  entries of 12 bits straddle them. The commands find the volume with sectors of the
  device's size or of twice that. Decoding is checked for the three formats.
* `FatDir`: every content of a root of four entries drawn from eight kinds, every
  table of a chained root of three clusters, a visited list of two, names of up to two
  parts; boot sectors over all combinations of bad and good values of their size and
  count fields, with a 16-bit `Word` so that products overflow, also near the last sector
  number. `Fat12Limit` and `Fat16Limit` are 2 and 4, so that volumes of a few clusters have each type.
* `Console`: three rows of four columns and six lines of history: the ring wraps, the
  view can move by more than a page, a line fills its row, output wraps.
* `Mouse`: a queue of two bytes, one loss, one key at any time.

No symmetry is used: threads, blocks and clusters are ordered.

## 5. Fairness

* `Scheduler!Fairness`: the timer ticks for ever, the kernel context goes on when it
  has the processor, and each thread, when it has it, sooner or later yields or
  returns. The last is a demand on threads that the two threads `kernel_main` creates
  meet: their loops call `scheduler_yield` at every round. Nothing is assumed about
  which thread is dispatched; that each gets its turn is what is checked.
* `Keyboard!KFairSpec`: the drain loop goes on, by `Scheduler!KernelComesBack`.
* `VirtioBlk!BlkFairSpec`: the processor goes on and the timer ticks. Only a device that
  is declared prompt has to work; `ReadReturns` is checked for the others too.
* `FatShell!SFairSpec`: a call or command that has begun is executed further.
* `Sound!SSpec`: what is playing goes on: the processor polls and time passes. Faults
  are not fair, nothing has to be typed.
* `Mouse!Spec`: the set-up and the drain loop go on, a pending interrupt that is not
  masked is taken, and the controller passes on a byte when its buffer is free. The
  mouse owes nothing.

The other modules have no fairness, and their properties are safety properties.
Deadlock is checked but for `Sound`, which ends with the halt after a panic, and
`Mouse`, where a failed set-up may leave nothing to do.

## 6. Proofs

All theorems hold for every value of the constants that satisfies the named
assumptions of the module: any number of threads, any timeslice of at least 1, any
counter width; any ring size of at least 2 and any set of bytes or keys; any disk, number
of sectors per call, index width and time limit (`VirtioBlkAssumption`); any number of
slots and functions with anything in them (`DriverModelAssumption`); any memory map,
address width and placement of kernel, heap and boot information within
`MemoryAssumption` and `LoaderAssumption`; any heap region, header size, alignment and
set of request sizes within `HeapAssumption`; any geometry, table, file and visited list of
a FAT volume, whatever its number of clusters, type and sector size, as long as its table
holds numbers of the type and a file as long as the visited list does not overflow a word
(`FatFileAssumption`, `FatShellAssumption`, `MarkersAssumption`; 257 clusters of at most
half a megabyte stay far below 2^32); any melody, alert,
tick rate and width of the tick counter in which no wait is as long as a turn of the
counter (`SoundAssumption`). Nothing is assumed about scheduling: the theorems use no
fairness.

`KernelProofs`, first part: `TypeCorrect`, `ExecutingIsCurrent`, `ReadyNotForgotten`,
`ExitNeverStuck`, `DispatchAccounting`, `ExitIsForEver` and `Refinement` (the
scheduler implements `CoopThreads!Spec`). The properties speak about the points at
which a thread's or the main loop's own code runs and are not inductive. `IInv` adds
what holds in between: tasks exist in number order (`Births`); a context that does
not execute is at a place it can be switched to, or is over and EXITED (`Resting`);
and for each place of the executing context, what the current task, the context flag
and the states hold there (`KernelRuns`, `ThreadRuns`). `NoForgottenTask` is part of
it, because dispatch clears the request after its pick: that a READY task is not
forgotten then follows from the rearming on return, and for an idle pick from
`PickNextIsReady`, which says that the walk over the ring finds a READY thread if
there is one. This lemma needs that the walk reaches every task (`RingCovers`), which
is where the modular arithmetic of `Arithmetic` comes in. `DispatchAccounting` is
proved separately, thread by thread (`MatchedStep`), from `IInv`.

`KeyboardProofs`, first part: `TypeCorrect` and `RingIsFifo` (the ring implements
`BoundedFifo!Spec`). `IInv` says what the drain loop relies on between its steps: a
byte found waiting is still there when it is loaded, the slot to be loaded late is the
one just before `tail`, which the handler never writes, and the slots between `tail`
and `head` hold bytes. `PutWaiting` and `GetWaiting` relate a step of the ring to
`Append` and `Tail` on the sequence of waiting bytes; `EnqueueIs`, `GettingIs` and
`ProcessIs` say which step of the FIFO each step of the ring is.

Second part: `DecoderHeals` (`LossesHeal`) and `ScancodesInOrder` (the keyboard
implements `BoundedFifo!Spec`, because all its steps are steps of the ring). `LossesHeal`
speaks of the moments at which nothing waits, which says nothing about the next step.
`KInv` looks ahead instead: `Reads(Now, Waiting, s)` says that the decoder comes to state
`s` by reading the byte in hand and all that wait, and `Right(s)` that this `s` is right
about every key whose last byte was not missed and is not still on the wire. A byte that
arrives extends the reading by one (`ReadsAppend`, `ArrivalStep`), the drain loop consumes
it from the front (`ReadsTail`) and leaves `s` alone, and a key that moves puts its own
byte on the wire (`KeyboardStep`). The reading is a function on the positions of the
queue that is said to exist, so no induction over the queue is needed.

`MemoryProofs`: `AllocationIsExact` (`SearchIsExact`), `HandsOutGoodFrames`
(`OnlyGoodFrames`), `NoFrameTwice` (`FramesHaveOneOwner`) and `MapIsIdentity`
(`IdentityMapped`). The first three hold together or
not at all: `OnlyGoodFrames` speaks of what is free once the memory manager is ready,
so `IInv` follows the bitmap through the boot: before any range is released every
frame is used, a released frame is backed by a range (`FrameInv`), and the
reservations at the end take away what overlaps the kernel, the heap and the boot
information. `Phase` says how far the boot has come, `RangesOk` what is known of the
stored ranges (none begins in the last frame, so rounding does not wrap), `OwnFrames`
that directory and tables have distinct frames. The free count is exact because a
frame is counted only when its bit changes. For the identity map `MapInv` says of every
table made so far that it maps its own piece; that the pieces reach the end of the
kernel, the heap and the boot information is arithmetic on the rounded limit, which does
not wrap to less because `paging_init` refuses a limit of no tables and `MinIdentity` is
an address.

`KernelProofs`, second part: `PromptReadsDeliver` (`PromptReadDelivers`) and `NothingLeftBehind`
(`Quiescent`). With a prompt device, `PromptInv` relates the ring indices of the driver
and the device: between requests all are equal and the device has nothing (`AtRest`);
while the driver polls the request is `Waiting`, `Working` or `Answered`, in each of
which exactly one index is one ahead; the shared header is that of the sector under way
(`Asked`), and the sectors before it are in the buffer.

`DeviceProofs`, first part: `FirstMatchWins` (`BoundToFirstMatch`). The property speaks of the
moments at which no registration is under way; `Inductive` adds what holds inside one.
A pair of a device and a driver is `Pending` if some walk under way has still to come
to it, and `Bindings` says that an unbound device has only pending drivers that fit it.
A probe that registers a device in the middle of a walk opens a second walk from the
first driver, so the new device's pairs are pending too; and the driver that binds is
the first that fits because an earlier one would still be pending (`NoEarlierFits`).
This needs the shape of the nesting (`Calls`): a walk for a driver or a PCI device is
the outer one, a walk for a logical device the inner one, and a third is out of reach
because virtio-pci takes PCI devices only (`ProbeOuter`).

Second part: `RegistryIsTrue` (`RegistryAgrees`), on top of the same invariant. The
scan leaves one place behind in each step, and looks past function 0 only where it should
(`ScanPlace`, `ScanPasses`). That two logical devices never share a transport rests on
the scan finding each function once. That the AC'97 state is the first controller's
rests on controllers being bound in the order of the list (`InOrder`), which again is a
matter of what is pending. `Tallies` counts the registrations under way, which the
counters miss until their walks return.

Third part: `AlwaysQuiet` (`Quiet`), `AlwaysWhole` (`SoundsAreWhole`) and
`RegistryStaysTrue` (both registry properties in `Sound!SSpec`, where the commands and the
panic follow). `SoundInv` says who is at work in each mode, what may be on at each place
(`On`), and how the time something has sounded relates to the wait under way: with ticks,
`TicksRun`: the quarters counted differ from four times the ticks elapsed by the quarter
at which the wait began; with interrupts off, `CountRun`, in reloads of the timer chip.
Elapsed ticks are a difference modulo `Word`, so a wrap in the middle makes no difference
as long as the wait is shorter than a turn.

`HeapBlockProofs` and `HeapProofs`: `HeapIntact` (`AlwaysIntact`), `CallersApart`
(`LiveIsPrivate`) and `FailsWhenFull` (`FailsOnlyWhenFull`). `HeapInv` says that the blocks
tile the region (`Tiled`), that the free list holds exactly the free blocks
in the order of their addresses (`Listed`), that no two free blocks touch (`Apart`), and
that what callers hold lies in used blocks (`LiveOn`). A linked list is stated for the
set of its members: each link points to the next higher member (`After`) and each back
link to the next lower (`Preceding`). Removing, inserting, splitting and merging are then
facts about adding a number to a set and dropping one (`OrderAdd`, `OrderDrop`,
`OrderFill`), and no order of calls has to be considered. The searches of `kmalloc`,
`kfree` and `heap_insert_free_block` are recursive functions; what they return
(`FindIs`, `FitIs`, `LastIs`) is proved by induction over the addresses from the top
(`DownInduction`). `FailsWhenFull` follows because a stretch without used blocks lies
inside one free block, as no two touch. `HeapIntact` is about the walk that
`heap_check_integrity` makes: it is shown to visit the blocks of the region, and then
those of the free list, in the order of their addresses, each once.

`FatProofs`: `BytesAlwaysFile`, `CorruptAlwaysReal`, `OkAlwaysComplete`,
`EntriesAlwaysDecoded`, `ChainAlwaysTrue` and `CatAlwaysPrefix`, for the properties of the
run `fat_reads` but its liveness. `FileInv` ties the cursor to the chain (`OnChain`): the
visited list is the beginning of the chain, without repetition, and the cluster's offset in
the file is its place in the chain times the cluster size. A call that fails leaves the
cursor somewhere on the chain, never beside it, which is why later reads still hand
out the file's bytes. `FineInv` says that on a healthy file without failures the
position stays in the cursor's cluster, so that nothing is called corrupt. `ShellInv` adds
the stretch of the chain listed by `fatchain` and what `fatcat` has printed. For the
decoding of entries, `TablePlaceIs` and `EntryInTable` say that on a volume with the
device's sectors the bytes an entry is read from are its own, and in the buffer because
each decoder reads a second sector where it must (`DecodedIs`, `EntryIs`, `ShellEntryIs`);
the rest is arithmetic on the digits of a number (`Digits`, `Unpacked12`, `Unpacked16`,
`Unpacked32`), with the entries of 12 bits apart by the parity of the cluster. An entry
whose offset in the table wraps in 32 bits, which no FAT has room for, is left out (`Known`).

`Arithmetic`: remainders (range, uniqueness, addition), least and greatest elements,
induction over numbers upwards, or downwards from a bound, and that a function defined by
such a recursion exists. The prover cannot use the library's induction theorems, which take an
operator; these are stated with sets instead of operators, from the well-foundedness of the
natural numbers, and are enough for the walks above.

Only model-checked: all liveness (`KernelComesBack`, the fairness halves of the two
refinements, `ReadReturns`, `CommandsReturn`, `SoundsEnd`, `KeyboardServed`), which the
prover does not cover; `SelfTestIsNeutral`, which compares the heap after the self-test
with the one before header by header; and the properties of `FatDir`, `FatCheck`,
`Console` and `Mouse`. What `FatDir` says is about folds over the entries of a directory
and the parts of a name, whose result for every length needs induction over those data.

## 7. What is not modelled

* Text: formatting of reports, most commands' output and their parsing, banner, header
  and footer, colours.
* Port and register programming: serial port, PIC, IDT, PIT, the AC'97 registers and
  samples. Of these only what the models of `Sound` and `Mouse` rely on is there.
* The report of a fault or a panic; that it silences the speaker and halts is in `Sound`.
* The translation tables from scancodes to characters.
* The layout of multiboot structures in memory; entries are taken one by one.
* The kernel log (`klog.c`): a line of characters that moves up by one when it is full.
  It is written from code that nothing else which writes it can interrupt, except by a
  panic, which does not return.
* The keys of `Keyboard` do not drive `Console` in one model: each has about as many
  states as TLC visits in minutes.

## 8. Plan

Done: the modules above, in this order: scheduler, rings, heap, memory, driver model,
disk, FAT files, FAT directories and mount, console, mouse; proofs of the scheduler
and the rings; then table entries and the FAT commands, `fatinfo` and `fatcheck`,
sounds and panic, the absent mouse, the keyboard decoder; proofs of memory, disk, the
decoder and the driver model; proofs of the heap, the FAT files and commands, the
identity map and the sounds.

Next, by what they add:

1. `MainLoop`: the composition of scheduler, rings and console with the log: what a
   thread and the loop may interleave on the terminal and the log.
2. Proofs: the layout lemma behind `ReadsInItsArea`, the set-up and framing of `Mouse`,
   the view of `Console`.
