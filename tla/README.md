# COSEC in TLA+

COSEC is a small i386 kernel written in C: a boot path, a kernel shell, one
preemptible kernel thread, one user process, a heap, a RAM filesystem, terminals
and a UDP-level network stack.  This directory models the parts of it whose
correctness depends on long sequences of calls or on interleavings, checks them
with TLC on small instances, and proves the main results about the heap with TLAPS
for every value of the constants.  Paths below are relative to the repository
(`src/` of `PROJECT.json` is its root).

## 1. The system

There is one CPU.  Control changes hands in three ways only:

* an **interrupt** (timer, keyboard, network, disk) suspends whatever runs with
  interrupts enabled.  The entry code is `src/arch/intr.S`; handlers are dispatched
  by `src/dev/intrs.c` and run with interrupts disabled;
* the **timer** handler may switch tasks (`src/core/tasks.c`): round robin over a
  ring of tasks linked by `next`;
* a **system call** (int 0x80) enters through an interrupt gate, so it runs with
  interrupts disabled.  The one exception is `dev_tty_read`, which enables them and
  halts until a line arrives.  (`idt_set_gate` sets the trap bit for `GATE_TRAP`
  only, although `GATE_CALL` is described as a trap gate.)

The kernel thread `cosecd` runs the shell with interrupts on and is preempted inside
kernel code too.  Nothing in the kernel takes a lock.

| Part | Files | State |
|---|---|---|
| first-fit heap | `src/mem/ff_alloc.c`, `kheap.c`, `lib/c/src/alloc_firstfit.c` | modelled, proved |
| tasks, interrupt entry and exit | `src/core/tasks.c`, `src/arch/intr.S`, parts of `src/core/process.c` | modelled |
| tty input | `src/dev/tty.c` | modelled, output left |
| interrupt tables, timer, keyboard | `src/dev/intrs.c`, `timer.c`, `kbd.c` | planned |
| physical memory, paging, `sys_brk` | `src/mem/pmem.c`, `paging.c`, `src/core/process.c` | planned |
| descriptors and file system calls | `src/fs/fs_sys.c`, `vfs.c`, `src/core/syscall.c` | planned |
| ramfs | `src/fs/ramfs.c` | planned |
| block devices | `src/fs/devices.c` | planned |
| screen | `src/dev/screen.c` | planned |
| network, virtio | `src/core/net.c`, `src/dev/net_virtio.c`, `net_i8254x.c` | planned |
| C library's stdio, program break | `lib/c/src/*.c` | candidates |
| shells, tests, log | `src/core/kshell.c`, `luashell.c`, `secdshell.c`, `test.c`, `log.c` | not modelled: parsing and printing |
| boot, CPU tables, buses | `src/arch/*`, `src/dev/pci.c`, `acpi.c`, `rtc.c`, `ide.c`, `serial.c` | not modelled: straight-line set-up and port I/O |
| filesystem tools | `lib/ext2fs`, `lib/fatfs` | not modelled: not part of the kernel |

## 2. The modules

### FirstFit, MCFirstFit, FirstFitProofs: the heap

The heap is a ring of chunk headers in one piece of memory.  `heap` keeps the headers
as functions `next`, `prev`, `used` over the addresses that carry a valid header, with
`current` for `this->current`; an erased header leaves the domain.  `live` is the
clients' view (block pointer to the size asked for), `balance` is
`n_malloc - n_free`.  Addresses and sizes are numbers and the code's 32-bit sums are
modulo `WordSize`, because `aligned` wraps.

`firstfit_free` and the in-place cases of `firstfit_realloc` are one step each.
`firstfit_malloc` is a step to enter the loop, one per turn (`ScanStep`) and one that
ends it (`ScanTakes`, `ScanFails`); a relocating realloc is the same walk ending in
`ScanRelocates`, which takes the new chunk, copies and frees the old block.  The copy
is modelled by the headers it overwrites (`smashed`); when there are any the model
stops, since what the code does with a damaged header depends on the bytes copied.
The bytes of blocks are left out, and so is the checksum's failure path, which intact
headers cannot reach.  Calls with pointers that are not blocks are not made.
There is one caller at a time: see the plan for two.

### Tasks, MCTasks: task switching

A kernel stack is the sequence of its live interrupt frames, each known by its depth.
`esp0` is `tss.esp0` as a depth, `switch_to_esp` the variable of `intr.S`, `next` and
`state` the task's fields, `cr3` whether the TSS holds a page directory.  Actions:
the timer interrupt (`timer_irq`: `the_scheduler`, `task_save_context`,
`task_push_context`, `INTR_END`), any other interrupt, a read that waits with
interrupts on and its return, `sys_exit`, and the two halves of `run_init` between
which the timer may fire.  `lost` records a return that popped something that is not
a live frame; the model stops there.  What runs with interrupts off is one step.

### Tty, MCTty: terminal input

`inpq` is the circular input queue of a tty, exactly as in the code (pushed at
`start`, popped at `end`), `reader` the thread inside `dev_tty_read`, which is cut
where an interrupt matters: entering, leaving the wait, computing the length of the
pop, copying.  `typed` and `given` are histories of what was accepted and what was
delivered.  `fault` records a `memcpy` whose length has wrapped; the model stops
there.  `KDSKBMODE` has no caller in the repository; the raw mode is modelled as the
ioctl offers it, and while no read is in progress.  ICANON is tested on `c_iflag`,
where its bit is that of ICRNL, so the ANSI mode is always canonical.  The echo on
the screen is left out.

## 3. What the runs show

| Run | Result | Bounds |
|---|---|---|
| `heap` | ring, merging, blocks, statistics and headers stay right; null only if nothing fits; every call returns | ALIGN 16, header 12, as in the code; 96 bytes; mallocs of 4, 21; reallocs to 0, 16, 32, 600, WordSize - 1 |
| `heap_aligned` | **violated**: chunks do not stay aligned | as `heap` |
| `heap_odd` | **violated**: a relocation overwrites the next header | 128 bytes; reallocs to 17 and 32 |
| `heap_tiny` | **violated**: a heap of 45 bytes cannot store a byte | sizes 44 to 49 |
| `tasks` | one ring, live saved contexts, page directory present, exited tasks stay off, no starvation | two processes, one reader; 2 creations, 4 frames |
| `tasks_rerun` | **violated**: `init` given twice takes the shell out of the ring | one process |
| `tasks_stale` | **violated**: a resumed read returns through a stale stack pointer | one process that reads |
| `tty` | nothing lost, whole lines, copies fit, refusal only when full | two ttys, queue of 4, no erasing, no wrap |
| `tty_wrap` | indices stay in the buffer, refusal only when full | one tty, erasing, one wrap |
| `tty_live` | a reader whose line has arrived returns | one tty |
| `tty_circular` | **violated**: reading a wrapped queue loses or repeats input | one tty, one wrap |
| `tty_erase` | **violated**: a backspace takes the newline a reader has found | erasing |

The violated ones state what a comment or message of the repository says;
`PROJECT.json` quotes it and explains the disagreement.

**Why the bounds are enough.**  In the 96-byte heap a split, merges on either side
and both, growth into a neighbour, relocation with success and with failure and a full
heap all occur; WordSize is 1024 so that sizes above INT_MAX and sums that wrap exist,
and the sizes that are rounded to 0 make chunks of zero bytes.  The heap's safety does not rest on the bounds, since it is
proved.  Two processes make the ring's order matter, `StackUnits` lets the stack of a
reader be preempted more than once.  A queue of 4 with a reader's buffer of 2 is full,
empty, and holds lines shorter and longer than the buffer; `MaxWraps` counts how
often `start` wraps and `MaxGiven` ends the histories.  `tty` stops before the first
wrap and `tty_circular` shows why.

**Deadlock** is not checked in the runs of `Tasks`, nor in `tty_wrap`, `tty_circular`
and `tty_erase`, whose models stop on purpose at `lost`, a missing page directory or `fault`.

**Fairness.**  `FirstFit`: a walk that has begun goes on, as the thread that called
does.  `Tasks`: the interval timer ticks and interrupts are on in ring 3 and in the
kernel thread (weak fairness of `timer_irq`).  `Tty`: a reader is scheduled again and
again and the timer wakes it from its halt (weak fairness of its steps).  Nothing is
assumed of users or of the shell.

## 4. What is proved

`FirstFitProofs` proves, for every ALIGN, header size, heap, word size and set of
request sizes that satisfy `FirstFitAssumption` (the heap starts at a multiple of
ALIGN, a header is smaller than ALIGN, addresses do not reach the end of the word):

* `TypeCorrect`, `RingCorrect`, `FreeChunksMerged`, `BlocksCorrect`,
  `EmptyHeapCoalesces`, `StatsCorrect`: the invariants of the run `heap`;
* `NullOnlyWhenFull`: malloc fails only if no chunk fits;
* `AlignedReallocsKeepHeaders`: if every realloc size is a multiple of ALIGN or
  above INT_MAX, no relocation overwrites a header.  The run `heap_odd` shows that
  the hypothesis is needed.

None of the invariants is inductive alone.  `RingOK` needs `NoAdjacentFree` (a
splitting malloc marks the following chunk used, which would make a free chunk used);
`BlocksOK` needs both; `NullMeansNoFit` needs to know that a walk has passed only
chunks that do not fit (`ScanInv`).  `IInv` is their conjunction.  The lemmas say of
each pure operation on the headers (`LinkFree`, `MergeNext`, `Take`, `Release`,
`Resize`) that it takes a good ring to a good ring and keeps the blocks; the step
proof has one case per action and cites them.

Only model-checked: liveness (`CallReturns`, `NoStarvation`, `LineIsServed`), since
the prover does not reason about fairness or ENABLED; and all of `Tasks` and `Tty` so
far.  What a recursive definition computes for every input needs induction over data,
which is also out of the prover's reach.

## 5. The plan

1. **KheapRace**: two callers inside `firstfit_malloc` (the shell's thread preempted
   by the timer, then a system call), over the operators of `FirstFit`.
2. **Irq**: `irq_happened` and `irq_wait`, the timer table, the scancode ring.
3. **Vmem**: `pmem.c`, page directories, `sys_brk` and their error paths.
4. **Vfs**, **Ramfs**: mounts, lookup and links over an inode tree, the descriptor
   table; an abstract filesystem that they implement; block mapping of files.
5. **Blockdev**: `devices.c`'s read and write loops against a flat byte array.
6. **Net**, **Virtio**: receive ring, neighbour table, descriptor rings.
7. **Screen**: cursor and scrolling; tty output.
8. An abstract specification of terminal input (a sequence of lines) that `Tty`
   implements before its first wrap, and of the heap (a set of disjoint blocks) that
   `FirstFit` implements.
9. Proofs: `SavedContextIsLive` and `OneRing` of `Tasks` for any number of processes,
   `NothingLost` of `Tty` before a wrap, the refinements of item 8.
