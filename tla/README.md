# SmplOSV3 in TLA+

A formal model of SmplOSV3, a small x86-64 kernel: TLA+ modules translated from
its source, TLC runs that explore them on small instances, and theorems that
TLAPS checks for every value of the constants. Paths below are relative to the
repository's `src/` directory; `heap.c:139` is a line of a file there.

Contents: 1 the system, 2 the modules, 3 the runs, 4 the proofs, 5 findings,
6 what is not modelled, 7 plan.

## 1. The system

A 32-bit **loader** (GRUB multiboot) builds a GDT and boot page tables, copies
the kernel's segments and enters it in long mode with a `bootinfo_t`: the
memory map, the framebuffer's address, the TSS's and the ramdisk's. The
**kernel** runs `kernel_main` once, top to bottom, with interrupts enabled from
its second line on: it fills the frame stack, builds page tables, maps the heap,
enumerates PCI, creates the VFS root, loads the modules (`.smpm`) of the
ramdisk, and calls `exec` on the `.smpinit` file. `exec` builds the one process
and enters user mode. There is one processor; concurrency is the
interrupt handlers, which run to their end with the interrupt flag clear.

| component | state | operations | correct when |
|---|---|---|---|
| kernel heap, `kernel/src/mem/heap.c` | `heap_top`, `heap_end`, `free_list`, headers in memory | `init_heap` `kmalloc` `krealloc` `kvalloc` `kfree` (`kvfree`) | live blocks never overlap, nothing is lost, the free list is exact, ordered and coalesced, calls end |
| frame allocator, `mem/pmm.c` + `kernel.c:22-40` | `stack`, `esp`, `stack_size` | `pmm_mark_frame` `falloc` (`ffree`) | only usable frames, none twice (the code keeps neither at the ends of regions: section 5) |
| paging, `mem/paging.c` | page tables, CR3, `current_pml4`, what the processor caches of them | `init_paging` `mapf` `unmap` `to_physical` `copy_address_space` `set_address_space` | one frame has one use, the software walk agrees with the processor's, mapping a page changes that page, user code reaches its pages and no others |
| interrupts, `int/interrupts.c`, `.asm` | controllers' registers, gates, handlers, interrupt flag, saved registers | `setup_interrupts`, stubs, `isr_handler` `irq_handler` `irq_end` `fault_handler` | each line arrives at its stub, no handler is resumed half way, each line is released exactly once, none starves behind a line already served |
| processes, `proc/proc.c` | `processes`, `process_count`, `cpid`, `current_process`, `tss` | `exec` `irq0_listener` `schedule` `set_kernel_stack` | the timer never meets a half-built process; contexts survive interrupts |
| system calls, `int/syscall.c` | `syscalls` | `syscall_handler` `get_syscall` | a call of id 0 returns to the caller (any other id is not checked and calls what the table, or what lies behind it, holds) |
| VFS, `dev/vfs.c` | the node tree, `fs_types` | `kcreate` `kseek` `kmount` `kread` ... | siblings have different names, a created path is found |
| modules, `module.c` | `modules`, `k_symtable`, `required_modules` | `load_module` `export_symbol` `get_kernel_symbol` | a module that fails to load is not counted; init runs only if all required ones loaded (a header's magic number is not looked at: section 5) |
| ELF loader, `elf64.c` | section offsets in the image | `load_elf64`, relocation | every relocation is applied or the load fails |
| ramdisk, `fs/tar.c` | the entry list | `tar_parse` | each file is found, none is invented, the list keeps its bounds (for 64 files and fewer: nothing counts them) |
| PCI, `dev/pci.c` | `pci_devices` | `pci_init` and the enumeration | each function is found once and described by its own registers |
| ATA, `modules/src/ata` | `ata_devices`, `letter`, the drives' registers | `load`, `ata_identity` | each disk gets its own identity, the protocol is kept, polling ends |
| loader, `loader/` | `bootinfo`, boot tables, 64-bit numbers | `loader_main`, `load_elf64`, `_64bit_divide` | the kernel is whole in memory and gets what it expects |
| C library, `libc/src/string.c`, `printf.c` (twice) | strtok's pointer; the format and the output of a call | `strtok`, `strdup`, spans, comparison; `_vsnprintf` | a path is cut into its names; a buffer gets the text the format describes and nothing behind its end |
| logging, serial port, `log.c` and `serial.c` (twice) | the chip's registers and FIFO | `serial_init` `serial_putchar` `info` `debug` `error` | no byte is lost, doubled or overtaken, a message ends |
| test module | none | prints a line | (not modelled) |

How they interact. The heap's pages come from `mapf(falloc(), ...)` in
`kalloc_f`; page tables themselves are taken from the frame stack inside `mapf`;
address spaces are heap blocks from `kvalloc`; `exec` uses the heap, copies the
kernel's PML4, switches spaces around `kalloc_f`, and publishes the process to
the timer handler by incrementing `process_count`; the timer handler reads all
of it at any instruction. `kernel_main` parses the ramdisk, `load_module` has
`load_elf64` link each module against the symbols the kernel exports, looks its
header up by name in what was linked, and calls its `load`; the ATA module's
`load` calls back into the kernel, reads `pci_devices` and creates VFS nodes.
`kcreate` calls `kseek`, and both use the one static pointer of `strtok`.

What is hard here, and hard to test:

- the heap's list surgery after a long history of calls (unlink, ordered
  insertion, splitting and merging with headers inside the memory they manage);
- recursion of the tables through the last PML4 slot: the kernel edits
  structures it sees through the structures it edits, and a fresh table is
  cleared through a window that exists only once its parent points to it;
- address spaces that are snapshots of the kernel's PML4;
- interrupts between any two statements of `exec`, and `set_address_space`
  written as two stores;
- end of interrupt for two cascaded controllers, and `sti` before `iretq`;
- linking in place: relocations of several sections against symbols of several
  kinds, any of which may fail after words have been changed;
- a chain of decisions from the bytes of an archive to whether init runs, with
  hand-kept counts and arrays whose room nobody checks;
- a drive that changes its registers between any two reads of them;
- a processor that caches translations which nothing invalidates but a load of CR3;
- handlers that print on the serial port between the poll and the store of the
  code they interrupt;
- widths, precisions and bounds of a formatter that writes one past them if any of
  its counters is off by one.

`PROJECT.json` lists these hazards with their lines, and the properties that
watch each one.

## 2. The modules

    Allocator        what an allocator promises its clients
    Heap             kernel heap            refines Allocator
      HeapProofs                            theorems, and the refinement
    Pmm              frame stack and the memory-map loop
    Paging           page tables, TLB       EXTENDS Pmm
    AddressSpace     the kernel's order of calls       EXTENDS Paging, refines it
      PagingProofs                          theorems
    Interrupts       stubs, handlers, 8259 pair
    Pic              setup_interrupts
    Console          logging and the chip   EXTENDS Interrupts, Pic
    Proc             exec and the timer     EXTENDS Interrupts, refines it
    Namespace        what a tree of names promises its users
    Vfs              nodes, kcreate, kseek, kmount     refines Namespace
      VfsProofs                             theorems
    Elf              load_elf64 of the kernel
      ElfProofs                             theorems
    DynArray         the growable array macros
    Boot             ramdisk, modules, exec or not     INSTANCEs DynArray
      BootProofs                            theorems, and those of Proc and Interrupts
    Pci              enumeration            INSTANCEs DynArray
    Ata              load and the drives
    Devices          Ata beside Pci, and what is on the buses
      DevicesProofs                         theorems, and those of Console
    Loader           multiboot tags, the kernel's segments, entry
      LoaderProofs                          theorems, and those of Div64
    Div64            the loader's division
    Strings          strtok and what it uses
    Printf           _vsnprintf and what calls it
      LibraryProofs                         theorems, of both
    MC*              constants of the runs; MCKernel runs Boot and Proc,
                     MCDevices Ata and Pci, MCLibrary Loader, Div64, Strings
                     and Printf, each beside the others

**Heap.** `hdr` is the memory that holds block headers: a function whose domain
is the set of addresses with a live header; `heap_top`, `heap_end`, `free_list`
are the C variables, `pc`, `cur`, `tgt`, `old`, `req`, `align` the control point
and locals of the function in progress. Each C loop iteration is one step
(`FindNext`, `WalkStep`, `MergeAdjacent`...), so the invariants are stated
inside the loops as well. `held` and `aligned` are the clients: the blocks they
own and what `kvalloc` made of them. Clients only free what they own and only
pass `krealloc` what `kmalloc` returned, as the kernel's callers do. A read or a
store beyond the mapped pages is a page fault, which panics (`pc = "panic"`);
one through NULL does not fault because page 0 is mapped (`null_store`).

**Pmm, Paging.** `stack`/`esp` are the frame stack; `MarkFrame`, `NextRegion`
the loop of `kernel_main`, whose bound includes the end that the loader's excludes, so that the
frame behind a region is pushed with its own. In Paging a page is the four indices of its address,
`mem` is physical memory as tables of entries, and each table access of the C
code is translated by `Walk`, the processor's walk from CR3: `mapf` computes the
C function's stores in order, and panics at the first access that faults.
`to_physical` cuts what it finds to 32 bits (`Masked`; `LowFrames` frames lie below 4 GB).
Frames come with `Junk`: memory is not cleared when a frame is handed out, so
the `memset` through the window matters. `PTs` and the other constants are the
static tables; `init_heap`'s identity map is `Identity`. `stale` is the set of
pages whose translation the processor may have cached before an entry that was
present changed (`Outdated`); a load of CR3 empties it, and nothing else does.
`mapf` gives the flags of the page it maps to every table above it (`Flagged`), so
whether user code reaches a page depends on what was mapped after it.

**AddressSpace.** Paging allows its calls in any order, which is what its
invariants are for; AddressSpace has them in the order of `kernel_main`,
`load_elf64` and `exec`, with the stack mapped inside the new space, and asks
what user code finds when it is entered (`UserReaches`).

**Interrupts.** `irr`, `isr` are the requests and in-service bits of the two
8259s (2 stands for the cascade), `iflag` the interrupt flag, `frames` the
register images on the kernel stack, `ctx` where the processor is: a context of
ordinary code, or a step of the stub and C handler. `IntNext` allows a device to
raise a line, the processor to take the line the controllers select, and code
to fault or call `int 0x7f`, at any moment. A line's handler may fault too: its exception's
frame goes on top of the first, and ends in `panic`. A system call returns, or, as its id may be one
that nothing was set for, runs on somewhere (`"wild"`), where it may fault; what else it does there is not
followed. A line that drops its request before
it is acknowledged is a spurious interrupt (`Spurious`): vector 7 or 15 of the
controller, with no bit in service, for which `irq_end` releases what it does
not hold.

**Pic.** `setup_interrupts` word by word: each 8259 is a small machine that takes
its initialisation words in order and every later one as a mask; `idt` gets the
gates, `handlers` the handlers. `Vectored` states what Interrupts starts from.

**Console.** Interrupts with `serial_putchar` as the code that is interrupted:
a poll and a store per byte, of the boot thread and of handlers (`ata_irq_handler_*`,
`test_syscall`, `panic`), on one chip. System calls come from user code, which runs when the boot
thread has printed what it had to; faults inside handlers are left to Interrupts and Proc. `serial_init` is its stores; the byte of
the loopback test may or may not be back when it is read. What `info`, `debug`
and `error` print is a prefix, the text and the end of the line, in bytes that say
which message they belong to; `debug` is empty in the loader.

**Proc.** Adds `exec` statement by statement (`Statements`) and the timer handler
of `proc.c`. `set_address_space` is two statements, as in the code. The
contexts of Interrupts are here the statement of `exec` that was interrupted, or
user code, or the idle loop at the end of `kernel_main`. Heap and paging calls
of `exec` are single steps, which may fault, as user code, handlers and wild calls may: Heap and Paging verify them, and the handlers touch
neither (the heap is never entered by an interrupt handler).

**Vfs, Namespace.** Nodes are numbers in the order of their creation; each has
a name, a parent, its children in order and a mounted type. A path is the
sequence of names `strtok` finds in it, and strtok's static pointer is what is
left of that sequence. `kcreate` and the `kseek` it contains take one loop
iteration per step. Calls follow each other: only the boot thread makes them.
Namespace knows a set of paths and the answers to lookups. A mount of a device
that is not there reads what page 0 holds (`Crash`).

**Elf.** A file is its sections, symbols and relocations (`ElfAssumption`: the
fields of `elf64.h` that the loader reads); memory is words at
addresses, in the width of `int` where the code computes in `int`. One
relocation is one step, with each error return of `elf_do_reloc`,
`elf_do_reloca`, `elf_get_symval`. Executables load their segments page by page
into frames with unknown content (`Junk`).

**Boot, DynArray.** An archive is blocks; `Disk` lays it out as tar does.
`ParseEntry` is one round of `tar_parse`, `LoadModule` and `RefuseModule` the
outcomes of `load_module` on what `load_elf64` returned, with the header's
symbol, the required modules crossed off and the names in the array;
`FindInit`, `Exec`, `Halt` the end of `kernel_main`.

**Pci.** Configuration registers answer with a word at a time
(`pci_config_read_word`), all ones where there is nothing; each device function is
visited in one step of the three nested loops. An element reads as it was stored, also the one
that goes behind what `DYN_ARRAY_ADD` has left of the memory (`ArrayFits`).

**Ata.** `Answer` is the drives: after a command each may, at any time,
go on to its next status. The C code reads registers one at a time between
those steps, so that a status may be gone when its consequence is drawn.

**Loader.** GRUB's tags are a sequence, memory a function from addresses to
bytes. `memset` and `memcpy` are the loader's own, whose elements are words:
that each call reaches four times as far as asked is part of the model.
The loader's own data and the modules lie where that does not reach.

**Div64.** `_64bit_divide` loop iteration by loop iteration, on words of `Bits`
bits, with the shifts computed in halves as `__ashldi3` and `__lshrdi3` do.

**Strings.** Memory is bytes, a string ends where NUL is, and goes on behind it.
It is why Vfs may take a path as a sequence of names.

**Printf.** One step is one iteration of the loop over the format, and within a
directive one of the stages the code's comments name: flags, width, precision, length,
specifier (`at`). `format` and `va` are what is left of the format's characters and of the
arguments; `flags`, `width`, `precision` and `idx` are the C variables. A number goes through the
buffer of `_ntoa_format`, last character first. A call is given with the pieces its
format is spelled from (`Spelled`) and the arguments they take (`Taken`), which is what the
standard's reading needs: `Rendering` defines a directive's text from its meaning and not from the
code, and `TextRendered` compares it with buffer, output and result. The file is in
the repository twice, the loader's copy with other names and the same statements, two
lines further down; definitions map to one copy or to the other, and a call says in
which program it is made, whose `long` and pointers have their own widths.

## 3. The runs

| run | asks | states | result |
|---|---|---|---|
| `heap` | all heap invariants, that each call ends, and that Heap implements Allocator | 146,278 | holds |
| `heap_limit` | are the blocks handed out mapped? | - | violated (finding) |
| `paging` | frame stack, tables, address spaces and the TLB, in any order of calls; what user code reaches after the kernel's order | 33,219 | holds |
| `paging_regions` | does every frame on the stack lie in available memory? | - | violated (finding) |
| `paging_high` | does `to_physical` find what the processor finds, above 4 GB? | - | violated (finding) |
| `kernel` | from archive to `exec`: files, modules, counts, decision, bounds; `exec` and the timer, end of interrupt, service, faults of code, handlers and wild calls; that Proc implements Interrupts | 51,914 | holds |
| `vfs` | the shape of the tree, what calls find and return, that they return, and that Vfs implements Namespace | 19,442 | holds |
| `elf` | linking, refusal, header, segments | 99,965 | holds |
| `devices` | the ATA module's identities, protocol and termination; the functions PCI enumeration finds and how it describes them | 41,164 | holds |
| `pci_array` | is every device stored inside the array's memory? | - | violated (finding) |
| `console` | bytes and messages on the serial line; that they end; vectors, masks and gates | 43,576 | holds |
| `loader_library` | what the kernel is handed and where it lies; the loader's quotients and remainders, strtok's names, printf's text; that the divisions end | 342,645 | holds |

Bounds, and why they are enough:

- *heap*: an 11-byte heap in 2-byte pages, headers of 1 byte, sizes 2, 3 and 30,
  alignment 2. Up to four blocks exist at once, so that the head and the tail of the list
  are unlinked and inserted; a free block with free ones on both sides of it in the list
  is not unlinked in the run, which leaves `heap.c:83` with both neighbours to the theorem `ListLinked`. 2 and 3 make exact
  fits, splits (3+1+... into 2) and refusals to split; 30 exceeds the memory but
  not `heap_end`. The odd heap size keeps an incomplete page. All calls and all
  loop steps are taken.
- *paging*: three entries per table (slot 2 recursive), 17 frames, all below 4 GB, of which 8 are on
  the frame stack, the last of them the one behind its region, pages that share every table, all but the last, or none; two
  heap pages, so two address spaces, and one of them also a page of the user
  stack, as `USR_STACK` lies in the heap's range; a memory map with an unusable
  region between two usable ones, and one frame shared as inclusive end and start
  of regions below the limit. 8 frames are enough for the kernel's order to
  reach user code, and few enough that other orders run the stack empty. In any
  order a mapping made in a copy through a slot the copy lacks panics; that is
  reached too. `MaxStale` ends a series of calls at two outdated pages, which a load of
  CR3 makes none again. `paging_regions` is the same map, and in `paging_high` the limit of 4 GB lies inside the usable frames.
- *kernel*, `exec`: lines of both controllers and of each side of the
  cascade's priority; one fault vector, since all of them panic, raised by code, by handlers and by wild calls; two slots for
  processes, since `exec` is called once.
- *kernel*, the ramdisk: two required modules where the code lists one, so that
  one may be missing while another is there; room for 4 entries for 64, which archives of five files pass, and a list of
  modules made for 5 for 256, which those of four do not; blocks of 4 bytes and sizes of two
  octal digits, so that files fill a block, miss it by a byte, or pass it. A behaviour is one of the two (`part`):
  together they would be their product, and Boot's last state is all that `exec` could see of it.
- *vfs*: two names besides the root's, few nodes, paths up to the depth where a
  seek passes through a node, ends in one, and misses one.
- *elf*: up to three relocations, of each type and each kind of symbol
  (absolute, undefined and exported or not, in a section, without a name, beyond the table,
  none); a module with two string tables and two empty sections, of which `.bss` may take no memory; executables with segments that leave pages between, are
  shorter in the file than in memory.
- *devices*: all four places, drives of each kind (none, ATA, packet, failing)
  and buses nothing drives, each answering at any time; PCI devices without
  functions, with one that answers for all, and with gaps, fewer than the array has
  room for; more in `pci_array`. A behaviour is one of the two probes (`prober`); they share no state.
- *console*: a FIFO of two bytes, the fewest in which a handler that empties it
  still leaves room for the byte it interrupted; messages of two bytes and prints of
  three, so that a print passes the FIFO; two of each; lines of the second
  controller and one fault; the masks 0xB8, 0x8F of common firmware, and none.
- *loader_library*, the loader: up to four tags in any order of seven; a counter of 4 values for
  256, which two memory maps pass; kernels of up to three segments, adjacent and
  apart, with bss in the file's reach, beyond it and alone; page 0 of 4 bytes.
- *loader_library*, the library: words of 3 bits, all 4096 pairs of operands: each branch, and each
  shift within and across the halves, is taken; all paths of up to five bytes
  of a slash and two letters; calls of each printf function with every flag, length and
  conversion the code reads (those of them that conform, section 4), bounds 0, 1, inside and
  behind the text, a number's buffer of 9 characters, which the longest of them fill; `long` of 7
  bits where `int` has 5, or of the same 5 for the loader. A behaviour is
  one start of the loader, one division, a series of paths, or a call of one of the printfs (`caller` says
  which); they share no state.

Deadlock checking is off in all runs: a panic halts the machine for good, a boot
or a load is over when it is over, and so is a finished bounded memory.

Fairness. `heap`: WF on the steps inside a call. The kernel thread is
interrupted but always resumed (that is `Served` and `ExecStarted` below), so a call
in progress keeps moving; nothing says clients call again. `kernel`: WF on
the handlers (the flag is clear, nothing preempts them) and SF on taking a
line: a request that keeps being selected while the flag is set is
taken at an instruction boundary; the flag is clear inside handlers, so the
action is not continuously enabled and WF would not do. SF on `exec` as well: a
tick comes every millisecond (`pit_phase(1000)`) and a handler is a
few instructions, so the interrupted code runs between two of them. Devices are
never obliged to raise anything. `vfs`: WF on the steps inside a call, as for
the heap. `devices`: WF on the ATA module's `load` and on each drive's answers: a drive ends every
command it got; a bus nobody drives answers nothing, which is the case
`LoadReturns` excludes. `console`: WF on the chip, which sends what it has, and on
the handlers; SF on the poll and the store of the interrupted thread, for the
same reason as on `exec`. `loader_library`: WF on the division, one thread that goes on. The other runs
state no liveness.

Each property is paired in `PROJECT.json` with a mutant: an alternative
definition of the code (kept next to the real one in the module, e.g.
`SlaveOnly`, `CreateFromMiss`, `AsBefore`) under which TLC finds the property violated.

## 4. The proofs

All theorems hold for every value of the constants that satisfies the modules'
named assumptions, which TLC evaluates on the constants of the runs. Most say no
more than the code's types do (`HeapAssumption`: sizes are positive, addresses do
not wrap; `InterruptsAssumption`: lines are 0..15 without the cascade, contexts
are not stub steps; `ProcAssumption`; `SizesAssumption`; `ElfAssumption`;
`TagsAssumption`: GRUB's tags and maps are sequences, their entries the records of `multiboot2.h`;
`BitsAssumption`; `MasksAssumption`, masks are bytes; `StringsAssumption`, a path has no NUL in it). Seven say where
things are, or what the linker makes:

- `LayoutAssumption` (Paging): the static tables are different frames, low ones, that
  `init_paging` maps to themselves (`paging.c:26`, five tables: 10 MB) and that
  `kernel_main` hands to nobody, since it takes frames above 0x13ff000 only;
  usable memory is among the frames, and the framebuffer is not.
- `PagesAssumption`: the heap's and the user's pages lie in the first slot of the
  PML4, the heap behind the low pages (0xB00000 and 0xA00000), the
  framebuffer not in the recursive slot.
- `DevicesAssumption`: function 0 is in every PCI device, a function that is there has a
  vendor other than 0xFFFF, registers are pairs of words.
- `SegmentsAssumption` (Elf): a segment is in the file, and no later header's pages
  are mapped over it. `kalloc_f` gives fresh frames to pages that are mapped already
  (section 5), so the code does rely on that; `ld` aligns segments to pages.
- `ModulesAssumption` (Elf): a module is what `ld -r` makes of C files: one symbol table, with
  its names in the string table called `.strtab`; relocations against that table, of
  words of sections that are in the file, no two of one word; symbols whose section is in the file. The
  file lies before the heap, as `init_paging` maps the first 10 MB to themselves
  and the heap begins at 0xB00000; and no address passes an `int`.
- `KernelsAssumption` (Loader): the kernel's segments follow each other in the order of their
  addresses (`kernel/src/link.ld`, from 2M), in the range `paging_setup` maps, and what is still
  to be copied of the file is not where `memset` reaches.
- `ArchivesAssumption` (Boot): the ramdisk is what `tar` makes of files: a size of eleven octal digits
  that fits in the `unsigned int` `tar_get_size` returns, and as many blocks as the size needs. An ELF file
  among them has one symbol `__k_module_header`, a `module_header_t`, or none.
- `PrintfAssumption`: the types' largest numbers are numbers, none above `unsigned long long`'s;
  no relation between a `char` and an `int` is needed.
- `CallsAssumption` (Printf): a call's directives are complete, their arguments of the types the standard asks
  for, a buffer large enough for what is written, and each directive `Conforming`: it is one
  the code converts as the standard says. The others are listed in section 5; a directive is among them
  only for the values where its text may differ (a flag `-` with a precision, say, only if the precision
  asks for zeros), which `AsTheStandard` says. Nothing in the kernel, the loader or the modules calls printf with a flag, a
  width or a precision, so all of their calls conform.

Two more are not assumptions but hypotheses of the theorems about paging, and false of machines the code
may well run on:

- `RegionsApart` (Pmm): the loop takes no frame from two regions. Its bound is inclusive (`kernel.c:32`), so
  two usable regions that touch above the limit both give the frame they touch at (section 5).
  Also where they are apart the frame behind each is pushed (run `paging_regions`), and the theorems say
  that it has one use, as the others, and not that it is memory.
- `BelowFourGB` (Paging): all frames have addresses of 32 bits, since `to_physical` returns no more (run
  `paging_high`). The repository's own machines have 1 GB and 32 MB (`launch.sh`, `bochs`).

*Heap* (`HeapProofs`). `Inv == TypeOK /\ Tiling /\ Links /\ Coalesced /\ Cursors
/\ Args` is inductive. None of the parts is alone: unlinking
relies on `Links`, `Links` after a merge on `Tiling` (the absorbed block is the
next in memory), `Coalesced` after an insertion on the cursor being a free block,
and the cursors on the list being exactly the free blocks. Theorems
`TypeCorrect`, `HeapTiled`, `ListLinked`, `FreeBlocksCoalesced`, `CursorsValid`,
follow from `HeapInvariant`; `AlignedSafe` (`[]AlignedInside`) takes one more
induction on top of it. One lemma per action, and under it one step per conjunct.

`HeapImplementsAllocator`: `Spec =>
Abstract!Spec`, every heap step is a request, a grant of a region disjoint from all
others, a release, a halt or a stutter, under `regions <- {PTR, size of held
blocks}`.

*Paging* (`PagingProofs`). Under those two hypotheses `PagingInv` is inductive with every order of `mapf`,
`kalloc_f`, `copy_address_space`, `set_address_space`, `unmap` and the framebuffer's mapping. Its parts:

- `PmmInv`: what is below `esp` was taken from a region the loop has been
  through, as far as its inclusive bound goes, and no frame twice.
- `Good`: `Node(m, b, v)` being the table of level `b` on the way to page `v` from
  the kernel's PML4 (level 5: its frame), two nodes are the same frame only if they
  are the same node: same level, same leading indices. So the tables are a tree and
  a store into one of them changes the translations behind that entry and no
  other. Free frames are no node; the frames of the copies are heap frames that no other page has.
- `Copy` for the PML4 of each copy: its last entry is itself, and each other entry that is present is the
  kernel's. The copies so share all tables below.
- `Current`: CR3 is a root, `current_pml4` is the page that holds it, and neither that page nor the
  window has an outdated translation.

`FramesOnce` and `SpacesShareKernel` alone are not inductive: that a fresh table
is entered at one place needs the tree, that `memset` through the window clears
that table and no other needs `RootWalks` (a walk through the recursive slot ends one
level earlier), and that a copy's PML4 is not overwritten needs heap frames to be
private. `mapf` is proved in the order of its code: `LevelGood` (one missing table: a
frame, an entry, the clearing), `MapStages` (three of them, and what earlier ones have established
surviving later ones), `MapLeaf`, `MapGood`. When the stack runs empty `mapf` stops between two stages;
the invariant holds there too. From it `Paging_FramesOnce`,
`Paging_SpacesShareKernel`, `Paging_WindowAgrees` (the kernel's `to_physical`, four reads
through the window, against the processor's walk) and `Paging_MapsOnePage`.

`Paging_BootOrder`: AddressSpace implements Paging, `BootSpec => Spec`, so the kernel's order
of calls inherits all of that. `Paging_UserReaches` needs `BootInv` on top:
`Order` says which pages have been mapped at each point, `UserOpen` that the user flag is
exactly on the leaves of the user's pages and on every table above them. A heap page mapped
after them would take the flag away from shared tables, which is why the order is part of it.

*Devices* (`DevicesProofs`). `DisksIdentified`, `BusPolite`: `AtaInv` says what
`ata_identity` knows of the drive it asks, statement by statement (`Known`),
and that every other drive is `Quiet`: it has no data and, not being an ATA disk if it still works,
will have none. That is needed since a packet device is left while it
still works on the command. `FunctionsFound`: `EnumInv` says that `pci_devices` has
exactly the functions that are there and that the three loops have been to (`Visited`).

*Executables* (`ElfProofs`, `LoaderProofs`). `Elf_SegmentsLoaded`: `SegmentsInv` says that the file is as it
was and that the segments of the headers behind the loop are in place. Pages mapped for a later segment
leave them alone (`SegmentKeepsOthers`). `Loader_KernelLoaded`: `Placed` says the same of the
loader's loop and of what is still to be read: `memset` and `memcpy` reach four times as far as asked, over
segments that are still to come and over none that is done, and over no part of the
file that is still needed (`SegmentWritten`). That the file's part is needed makes `KernelLoaded` alone
not inductive.

*What the kernel is told* (`LoaderProofs`). `Loader_HandedOver`: in `TagsInv`, at tag `n` the boot
information holds the regions of the memory maps before `n`, joined (`Upto`), as many as the
counter counts, and the modules chosen are the last ones before `n` with their command lines
(`Chosen`). `HandedOver` says the first with `FlattenSeq`, which the library
defines by recursion and by `CHOOSE`; that a function with those equations exists is an induction on the length,
made as a proof that the set of counterexamples is empty, since it would have a least element
(`Induct`, from the well-foundedness of `<` on Nat). `Joint` is that function, and one step of it one tag.

*Division* (`LoaderProofs`). `Division_Exact`: `DivSpec => []Exact`, for words of any width. In
`DivisionInv`, some power of two divides the quotient so far, and what is left is less than
the divider times that power (`Below`): so the next bit is below all
that are set, and setting it adds it (`BitClear`). That the doubling does not overflow needs the limit: the
shifted divider is at most half of what is left. `HalfIs` and `BitIs` say what the two shifts,
written in halves of words, compute; `Quotient`, that what has been found at the end is *the* quotient.

*Names of a path* (`LibraryProofs`). `Strings_PathTokens`: `Stands` says of a copy that strtok has
taken `b` from and stands at `q` in, that only slashes before `q` have been overwritten, that each
returned name has its NUL (`Closed`), where the path ends or a slash was, and that no name that starts before `q`
is missing from `b`. `PathTokens` alone is not inductive: that what is left still
has its slashes and its end is what lets the next call find them (`CutAt`).

*Text* (`LibraryProofs`). `Printf_TextRendered`: `PrintSpec => []TextRendered`, for every call that conforms and
types of any width. `TextRendered` speaks of the end only. `PrintInv` says at the loop's top that there is an `n` such
that the format and the arguments left belong to the pieces behind the first `n` (`Rest`) and that idx,
buffer and output hold exactly the renderings of the first `n` (`Printed`, `Holds`); within a directive, that what is left
starts with the fields still to be read and that the variables hold those that have been (`Stage`). Three things
are more than bookkeeping. That `_atoi` and the scan of the flags stop where the field stops needs that
what follows cannot continue it: behind a width comes a period, a letter, never a digit (`Avoids`, `Marks`).
`Divisions`, the loop that stores digits backwards, and `Numeral`, the digits of a number, are reverses of each
other, by induction over the number (`DivisionsMirror`). And the code puts a number together in another order than the standard: zeros up to
the precision, then up to a width that has been made one smaller for a sign, then a prefix that may take
two zeros back, then the sign, then spaces; that the same text results is proved case by case for numbers with zeros,
spaces, a prefix, and on the left (`ZeroNumber`, `SpacedNumber`, `HashedNumber`, `LeftNumber`), and there the conditions of
`AsTheStandard` came from. Where the zero goes, and that a `maxlen` of 0, which wraps to `SIZE_MAX` in
`End`, stores none, is `Finished`.

*Linking* (`ElfProofs`). `Elf_Linked`: in `LinkInv`, `Same` says that stage 1 changes
nothing in a section header but offsets of empty sections, `Housing` where they are, `Memory`
which words there are, and `LinkedBy(Applied)` that the relocations behind the loop of
stage 2 are applied and nothing else is. `SymbolValue` is the
heart: through names, kernel symbols and offsets that wrap in an `int`, `elf_get_symval`
computes what the ABI asks for, or `ELF_RELOC_ERR`, which is no symbol's value. A
place belongs to one relocation (`PlaceFacts`), so applying one changes no other's (`Apply`), and
that the word is still the file's when its turn comes is what `LinkedBy` is for.
`HeaderIsFound` needs that a set of numbers has a least element (`LeastOf`, from well-foundedness).

*Interrupts* (`BootProofs`). `IntInv == IntTypeOK /\ InService /\ Shape`;
`Shape` ties the stub step to the first frame on the stack, also while a second is on it.
`IntTypeCorrect`: what the handler of a second frame does never ends in `Return`, because only vectors
below 32 get there and all of them panic (`InnerInv`), so that `Return` resumes code and pops the only frame.
`LinesReleased` (`[]InService`): a line whose handler faults stays in service, and no other does.

*Processes* (`BootProofs`). `ContextsKept`: `Spec => IntSpec`, the timer's copy
of contexts in and out of `proc` is invisible to the code it interrupts.
`ProcessesComplete` and `SpacesSwitched` (`[]Registered`, `[]OwnSpace`) rest on
`ProcInv`, which says for each statement of `exec` what has been built so far;
the tick can hit any of them, and it leaves those facts alone because
`process_count` is 0 until all of them hold.

*File system* (`VfsProofs`). `VfsInv == TypeOK /\ Shaped /\ Loops /\ Found` is
inductive: `Shaped` is the tree (children and parents agree, siblings differ),
`Loops` what the loop in progress has established about the part of the path
behind it, and `Found` needs both. On it rests the refinement: every step of
Vfs is one of Namespace's or a stutter, under the paths the tree spells out.
Theorems `TreeWellFormed`, `MountFinds`, `VfsImplementsNamespace`.

*Console* (`DevicesProofs`). `BytesDelivered`: `Spec => []Delivered`, for every FIFO
of two bytes or more. `ConsoleInv == Contexts /\ Programmed /\ RoomLeft /\ Texts /\
(~uart.loop => Complete)`: `Contexts` is what the interrupts' frame and flag allow, so
that one handler at a time prints; `RoomLeft` that a poll's promise outlives what
handlers print (nothing is queued when a handler's store is due, at most one byte
when the thread's is); `Texts` that what is left to print is the end of what was
asked for; `Complete` that the rest was sent, in order. `Complete` alone is not
inductive: a store keeps it only if the FIFO has room and the byte is the next.
`CompleteKept`, `PrintKeepsComplete` and `SayKeepsComplete` are its three cases.
`InterruptsVectored`: `VectorsInv` says that the controllers are as the firmware left them until
`setup_interrupts`, and are `Vectors` from then on; that no interrupt is taken earlier is part of
`Contexts`. The ten words are followed controller by controller (`ChipWired`, `OneChip`), `OrBits` is `|` of
two bytes, bit by bit.

*Boot* (`BootProofs`). `BootInv` says that the modules are a sequence, that what
is left of the required list is the list without those whose modules loaded,
and `Counted`, that `required_modules_left` is how many those are; with it `Exec`
is taken only at 0. `RequiredCounted`, `ExecHasModules`. `ArraysInBounds`, on top of `ArchiveLoaded`: as each header that
`tar_parse` takes is that of one file, an archive of as many files as the table has entries passes neither
bound; the list of modules then never grows (`OverrunStep`).
`ArchiveLoaded` and `BootDecided`: in `ArchiveInv`, `tar_parse` has passed the first `n` files
and stands at the block behind what tar has written of them (`Passed`); from then on the
modules are `Succeeding[i]` and `init` is the last initial executable among the first `i`. A header's
size is the file's because one more octal digit is one more factor of 8 of its remainder
(`OneDigit`, `SizeIsRead`), also where the digit's weight no longer fits in 32 bits, and what `tar_parse`
adds to its address is as many blocks as tar has written (`BlocksAreCounted`). What lies behind an
empty file is the next header or zeros, never the start of an ELF file (`StartFacts`).
`Recursion` is that a function with given first value and step exists, `InductTo` the induction.

Only model-checked:

- every liveness property (`Returns` of the heap and of Vfs, `LoadReturns`, `Logged`,
  `Served`, `ExecStarted`, `DivisionEnds`): TLAPS has no support for fairness and ENABLED.

All safety properties of the runs are proved. Inductions over data are made without the library's induction theorems,
which take an operator as a parameter that none of the installed provers can instantiate: on the set of the
numbers for which a statement holds, which is shown to be all of Nat (`Induct`).

Only proved: `HeapInvariant`, `TypeCorrect`, `CursorsValid`, `VfsTypeCorrect`,
`ExecHasModules`, `Paging_Inv` and `Paging_BootOrder`, parts of invariants that no run lists, and
the refinement of Paging, whose mapping is the identity: the `paging` run explores Paging by itself
and in the kernel's order.

## 5. Findings

Four with a run, in which TLC finds the behaviour:

- `heap.c:179` computes `heap_end` as the heap's size times 4096, where the size
  is already in bytes, so `kmalloc` never reports "Out of memory" where the mapped
  pages end (run `heap_limit`, property `LiveBlocksMapped`; the log line after it
  calls `size` a size in bytes).
- `kernel.c:32`: the loop over a region runs to `addr <= end`, and the end that the loader stores is the
  first address behind it (`loader.c:81`). The frame there is pushed though no usable region has it
  (`paging_regions`, `FreeUsable`), and twice where two regions touch.
- `paging.c:168`: `to_physical` masks its answer with `0xFFFFF000`, of 32 bits. Frames above 4 GB are
  pushed last and so popped first; of them it answers another, and `set_address_space` loads CR3 with it
  (`paging_high`, `WindowAgrees`).
- `dyn_array.h:29`: an array that grows asks `krealloc` for as many bytes as it has elements. The 256th
  element of one made for 256 leaves it 512 bytes of 2048 and is written behind them
  (`pci_array`, `ArrayFits`).

Others that the models contain as the code has them, and that the properties
state around:

- `module.c:76`: `mhdr || magic != ...` accepts any header that is not null; the
  message for an invalid one, line 95, cannot be reached by one. `Loaded` takes headers as they come.
- `vfs.c:77`: `kmount` tests its argument for the node it looked up, so a device that does not exist is
  mounted, with the type page 0 happens to hold, and "device not exists" (line 86) is never said.
  `Found` asks only that such a device was missing.
- `pci.h:21`: `PCI_BAR2` and `PCI_BAR3` take their upper halves from `PCI_BAR0`'s and `PCI_BAR2`'s registers;
  `FunctionsEnumerated` compares the other fields.
- `proc.c:77` stores the process's kernel stack through `tss`, which nothing
  sets, so the TSS keeps the loader's `rsp0` while user code runs
  (`memory.h:49` calls the field the "rsp when entering ring 0").
- `syscall.c:18`: an id is not compared with the table's size, and of its 256 entries one is set: user
  code has the kernel call NULL, where page 0 is mapped, or a word behind the table
  (`syscall_handler` in Interrupts).
- `tar.c:15`: the table has 64 entries, and a 65th file is written behind it; `InBounds` speaks of archives
  with no more files than entries.
- `elf64.c:291`: a segment that begins in the page where the one before it ends
  gets fresh frames there, so the end of that one is lost. The run's segments lie
  on pages of their own.
- `ata.c:52`: a packet device is listed with the identity of the disk before it,
  or of the stack; `Identified` speaks of the disks.
- `loader/src/util/string.c:24`: `memset` and `memcpy` of the loader move words for
  bytes, so each segment is cleared and copied over four times its size;
  `KernelLoaded` holds because segments come in the order of their addresses, and leaves out
  zeros of a bss that a later copy reaches.
- `loader.c:84`: `memreg_ptr` wraps at 256 regions; `HandedOver` speaks of fewer.
- `ata.c:49`: on a bus that floats at all ones the poll does not end; `LoadReturns` speaks of the others.
- `loader/src/util/div.c:67`: the remainder of a 32-bit dividend by a larger
  divider is the divider; `Exact` says so.

- `paging.c`, `copy_address_space`: a copy has the slots of the PML4 that were
  present when it was made. A slot filled later is missing in it, and a `mapf`
  inside it that meets the slot in the kernel's table takes it as present;
  `map_framebuffer` of Paging comes before the first copy, as in `kernel_main`.
- `interrupts.c`, `setup_pic`: the masks of the firmware are read first and
  written back, and later only added to. A line the firmware had closed stays
  closed: line 15, with a mask of 0x8F, while `ata` registers a handler for it.
- `heap.c` maps with the GLOBAL flag, but nothing sets CR4.PGE, so that a load of
  CR3 drops those translations as well, on which `exec`'s stack relies.
- `loader.c:34` ignores what `serial_init` returns: if the test byte comes back
  late, the chip stays in loopback mode and nothing is ever seen of the log
  (`Delivered` speaks of the other case).
- `serial.c`: handlers print between another's poll and its store. No byte is
  lost only because the FIFO is on, and a handler leaves it with at most one byte.
- `printf.c`: `-` with a precision drops the zeros the precision asks for, `#` takes the last
  digits away when the number is exactly as long as the width, puts a second 0 before an octal number
  that has one, and none before a zero with precision 0; conversions longer than the buffer
  of 32 are cut, the length `t` is compiled out (line 40, the loader's 39), so `%td` prints `td` and takes no
  argument; a negative `.*` counts as 0 and not as no precision, and `%p` takes a precision or flags for something the
  standard leaves open. `TextRendered` speaks of calls without those (`Conforming`).

Hazards without a property are listed with the reason in `PROJECT.json`.

## 6. What is not modelled

- `kvfree`, which reads one byte of its back pointer, and `ffree`: nothing calls
  them. `set_mem_flags` has no caller and would not end. `map`, `kalloc`-style
  wrappers around `mapf` are inlined in their callers.
- Time; the loader's and the kernel's descriptor tables (GDT, TSS), constants
  written once.
- `kread` and `kwrite`: no node ever has an inode, so they change nothing.
  `ata_read_sectors`, `ata_cache_flush`, `ata_sel_drive`: dead code.
- `export_symbols`, which fills a table once before it is read; it is Elf's
  `Exports`.
- Of `printf.c` the floating point conversions and `fctprintf`, which nothing uses,
  and formats that end inside a directive.
- Third-party code, and the test module, which prints a line.

## 7. Plan

1. (done) Heap, Allocator; Pmm, Paging; Interrupts; Proc; and their proofs.
2. (done) Vfs, Namespace and their refinement proof; Elf; Boot with DynArray and
   its proofs; Ata; Pci; Loader; Div64; Strings.
3. (done) TLB and the kernel's order of mappings: Paging, AddressSpace; Pic and
   Console; Printf.
4. Composition: Boot's modules calling Vfs through Ata's `load`; Vfs over Strings,
   so that the names are strtok's by refinement.
5. (done) Proofs: Paging and AddressSpace; Ata and Pci; the bounds of Boot's arrays.
6. (done) Proofs: `SegmentsLoaded` of Elf and `KernelLoaded` of Loader, for files whose
   segments lie apart; `Linked`, for modules as the linker makes them.
7. (done) Proofs: `HandedOver` of Loader, `Exact` of Div64, `Delivered` and `Vectored` of Console.
8. (done) Proofs: `Loaded` and `Decided` of Boot.
9. (done) Proofs: `PathTokens` of Strings.
10. (done) Proofs: `TextRendered` of Printf.
