------------------------------- MODULE Loader -------------------------------
(***************************************************************************)
(* loader_main (src/loader/src/loader.c): the tags GRUB leaves are read    *)
(* for the kernel's arguments, the kernel's segments are copied to their   *)
(* places, and the kernel is entered with paging on.                       *)
(*                                                                         *)
(* Memory is a few bytes.  Neither GRUB nor the loader keeps the modules   *)
(* away from where the segments go; here they lie clear of it, as far as   *)
(* memset reaches, and the loader's own data lies elsewhere.               *)
(***************************************************************************)
EXTENDS Integers, Sequences, SequencesExt

CONSTANTS Machines,   \* what GRUB hands over: magic, mbt, tags, memory, files
          Regions,    \* 256: the values of memreg_ptr, and bootinfo.memory
          Missing,    \* 0xFFFFFFFF
          WordSize,   \* 4: the bytes of a uint32_t
          PageSize,   \* 4096
          Entries,    \* 512: the entries of a page table
          Tables      \* 6: pt to pt5

VARIABLES machine, mem,
          pc, tag,    \* the loop over the tags, and over program headers
          memreg_ptr, fb, kernel_start, initrd_start,
          bootinfo,   \* the kernel's argument
          pt          \* the frames of pages, once they are mapped

tags == <<fb, kernel_start, initrd_start>>
vars == <<machine, mem, pc, tag, memreg_ptr, tags, bootinfo, pt>>

\* A program header; where its segment lies, as far as memset reaches, and
\* where its bytes are when the file is at start.
Elf64_Phdr ==
  [p_type : Nat, p_vaddr : Nat, p_offset : Nat, p_filesz : Nat, p_memsz : Nat]
Lies(phdr) == phdr.p_vaddr .. phdr.p_vaddr + phdr.p_memsz - 1
Reach(phdr) == phdr.p_vaddr .. phdr.p_vaddr + WordSize * phdr.p_memsz - 1
Source(start, phdr) ==
  start + phdr.p_offset .. start + phdr.p_offset + phdr.p_filesz - 1

\* Files that are kernels are as link.ld makes them, from 2M, segments in the
\* order of their addresses, within what paging_setup maps; and GRUB has put
\* them clear of where the segments go.
KernelsApart ==
  /\ {PageSize, Entries, Tables, WordSize} \subseteq Nat \ {0}
  /\ \A m \in Machines : \A start \in DOMAIN m.files : m.files[start].magic =>
       LET headers == Append(m.files[start].phdrs, m.files[start].behind)
           Segments == {n \in DOMAIN headers : headers[n].p_type = 1}
       IN /\ start \in Nat
          /\ m.files[start].phdrs \in Seq(Elf64_Phdr) /\ m.files[start].behind \in Elf64_Phdr
          /\ \A n \in Segments :
               /\ headers[n].p_filesz <= headers[n].p_memsz
               /\ Lies(headers[n]) \cup Source(start, headers[n]) \subseteq DOMAIN m.mem
               /\ Lies(headers[n]) \subseteq PageSize .. PageSize * (Tables * Entries) - 1
               /\ \A l \in Segments :
                    /\ n < l => \A a \in Lies(headers[n]) : a < headers[l].p_vaddr
                    /\ l <= n => Source(start, headers[n]) \cap Reach(headers[l]) = {}

ASSUME KernelsAssumption == KernelsApart

\* multiboot_memory_map_t, and what is GRUB's: the tags are a sequence.
MemoryMapEntry == [addr : Nat, len : Nat, type : Nat]
ASSUME TagsAssumption ==
  /\ Regions \in Nat \ {0}
  /\ \A m \in Machines :
       /\ m.tags \in Seq(Range(m.tags))
       /\ \A n \in DOMAIN m.tags :
            m.tags[n].type = "mmap" => m.tags[n].entries \in Seq(MemoryMapEntry)

NoRegion == [start |-> 0, end |-> 0, type |-> 0]

\* fb is uninitialized.
Init ==
  /\ machine \in Machines
  /\ mem = machine.mem
  /\ pc = "start" /\ tag = 1 /\ memreg_ptr = 0
  /\ fb \in {0, Missing} /\ kernel_start = Missing /\ initrd_start = Missing
  /\ bootinfo = [memory |-> [r \in 0 .. Regions - 1 |-> NoRegion],
                 mem_size |-> 0, framebuffer |-> 0, initrd |-> 0]
  /\ pt = <<>>

\* The two tests; loader_main returns to boot.asm, which halts.
loader_main ==
  /\ pc = "start"
  /\ pc' = IF machine.magic /\ machine.mbt % 8 = 0 THEN "tags" ELSE "hang"
  /\ UNCHANGED <<machine, mem, tag, memreg_ptr, tags, bootinfo, pt>>

-----------------------------------------------------------------------------
(* The tags                                                                *)

Tag == machine.tags[tag]
AtTag == pc = "tags" /\ tag <= Len(machine.tags)
NextTag == tag' = tag + 1 /\ UNCHANGED <<machine, mem, pc, pt>>

ReadFramebuffer ==
  /\ AtTag /\ Tag.type = "framebuffer"
  /\ fb' = Tag.addr
  /\ NextTag
  /\ UNCHANGED <<memreg_ptr, kernel_start, initrd_start, bootinfo>>

\* MULTIBOOT_TAG_TYPE_MMAP: an entry goes where memreg_ptr, 8 bits, is.
Place(k) == (memreg_ptr + k) % Regions
Length(entry) == entry.len
RegionEnd(entry) == entry.addr + entry.len
Region(entry) == [start |-> entry.addr, end |-> RegionEnd(entry), type |-> entry.type]

\* The last entry to get the place r, counting from 1; 0 when none does.
Filler(entries, r) ==
  LET fillers == {k \in DOMAIN entries : Place(k - 1) = r} IN
  CHOOSE k \in fillers \cup {0} : \A l \in fillers : l <= k

ReadMemoryMap ==
  /\ AtTag /\ Tag.type = "mmap"
  /\ bootinfo' = [bootinfo EXCEPT !.memory = [r \in DOMAIN @ |->
                    LET k == Filler(Tag.entries, r) IN
                    IF k = 0 THEN @[r] ELSE Region(Tag.entries[k])]]
  /\ memreg_ptr' = Place(Len(Tag.entries))
  /\ NextTag
  /\ UNCHANGED tags

Named(cmdline) == Tag.cmdline = cmdline
ReadModule ==
  /\ AtTag /\ Tag.type = "module"
  /\ kernel_start' = IF Named("KERNEL") THEN Tag.mod_start ELSE kernel_start
  /\ initrd_start' = IF Named("INITRD") THEN Tag.mod_start ELSE initrd_start
  /\ NextTag
  /\ UNCHANGED <<memreg_ptr, fb, bootinfo>>

PassTag ==
  /\ AtTag /\ Tag.type \notin {"framebuffer", "mmap", "module"}
  /\ NextTag
  /\ UNCHANGED <<memreg_ptr, tags, bootinfo>>

FillBootinfo ==
  /\ pc = "tags" /\ tag > Len(machine.tags)
  /\ bootinfo' = [bootinfo EXCEPT !.mem_size = memreg_ptr, !.framebuffer = fb,
                                  !.initrd = initrd_start]
  /\ pc' = "elf" /\ tag' = 0
  /\ UNCHANGED <<machine, mem, memreg_ptr, tags, pt>>

-----------------------------------------------------------------------------
(* load_elf64                                                              *)

\* What is at kernel_start, read as a file; there is none at 0xFFFFFFFF.
\* behind is what follows its program headers.
File == IF kernel_start \in DOMAIN machine.files THEN machine.files[kernel_start]
        ELSE [magic |-> FALSE, phdrs |-> <<>>]

\* The loader's memset and memcpy, whose elements are words.
memset(m, dest, num) ==
  [a \in DOMAIN m |-> IF a - dest \in 0 .. WordSize * num - 1 THEN 0 ELSE m[a]]
memcpy(m, dest, src, num) ==
  [a \in DOMAIN m |-> IF a - dest \in 0 .. WordSize * num - 1
                      THEN m[src + a - dest] ELSE m[a]]

\* A program header, and one more than there are.
Phdr == IF tag < Len(File.phdrs) THEN File.phdrs[tag + 1] ELSE File.behind

FromFile(m, phdr) ==
  memcpy(m, phdr.p_vaddr, kernel_start + phdr.p_offset, phdr.p_filesz)
Segment(m, phdr) == FromFile(memset(m, phdr.p_vaddr, phdr.p_memsz), phdr)

LoadSegment ==
  /\ pc = "elf" /\ File.magic /\ tag < Len(File.phdrs) + 1
  /\ mem' = IF Phdr.p_type = 1 THEN Segment(mem, Phdr) ELSE mem
  /\ tag' = tag + 1
  /\ UNCHANGED <<machine, pc, memreg_ptr, tags, bootinfo, pt>>

\* return without a value: enter_kernel jumps to whatever eax holds.
LoadFails ==
  /\ pc = "elf" /\ ~File.magic
  /\ pc' = "wild"
  /\ UNCHANGED <<machine, mem, tag, memreg_ptr, tags, bootinfo, pt>>

\* Each table maps the pages behind those of the one before it, for the
\* kernel's start.  Entry 511 of the page directory, 0, is taken for a table
\* and filled: page 0 is lost.
Frame(table, i) == Entries * table + i
paging_setup ==
  /\ mem' = [a \in DOMAIN mem |-> IF a < PageSize THEN Missing ELSE mem[a]]
  /\ pt' = [p \in 0 .. Tables * Entries - 1 |-> Frame(p \div Entries, p % Entries)]

\* setup_longmode builds the tables and turns paging on; enter_kernel pops the
\* entry point it has pushed, in 64-bit code, with bootinfo as the argument.
enter_kernel ==
  /\ pc = "elf" /\ File.magic /\ tag = Len(File.phdrs) + 1
  /\ paging_setup
  /\ pc' = "kernel"
  /\ UNCHANGED <<machine, tag, memreg_ptr, tags, bootinfo>>

Next == \/ loader_main
        \/ ReadFramebuffer \/ ReadMemoryMap \/ ReadModule \/ PassTag \/ FillBootinfo
        \/ LoadSegment \/ LoadFails \/ enter_kernel

Spec == Init /\ [][Next]_vars

-----------------------------------------------------------------------------
(* Properties                                                              *)

\* The count stays within the array, whose entries are regions.
TypeOK ==
  /\ pc \in {"start", "tags", "elf", "kernel", "hang", "wild"} /\ tag \in Nat
  /\ memreg_ptr \in 0 .. Regions - 1
  /\ DOMAIN mem = DOMAIN machine.mem
  /\ DOMAIN bootinfo.memory = 0 .. Regions - 1
  /\ \A r \in DOMAIN bootinfo.memory : DOMAIN bootinfo.memory[r] = DOMAIN NoRegion

\* The entries of all maps, in their order.
AllEntries ==
  FlattenSeq([n \in DOMAIN machine.tags |->
                IF machine.tags[n].type = "mmap" THEN machine.tags[n].entries ELSE <<>>])

\* The n-th tag is the last module with the command line.
LastModule(n, cmdline) ==
  /\ machine.tags[n].type = "module" /\ machine.tags[n].cmdline = cmdline
  /\ \A m \in n + 1 .. Len(machine.tags) :
       machine.tags[m].type = "module" => machine.tags[m].cmdline # cmdline

\* Typed; and the kernel is told of every region of every memory map there
\* was, in order, unless they are more than its counter counts; it gets the
\* last module that is called INITRD, and is itself the last one called
\* KERNEL: the loop over the tags and what it leaves to bootinfo, loader.c.
HandedOver ==
  LET entries == AllEntries
      Start(cmdline, start) ==
        IF \E n \in DOMAIN machine.tags : LastModule(n, cmdline)
        THEN \E n \in DOMAIN machine.tags :
               LastModule(n, cmdline) /\ start = machine.tags[n].mod_start
        ELSE start = Missing
  IN TypeOK /\ (pc \in {"elf", "kernel"} =>
       /\ Start("INITRD", bootinfo.initrd) /\ Start("KERNEL", kernel_start)
       /\ Len(entries) < Regions =>
            /\ bootinfo.mem_size = Len(entries)
            /\ \A k \in DOMAIN entries :
                 LET r == bootinfo.memory[k - 1] IN
                 /\ r.start = entries[k].addr /\ r.type = entries[k].type
                 /\ r.end - r.start = entries[k].len)

\* The program headers of the segments the kernel asks to be loaded.
Loadable == {n \in DOMAIN File.phdrs : File.phdrs[n].p_type = 1}

\* What the kernel reads at an address.
At(a) == mem[PageSize * pt[a \div PageSize] + (a % PageSize)]

\* When the kernel is entered its segments are where it was linked to run,
\* whole, though each was written after the one before it with more bytes
\* than it has; and its bss is zero, but for the first three bytes for each
\* of the segment's bytes in the file: load_elf64 and
\* paging_setup.
KernelLoaded ==
  pc = "kernel" => \A n \in Loadable :
    LET phdr == File.phdrs[n] IN
    /\ \A k \in 0 .. phdr.p_filesz - 1 :
         At(phdr.p_vaddr + k) = machine.mem[kernel_start + phdr.p_offset + k]
    /\ \A k \in WordSize * phdr.p_filesz .. phdr.p_memsz - 1 : At(phdr.p_vaddr + k) = 0
=============================================================================
