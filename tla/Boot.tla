-------------------------------- MODULE Boot --------------------------------
(***************************************************************************)
(* The ramdisk part of kernel_main (src/kernel/src/kernel.c): tar_parse,   *)
(* then load_module for each module of the archive, then exec of the       *)
(* initial executable if every required module has been loaded.            *)
(*                                                                         *)
(* Memory from the ramdisk on is a sequence of tar's blocks.  A block is a *)
(* header, zeros, the start of an ELF file, or other data; what load_elf64 *)
(* makes of the file (module Elf), its symbol __k_module_header, if any,   *)
(* and what its load() returns are given with its first block.             *)
(***************************************************************************)
EXTENDS Integers, Sequences, FiniteSets, DynArray

CONSTANTS Archives,    \* ramdisks, as the sequences of their files
          Names,       \* of modules
          Required,    \* required_modules
          Base,        \* bootinfo->initrd
          BlockSize,   \* 512
          Digits,      \* 11
          Word,        \* 2^32
          MaxEntries,  \* 64
          ArraySize    \* 256

ASSUME RequiredAssumption ==
  Required \in Seq(Names) /\ \A k \in DOMAIN Required : Required[k] # ""

\* There is less room for files than for modules.
ASSUME SizesAssumption ==
  /\ MaxEntries \in Nat /\ ArraySize \in Nat /\ MaxEntries < ArraySize
  /\ Base \in Nat /\ BlockSize \in Nat \ {0} /\ Digits \in Nat /\ Word \in Nat \ {0}

\* 8^n
EightTo[n \in 0 .. Digits] == IF n = 0 THEN 1 ELSE 8 * EightTo[n - 1]

ModuleHeader == [magic : BOOLEAN, name : Names, load : Nat]

\* An archive that tar has made and that fits in memory: the size in a header
\* has Digits digits, and the file fills its last block with zeros.
Elements(seq) == {seq[k] : k \in DOMAIN seq}
ASSUME ArchivesAssumption ==
  \A archive \in Archives :
    /\ archive \in Seq(Elements(archive))
    /\ \A k \in DOMAIN archive :
         LET file == archive[k] IN
         /\ file.size \in Nat /\ file.size < Word /\ file.size < EightTo[Digits]
         /\ file.data \in Seq(Elements(file.data))
         /\ Len(file.data) = (file.size + BlockSize - 1) \div BlockSize
         /\ file.size > 0 /\ file.data[1].kind = "elf" =>
              file.data[1].symbol = <<>> \/ file.data[1].symbol \in [{1} -> ModuleHeader]

VARIABLES files,       \* what the archive was made of
          present,     \* whether there is a ramdisk
          pc,
          addr, entries,       \* tar_parse
          i, init,             \* kernel_main
          initialized,         \* __are_modules_initialized
          modules,             \* the array of their headers
          required, left       \* required_modules, required_modules_left

vars == <<files, present, pc, addr, entries, i, init, initialized, modules,
          required, left>>
ramdisk == <<files, present>>
array == <<initialized, modules>>

NULL == 0

-----------------------------------------------------------------------------
(* The archive, as tar writes it                                           *)

Octal(n) == [k \in 1 .. Digits |-> (n \div EightTo[Digits - k]) % 8]
FileBlocks(file) ==
  <<[kind |-> "header", filename |-> file.filename, size |-> Octal(file.size)]>>
    \o file.data
Zeros == [kind |-> "zeros"]
Written[k \in 0 .. Len(files)] ==
  IF k = 0 THEN <<>> ELSE Written[k - 1] \o FileBlocks(files[k])
Disk == Written[Len(files)] \o <<Zeros, Zeros>>
Block(a) == Disk[(a - Base) \div BlockSize + 1]

\* A block read as a header; no other data looks like one of a module.
NoFile == [filename |-> [base |-> "", ext |-> ""], size |-> Octal(0)]
Header(block) == IF block.kind = "header" THEN block ELSE NoFile

-----------------------------------------------------------------------------

Init ==
  /\ files \in Archives /\ present \in BOOLEAN
  /\ pc = "start" /\ addr = Base /\ entries = <<>>
  /\ i = 0 /\ init = NULL
  /\ initialized = FALSE /\ modules = Uninitialized
  /\ required = Required /\ left = Len(Required)

\* CHECK_ADDR(bootinfo->initrd)
kernel_main ==
  /\ pc = "start"
  /\ \/ present /\ pc' = "tar"
     \/ ~present /\ pc' = "halted"
  /\ UNCHANGED <<ramdisk, addr, entries, i, init, array, required, left>>

\* tar_get_size
tar_get_size(in) ==
  LET value[j \in 0 .. Digits] ==
        IF j = 0 THEN 0
        ELSE (value[j - 1] + in[Digits - j + 1] * (EightTo[j - 1] % Word)) % Word
  IN value[Digits]

\* What follows a header of that size: the file's blocks.
FullBlocks(n) == (n \div BlockSize + 1) * BlockSize
AfterFile(n) == FullBlocks(n) + (IF n % BlockSize # 0 THEN BlockSize ELSE 0)

\* tar_parse, one header; kmalloc(sizeof(tar_file_t *) * 64) holds MaxEntries.
ParseEntry ==
  /\ pc = "tar" /\ Block(addr).kind # "zeros"
  /\ LET n == tar_get_size(Header(Block(addr)).size) IN
     /\ addr' = addr + AfterFile(n)
     /\ entries' = Append(entries, [filename |-> Header(Block(addr)).filename, size |-> n,
                                    start |-> addr + BlockSize])
  /\ pc' = IF Len(entries) < MaxEntries THEN "tar" ELSE "overrun"
  /\ UNCHANGED <<ramdisk, i, init, array, required, left>>

ParseDone ==
  /\ pc = "tar" /\ Block(addr).kind = "zeros"
  /\ pc' = "files"
  /\ UNCHANGED <<ramdisk, addr, entries, i, init, array, required, left>>

-----------------------------------------------------------------------------
(* load_module                                                             *)

File == entries[i + 1]
AtFile == pc = "files" /\ i < Len(entries)
IsModule == File.filename.ext = ".smpm"
Start == Block(File.start)

load_elf64 == IF Start.kind = "elf" THEN Start.load_elf64 ELSE 1
MissingHeader == load_elf64 = 0 /\ Start.symbol = <<>>
mhdr == Start.symbol[1]

\* mhdr || mhdr->magic != SMPLOS_MODULE_MAGIC
Accepted ==
  /\ load_elf64 = 0 /\ ~MissingHeader
  /\ Start.symbol # <<>> \/ ~mhdr.magic
  /\ mhdr.name # ""
Loads == Accepted /\ mhdr.load = 0

\* INIT_DYN_ARRAY(modules, 256), the first time.
Emptied == INIT_DYN_ARRAY(ArraySize)
OneByteEach == IF initialized THEN modules ELSE [Emptied EXCEPT !.bytes = ArraySize]
Kept == IF initialized THEN modules ELSE INIT_DYN_ARRAY(ArraySize)

\* The names a loaded module is crossed off for.
AnyMatching(name) == {k \in DOMAIN required : name = Required[k]}
Matching(name) == {k \in DOMAIN required : required[k] # "" /\ name = required[k]}
Found(name) == IF left # 0 THEN Matching(name) ELSE {}

\* An entry that load_module refuses, or whose load() fails.
RefuseModule ==
  /\ AtFile /\ IsModule /\ ~Loads /\ ~MissingHeader
  /\ i' = i + 1
  /\ initialized' = TRUE
  /\ modules' = Kept
  /\ UNCHANGED <<ramdisk, pc, addr, entries, init, required, left>>

LoadModule ==
  /\ AtFile /\ IsModule /\ Loads
  /\ i' = i + 1
  /\ initialized' = TRUE
  /\ modules' = DYN_ARRAY_ADD(Kept, mhdr)
  /\ pc' = IF Fits(modules') THEN "files" ELSE "overrun"
  /\ LET matching == Found(mhdr.name) IN
     /\ required' = [k \in DOMAIN required |-> IF k \in matching THEN "" ELSE required[k]]
     /\ left' = left - Cardinality(matching)
  /\ UNCHANGED <<ramdisk, addr, entries, init>>

\* elf_get_address of a null symbol: whatever page 0 says.
WildHeader ==
  /\ AtFile /\ IsModule /\ MissingHeader
  /\ pc' = "wild"
  /\ initialized' = TRUE
  /\ modules' = Kept
  /\ UNCHANGED <<ramdisk, addr, entries, i, init, required, left>>

-----------------------------------------------------------------------------
(* The rest of kernel_main                                                 *)

FindInit ==
  /\ AtFile /\ File.filename.ext = ".smpinit"
  /\ init' = File.start
  /\ i' = i + 1
  /\ UNCHANGED <<ramdisk, pc, addr, entries, array, required, left>>

PassFile ==
  /\ AtFile /\ File.filename.ext \notin {".smpm", ".smpinit"}
  /\ i' = i + 1
  /\ UNCHANGED <<ramdisk, pc, addr, entries, init, array, required, left>>

AnyRequired == TRUE
check_required_modules == left = 0

Exec ==
  /\ pc = "files" /\ i = Len(entries) /\ check_required_modules /\ init # NULL
  /\ pc' = "exec"
  /\ UNCHANGED <<ramdisk, addr, entries, i, init, array, required, left>>

Halt ==
  /\ pc = "files" /\ i = Len(entries) /\ ~(check_required_modules /\ init # NULL)
  /\ pc' = "halted"
  /\ UNCHANGED <<ramdisk, addr, entries, i, init, array, required, left>>

Next == \/ kernel_main \/ ParseEntry \/ ParseDone
        \/ RefuseModule \/ LoadModule \/ WildHeader
        \/ FindInit \/ PassFile \/ Exec \/ Halt

Spec == Init /\ [][Next]_vars

-----------------------------------------------------------------------------
(* Properties                                                              *)

TypeOK ==
  /\ pc \in {"start", "tar", "files", "exec", "halted", "wild", "overrun"}
  /\ i \in 0 .. Len(entries) /\ initialized \in BOOLEAN
  /\ modules.items \in Seq(ModuleHeader)
  /\ required \in [DOMAIN Required -> Names \cup {""}]
  /\ left \in Nat

\* tar_parse finds the files tar has put in the archive, each at
\* the block behind its header, however long the ones before it are.
Placed(k) ==
  [filename |-> files[k].filename, size |-> files[k].size,
   start |-> Base + BlockSize * (Len(Written[k - 1]) + 1)]
Parsed ==
  pc \in {"files", "exec"} => entries = [k \in DOMAIN files |-> Placed(k)]

Succeeds(file) ==
  /\ file.filename.ext = ".smpm" /\ file.size > 0
  /\ file.data[1].kind = "elf" /\ file.data[1].load_elf64 = 0
  /\ file.data[1].symbol # <<>>
  /\ file.data[1].symbol[1].name # "" /\ file.data[1].symbol[1].load = 0

\* The headers of those among the first k files.
Succeeding[k \in 0 .. Len(files)] ==
  IF k = 0 THEN <<>>
  ELSE IF Succeeds(files[k]) THEN Append(Succeeding[k - 1], files[k].data[1].symbol[1])
  ELSE Succeeding[k - 1]

\* Typed; and the modules are those of the archive's files whose load has
\* returned 0, in the archive's order: tar_parse loses the place of none, and
\* one that fails costs none of the others.
Loaded ==
  /\ TypeOK /\ Parsed
  /\ pc \in {"files", "exec", "wild"} => modules.items = Succeeding[i]

\* required_modules_left counts the names left in required_modules, and those
\* are the ones no loaded module has, though several may have the same name.
Counted ==
  /\ \A k \in DOMAIN Required :
       required[k] = IF \E m \in DOMAIN modules.items : modules.items[m].name = Required[k]
                     THEN "" ELSE Required[k]
  /\ left = Cardinality({k \in DOMAIN Required : required[k] # ""})

\* The initial executable runs exactly when a ramdisk has one and every
\* required module has been loaded; it is the last one of the archive.
Ready ==
  /\ present
  /\ \E k \in DOMAIN files : files[k].filename.ext = ".smpinit"
  /\ \A n \in DOMAIN Required : \E k \in DOMAIN files :
       Succeeds(files[k]) /\ files[k].data[1].symbol[1].name = Required[n]
Decided ==
  /\ pc = "exec" => Ready /\ init = Placed(CHOOSE k \in DOMAIN files :
       /\ files[k].filename.ext = ".smpinit"
       /\ \A j \in k + 1 .. Len(files) : files[j].filename.ext # ".smpinit").start
  /\ pc = "halted" => ~Ready

\* The kernel's own files, fewer than the array of tar_parse has entries for,
\* are never too many: no header is read inside a file, none is counted twice,
\* and the array of modules, which has room for more, does not have to grow.
\* Nothing looks whether an archive has more files, and a DYN_ARRAY that has
\* to grow loses its elements' room (Devices, ArrayFits).
InBounds == Len(files) <= MaxEntries => pc # "overrun"
=============================================================================
