-------------------------------- MODULE Elf --------------------------------
(***************************************************************************)
(* load_elf64, src/kernel/src/elf64.c: a relocatable module is linked in   *)
(* place, first memory for its empty sections, then one relocation per     *)
(* step; an executable is copied segment by segment to fresh pages.        *)
(*                                                                         *)
(* An address holds one word, 32 bits wide, and C's int has Ints values.   *)
(* A section header's sh_name is the name itself; the items of a section   *)
(* are its symbols, strings or relocations, sh_size / sh_entsize of them.  *)
(* A 64-bit place is the word of its low half: the code stores an int.     *)
(* Addresses are small enough for an int, as the kernel's are, and none is *)
(* ELF_RELOC_ERR, nor is the value of any symbol.                          *)
(***************************************************************************)
EXTENDS Integers, Sequences, FiniteSets

CONSTANTS Images,    \* files passed to load_elf64, as the linker makes them
          Base,      \* the address of the file
          HeapBase,  \* the first address kmalloc returns
          Ints,      \* 2^32
          Exports,   \* k_symtable: names to addresses
          PageSize   \* 4096

\* The structures of a file, with the fields the loader reads.
Elf64_Sym == [st_name : Nat, st_shndx : Nat, st_value : Nat]
Elf64_Rela == [type : STRING, sym : Nat, r_offset : Nat, r_addend : Int]
Elf64_Phdr == [p_type : STRING, p_vaddr : Nat, p_offset : Nat,
               p_filesz : Nat, p_memsz : Nat]
Items(type) == CASE type = "SHT_SYMTAB" -> Seq(Elf64_Sym)
                 [] type \in {"SHT_REL", "SHT_RELA"} -> Seq(Elf64_Rela)
                 [] OTHER -> Seq(STRING)
Elf64_Shdr(type) ==
  [type : {type}, name : STRING, alloc : BOOLEAN, size : Nat, offset : Nat,
   link : Nat, info : Nat, items : Items(type)]
Elf64_Ehdr(sections) ==
  [magic : BOOLEAN, e_type : {"ET_REL", "ET_EXEC", "other"}, e_entry : Nat,
   sections : {sections}, phdrs : Seq(Elf64_Phdr), behind : Elf64_Phdr,
   words : Seq(0 .. Ints - 1)]

ASSUME ElfAssumption ==
  \A image \in Images :
    /\ image \in Elf64_Ehdr(image.sections)
    /\ Cardinality(DOMAIN image.sections) \in Nat
    /\ DOMAIN image.sections = 0 .. Cardinality(DOMAIN image.sections) - 1
    /\ \A k \in DOMAIN image.sections :
         image.sections[k] \in Elf64_Shdr(image.sections[k].type)

VARIABLES elf,       \* the file, as it was
          shdr,      \* its section headers, in memory
          mem,       \* words of the file and the heap
          heap,      \* what kmalloc returns next
          user,      \* words of the pages mapped for segments
          pc,        \* the loop
          i, idx,    \* its counters
          result     \* what load_elf64 has returned

vars == <<elf, shdr, mem, heap, user, pc, i, idx, result>>

SHN_UNDEF == 0
SHN_ABS == 65521
ELF_RELOC_ERR == Ints - 1
NULL == 0
Junk == -1           \* what a fresh frame holds, no word anyone wrote

AsInt(x) == x % Ints
Sections == DOMAIN shdr

Init ==
  /\ elf \in Images
  /\ shdr = elf.sections
  /\ mem = [a \in Base .. Base + Len(elf.words) - 1 |-> elf.words[a - Base + 1]]
  /\ heap = HeapBase
  /\ user = [a \in {} |-> Junk]
  /\ pc = "load" /\ i = 0 /\ idx = 0 /\ result = NULL

Return(v) == pc' = "done" /\ result' = v

\* The checks of e_ident and e_type.
load_elf64 ==
  /\ pc = "load"
  /\ \/ (~elf.magic \/ elf.e_type = "other") /\ Return(1)
     \/ elf.magic /\ elf.e_type = "ET_EXEC" /\ pc' = "segments" /\ UNCHANGED result
     \/ elf.magic /\ elf.e_type = "ET_REL" /\ pc' = "stage1" /\ UNCHANGED result
  /\ UNCHANGED <<elf, shdr, mem, heap, user, i, idx>>

-----------------------------------------------------------------------------
(* Symbols                                                                 *)

\* The sections elf_get_symbol's loop accepts; it keeps the last.
SymbolTables == {k \in Sections : shdr[k].type = "SHT_SYMTAB"}
AnyStrings == {k \in Sections : shdr[k].type = "SHT_STRTAB"}
StringTables ==
  {k \in Sections : shdr[k].type = "SHT_STRTAB" /\ shdr[k].name = ".strtab"}
LastOf(S) == IF S = {} THEN NULL ELSE CHOOSE k \in S : \A l \in S : l <= k

\* elf_get_symbol: the index of the symbol in the symbol table.
elf_get_symbol(sname) ==
  LET symtab == LastOf(SymbolTables)
      strtab == LastOf(StringTables)
      found == {s \in 1 .. Len(shdr[symtab].items) - 1 :
                  LET st_name == shdr[symtab].items[s + 1].st_name IN
                  st_name # 0 /\ shdr[strtab].items[st_name] = sname}
  IN IF symtab = NULL \/ strtab = NULL \/ found = {} THEN NULL
     ELSE CHOOSE s \in found : \A t \in found : s <= t

InFile(sym) == Base + shdr[sym.st_shndx].offset + sym.st_value
elf_get_address(s) ==
  InFile(shdr[LastOf(SymbolTables)].items[s + 1])

\* get_kernel_symbol
get_kernel_symbol(name) == IF name \in DOMAIN Exports THEN Exports[name] ELSE NULL

\* elf_get_symval
elf_get_symval(table, s) ==
  IF table = SHN_UNDEF \/ s = SHN_UNDEF THEN 0
  ELSE IF s >= Len(shdr[table].items) THEN ELF_RELOC_ERR
  ELSE LET symbol == shdr[table].items[s + 1]
           name == shdr[shdr[table].link].items[symbol.st_name]
           target == get_kernel_symbol(name)
       IN CASE symbol.st_shndx = SHN_UNDEF ->
                 IF target = NULL THEN ELF_RELOC_ERR ELSE AsInt(target)
            [] symbol.st_shndx = SHN_ABS -> AsInt(symbol.st_value)
            [] OTHER -> AsInt(InFile(symbol))

-----------------------------------------------------------------------------
(* ET_REL                                                                  *)

\* A section that should appear in memory and is not in the file.
Empty(section) == section.type = "SHT_NOBITS" /\ section.alloc /\ section.size > 0

\* elf_load_stage1: memory, cleared, at the offset kmalloc's address has from
\* the file.
Address(address) == AsInt(address)
FileOffset(address) == AsInt(AsInt(address) - AsInt(Base))

AllocateSection ==
  /\ pc = "stage1" /\ i \in Sections /\ Empty(shdr[i])
  /\ LET new == heap .. heap + shdr[i].size - 1 IN
     mem' = [a \in DOMAIN mem \cup new |-> IF a \in new THEN 0 ELSE mem[a]]
  /\ shdr' = [shdr EXCEPT ![i].offset = FileOffset(heap)]
  /\ heap' = heap + shdr[i].size
  /\ i' = i + 1
  /\ UNCHANGED <<elf, user, pc, idx, result>>

PassSection ==
  /\ pc = "stage1" /\ i \in Sections /\ ~Empty(shdr[i])
  /\ i' = i + 1
  /\ UNCHANGED <<elf, shdr, mem, heap, user, pc, idx, result>>

Stage1Done ==
  /\ pc = "stage1" /\ i \notin Sections
  /\ pc' = "stage2" /\ i' = 0 /\ idx' = 0
  /\ UNCHANGED <<elf, shdr, mem, heap, user, result>>

Absolute == {"R_X86_64_32", "R_X86_64_32S", "R_X86_64_64"}
Relative == {"R_X86_64_PLT32", "R_X86_64_PC32"}
Relocating(section) == section.type \in {"SHT_REL", "SHT_RELA"}

\* elf_do_reloc and elf_do_reloca: the place, the symbol's value, the word.
Ref(section, rel) == AsInt(AsInt(Base) + shdr[section.info].offset + rel.r_offset)
SymVal(section, rel) ==
  IF rel.sym = SHN_UNDEF THEN 0 ELSE elf_get_symval(section.link, rel.sym)
Addend(section, rel) == IF section.type = "SHT_RELA" THEN rel.r_addend ELSE 0
NewWord(section, rel, old) ==
  LET ref == Ref(section, rel)
      moved == SymVal(section, rel) + old + Addend(section, rel)
  IN CASE rel.type = "R_X86_64_NONE" -> old
       [] rel.type \in Absolute -> AsInt(moved)
       [] rel.type \in Relative -> AsInt(moved - ref)

TypeFails(section, rel) ==
  rel.type \notin Absolute \cup Relative \cup {"R_X86_64_NONE"}
Fails(section, rel) ==
  \/ SymVal(section, rel) = ELF_RELOC_ERR
  \/ TypeFails(section, rel)

\* elf_load_stage2, one relocation; then the next section.
Relocate ==
  /\ pc = "stage2" /\ i \in Sections /\ Relocating(shdr[i])
  /\ idx < Len(shdr[i].items)
  /\ LET rel == shdr[i].items[idx + 1]
         ref == Ref(shdr[i], rel)
     IN \/ /\ ~Fails(shdr[i], rel)
           /\ mem' = [mem EXCEPT ![ref] = NewWord(shdr[i], rel, @)]
           /\ idx' = idx + 1
           /\ UNCHANGED <<pc, result>>
        \/ Fails(shdr[i], rel) /\ Return(1) /\ UNCHANGED <<mem, idx>>
  /\ UNCHANGED <<elf, shdr, heap, user, i>>

NextSection ==
  /\ pc = "stage2" /\ i \in Sections
  /\ ~Relocating(shdr[i]) \/ idx = Len(shdr[i].items)
  /\ i' = i + 1 /\ idx' = 0
  /\ UNCHANGED <<elf, shdr, mem, heap, user, pc, result>>

Stage2Done ==
  /\ pc = "stage2" /\ i \notin Sections
  /\ Return(0)
  /\ UNCHANGED <<elf, shdr, mem, heap, user, i, idx>>

-----------------------------------------------------------------------------
(* ET_EXEC                                                                 *)

Page(a) == a \div PageSize

\* kalloc_f(vaddr, memsz / 4096 + 1, ...): fresh frames, whatever was mapped.
PageCount(memsz) == memsz \div PageSize + 1
Mapped(vaddr, count) ==
  LET pages == {Page(vaddr + k * PageSize) : k \in 0 .. count - 1}
      new == {p * PageSize + o : p \in pages, o \in 0 .. PageSize - 1}
  IN [a \in DOMAIN user \cup new |-> IF a \in new THEN Junk ELSE user[a]]

\* A segment's addresses; and the pages mapped for it.
Addresses(phdr) == phdr.p_vaddr .. phdr.p_vaddr + phdr.p_memsz - 1
PagesFor(phdr) == {Page(phdr.p_vaddr + k * PageSize) : k \in 0 .. PageCount(phdr.p_memsz) - 1}

\* The linker's executables: a segment is in the file, and no later header is
\* of one that lies on it or has a page of it mapped again; the header that is
\* read behind the table is no exception.
ASSUME SegmentsAssumption ==
  /\ PageSize \in Nat \ {0} /\ Base \in Nat
  /\ \A image \in Images : image.magic /\ image.e_type = "ET_EXEC" =>
       LET headers == Append(image.phdrs, image.behind) IN
       \A n \in DOMAIN headers : headers[n].p_type = "PT_LOAD" =>
         /\ headers[n].p_filesz <= headers[n].p_memsz
         /\ headers[n].p_offset + headers[n].p_filesz <= Len(image.words)
         /\ \A l \in n + 1 .. Len(headers) : headers[l].p_type = "PT_LOAD" =>
              \A a \in Addresses(headers[n]) :
                a \notin Addresses(headers[l]) /\ Page(a) \notin PagesFor(headers[l])

\* memset, memcpy
CopiedFirst(phdr, pages) ==
  [a \in DOMAIN pages |->
     IF a - phdr.p_vaddr \in 0 .. phdr.p_memsz - 1 THEN 0 ELSE pages[a]]
Copied(phdr, pages) ==
  [a \in DOMAIN pages |->
     LET k == a - phdr.p_vaddr IN
     IF k \in 0 .. phdr.p_filesz - 1 THEN mem[Base + phdr.p_offset + k]
     ELSE IF k \in 0 .. phdr.p_memsz - 1 THEN 0 ELSE pages[a]]

\* One program header; the loop reads one more than the table has, here what
\* the file holds behind it.
Phdr(k) == IF k < Len(elf.phdrs) THEN elf.phdrs[k + 1] ELSE elf.behind

Loads == Phdr(i).p_type = "PT_LOAD"
Pages == Mapped(Phdr(i).p_vaddr, PageCount(Phdr(i).p_memsz))
Fits == Phdr(i).p_vaddr .. Phdr(i).p_vaddr + Phdr(i).p_memsz - 1 \subseteq DOMAIN Pages

SkipSegment ==
  /\ pc = "segments" /\ i < Len(elf.phdrs) + 1 /\ ~Loads
  /\ i' = i + 1
  /\ UNCHANGED <<elf, shdr, mem, heap, user, pc, idx, result>>

LoadSegment ==
  /\ pc = "segments" /\ i < Len(elf.phdrs) + 1 /\ Loads /\ Fits
  /\ user' = Copied(Phdr(i), Pages)
  /\ i' = i + 1
  /\ UNCHANGED <<elf, shdr, mem, heap, pc, idx, result>>

\* The segment does not start on a page and ends in one more than was mapped.
SegmentFault ==
  /\ pc = "segments" /\ i < Len(elf.phdrs) + 1 /\ Loads /\ ~Fits
  /\ user' = Pages /\ pc' = "panic"
  /\ UNCHANGED <<elf, shdr, mem, heap, i, idx, result>>

SegmentsDone ==
  /\ pc = "segments" /\ i = Len(elf.phdrs) + 1
  /\ Return(elf.e_entry)
  /\ UNCHANGED <<elf, shdr, mem, heap, user, i, idx>>

Next == \/ load_elf64
        \/ AllocateSection \/ PassSection \/ Stage1Done
        \/ Relocate \/ NextSection \/ Stage2Done
        \/ SkipSegment \/ LoadSegment \/ SegmentFault \/ SegmentsDone

Spec == Init /\ [][Next]_vars

-----------------------------------------------------------------------------
(* Properties                                                              *)

Linking == elf.magic /\ elf.e_type = "ET_REL"
Executable == elf.magic /\ elf.e_type = "ET_EXEC"

\* The relocations of a file, as pairs of a section and an entry; the entry;
\* and where in the file its place is.
RelocationsOf(image) ==
  UNION {{k} \X (1 .. Len(image.sections[k].items)) :
           k \in {j \in DOMAIN image.sections : Relocating(image.sections[j])}}
EntryOf(image, r) == image.sections[r[1]].items[r[2]]
PlaceOf(image, r) ==
  image.sections[image.sections[r[1]].info].offset + EntryOf(image, r).r_offset

Relocations == RelocationsOf(elf)
Entry(r) == EntryOf(elf, r)

\* A symbol is defined in a section of the file, or absolute, or it has a name.
Defined(symbol) == symbol.st_shndx \notin {SHN_UNDEF, SHN_ABS}
SymbolTable(image, k) ==
  LET table == image.sections[k]
      strings == image.sections[table.link]
  IN /\ table.items # <<>> /\ table.link \in DOMAIN image.sections
     /\ strings.type = "SHT_STRTAB"
     /\ \A s \in 2 .. Len(table.items) :
          LET symbol == table.items[s] IN
          /\ symbol.st_shndx = SHN_UNDEF \/ symbol.st_name # 0 => symbol.st_name \in DOMAIN strings.items
          /\ Defined(symbol) => symbol.st_shndx \in DOMAIN image.sections
          /\ symbol.st_shndx = SHN_ABS => symbol.st_value < Ints - 1

\* Sections that need memory, and values of symbols in any section, are too
\* small for an address to pass an int.
Small(image, most) ==
  LET sections == image.sections IN
  /\ \A k \in DOMAIN sections :
       /\ Empty(sections[k]) => sections[k].size <= most
       /\ sections[k].type = "SHT_SYMTAB" =>
            \A s \in 2 .. Len(sections[k].items) :
              Defined(sections[k].items[s]) => sections[k].items[s].st_value <= most
  /\ HeapBase + (Cardinality(DOMAIN sections) + 1) * most < Ints - 1

\* The linker's modules: one symbol table, with names in the string table
\* called .strtab; each relocation is of a word of a section that is in the
\* file, no two of the same, against that table.  The file lies before the
\* heap, as the 10 MB do that init_paging maps.
ASSUME ModulesAssumption ==
  /\ Base \in Nat /\ HeapBase \in Nat /\ Ints \in Nat
  /\ \A name \in DOMAIN Exports : Exports[name] \in 1 .. Ints - 2
  /\ \A image \in Images : image.magic /\ image.e_type = "ET_REL" =>
       LET sections == image.sections IN
       /\ Base + Len(image.words) <= HeapBase
       /\ \E most \in 0 .. Ints : Small(image, most)
       /\ SHN_ABS \notin DOMAIN sections /\ sections[0].type = "SHT_NULL"
       /\ \A k \in DOMAIN sections :
            /\ ~Empty(sections[k]) => sections[k].offset <= Len(image.words)
            /\ sections[k].type = "SHT_SYMTAB" => SymbolTable(image, k)
            /\ \A l \in DOMAIN sections :
                 /\ sections[k].type = "SHT_SYMTAB" /\ sections[l].type = "SHT_SYMTAB" => k = l
                 /\ sections[k].type = "SHT_SYMTAB" =>
                      (sections[l].type = "SHT_STRTAB" /\ sections[l].name = ".strtab"
                         <=> l = sections[k].link)
       /\ \A r \in RelocationsOf(image) :
            /\ sections[r[1]].link \in DOMAIN sections
            /\ sections[sections[r[1]].link].type = "SHT_SYMTAB"
            /\ sections[r[1]].info \in DOMAIN sections /\ ~Empty(sections[sections[r[1]].info])
            /\ PlaceOf(image, r) < Len(image.words)
            /\ \A q \in RelocationsOf(image) : PlaceOf(image, q) = PlaceOf(image, r) => q = r

\* Words are words, and a relocation never leaves the file's memory.
TypeOK ==
  /\ pc \in {"load", "stage1", "stage2", "segments", "done", "panic"}
  /\ \A a \in DOMAIN mem : mem[a] \in 0 .. Ints - 1
  /\ pc = "stage2" => \A r \in Relocations :
       Ref(shdr[r[1]], Entry(r)) \in DOMAIN mem
  /\ i \in Nat /\ idx \in Nat

\* Where a section is once it is in memory: in the file, or where stage 1 says.
Home(k) ==
  Base + IF Empty(elf.sections[k]) THEN shdr[k].offset ELSE elf.sections[k].offset
Room(k) == Home(k) .. Home(k) + elf.sections[k].size - 1

Symbol(r) == elf.sections[elf.sections[r[1]].link].items[Entry(r).sym + 1]
NameOf(r) == elf.sections[elf.sections[elf.sections[r[1]].link].link].items[Symbol(r).st_name]

\* Nothing the ABI says the loader could do with this relocation.
Unresolvable(r) ==
  \/ Entry(r).type \notin Absolute \cup Relative \cup {"R_X86_64_NONE"}
  \/ Entry(r).sym >= Len(elf.sections[elf.sections[r[1]].link].items)
  \/ /\ Entry(r).sym # SHN_UNDEF /\ Symbol(r).st_shndx = SHN_UNDEF
     /\ NameOf(r) \notin DOMAIN Exports

\* The comments of enum RelocTypes: symbol + offset, for PC-relative ones less
\* the place.
Wanted(r, old) ==
  LET S == IF Entry(r).sym = SHN_UNDEF THEN 0
           ELSE IF Symbol(r).st_shndx = SHN_UNDEF THEN Exports[NameOf(r)]
           ELSE IF Symbol(r).st_shndx = SHN_ABS THEN Symbol(r).st_value
           ELSE Home(Symbol(r).st_shndx) + Symbol(r).st_value
      A == old + IF elf.sections[r[1]].type = "SHT_RELA" THEN Entry(r).r_addend ELSE 0
      P == Home(elf.sections[r[1]].info) + Entry(r).r_offset
  IN IF Entry(r).type = "R_X86_64_NONE" THEN old
     ELSE IF Entry(r).type \in Relative THEN (S + A - P) % Ints
     ELSE (S + A) % Ints

At(a) == {r \in Relocations :
            a = Home(elf.sections[r[1]].info) + Entry(r).r_offset}

\* The empty sections have got memory of the heap, each its own.
Housed ==
  LET empty == {k \in DOMAIN elf.sections : Empty(elf.sections[k])} IN
  \A k \in empty :
    /\ Room(k) \subseteq {a \in DOMAIN mem : a >= HeapBase}
    /\ \A l \in empty \ {k} : Room(k) \cap Room(l) = {}

\* A module that load_elf64 accepts is linked: every place holds what its
\* relocation asks for, through kernel symbols, symbols of the file and of its
\* empty sections, and every other word is the file's, or 0.
WordsLinked ==
  \A a \in DOMAIN mem :
    LET old == IF a < Base + Len(elf.words) THEN elf.words[a - Base + 1] ELSE 0 IN
    mem[a] = IF At(a) = {} THEN old
             ELSE Wanted(CHOOSE r \in At(a) : TRUE, old)

\* load_module finds the module's header by name, through the string table it
\* looks for, the first symbol with that name, at the address relocations give
\* the symbol through the one the symbol table is linked to.
HeaderFound ==
  \A k \in DOMAIN elf.sections : elf.sections[k].type = "SHT_SYMTAB" =>
    LET table == elf.sections[k].items
        Name(s) == elf.sections[elf.sections[k].link].items[table[s + 1].st_name]
    IN \A s \in 1 .. Len(table) - 1 : table[s + 1].st_name # 0 =>
         LET found == elf_get_symbol(Name(s)) IN
         /\ found \in 1 .. s /\ table[found + 1].st_name # 0 /\ Name(found) = Name(s)
         /\ Defined(table[found + 1]) => elf_get_address(found) = elf_get_symval(k, found)

\* Typed; and load_elf64 refuses a module exactly when a relocation cannot be
\* resolved, in whatever section and behind whatever others it comes; one it
\* accepts is linked, and its header is found.
Linked ==
  /\ TypeOK
  /\ Linking /\ pc = "done" =>
       /\ result = 1 <=> \E r \in Relocations : Unresolvable(r)
       /\ result = 0 => Housed /\ WordsLinked
       /\ HeaderFound

\* An executable is in memory when load_elf64 returns its entry point: each
\* segment's words, then zeros.
SegmentsLoaded ==
  Executable /\ pc = "done" =>
    /\ result = elf.e_entry
    /\ \A n \in DOMAIN elf.phdrs :
         LET phdr == elf.phdrs[n] IN
         phdr.p_type = "PT_LOAD" =>
           \A k \in 0 .. phdr.p_memsz - 1 :
             /\ phdr.p_vaddr + k \in DOMAIN user
             /\ user[phdr.p_vaddr + k] =
                  IF k < phdr.p_filesz THEN elf.words[phdr.p_offset + k + 1] ELSE 0
=============================================================================
