------------------------------- MODULE MCElf -------------------------------
(* Modules with a text, a data and a bss section, up to two relocations of  *)
(* the text and one of the data, and executables of one or two segments.    *)
EXTENDS Elf

Section(type, name, alloc, size, offset, link, info, items) ==
  [type |-> type, name |-> name, alloc |-> alloc, size |-> size,
   offset |-> offset, link |-> link, info |-> info, items |-> items]
Sym(st_name, st_shndx, st_value) ==
  [st_name |-> st_name, st_shndx |-> st_shndx, st_value |-> st_value]
Rel(type, sym, r_offset, r_addend) ==
  [type |-> type, sym |-> sym, r_offset |-> r_offset, r_addend |-> r_addend]

Strings == <<"header", "buffer", "putchar", "missing", "absolute", "text">>
Symbols ==
  <<Sym(0, 0, 0), Sym(1, 2, 0), Sym(2, 3, 1), Sym(3, SHN_UNDEF, 0),
    Sym(4, SHN_UNDEF, 0), Sym(5, SHN_ABS, 7), Sym(6, 1, 1), Sym(0, 2, 0)>>

\* The sections, the tables between those with relocations.
File(bss, rela, rel) ==
  << Section("SHT_NULL", "", FALSE, 0, 0, 0, 0, <<>>),
     Section("SHT_PROGBITS", ".text", TRUE, 2, 0, 0, 0, <<>>),
     Section("SHT_PROGBITS", ".data", TRUE, 1, 2, 0, 0, <<>>),
     bss,
     Section("SHT_RELA", ".rela.text", FALSE, 0, 0, 6, 1, rela),
     Section("SHT_STRTAB", ".strtab", FALSE, 0, 0, 0, 0, Strings),
     Section("SHT_SYMTAB", ".symtab", FALSE, 0, 0, 5, 0, Symbols),
     Section("SHT_REL", ".rel.data", FALSE, 0, 0, 6, 2, rel),
     Section("SHT_STRTAB", ".shstrtab", FALSE, 0, 0, 0, 0,
             <<".text", ".data", ".bss", ".rela.text", ".strtab", ".symtab", ".rel.data">>),
     Section("SHT_NOBITS", ".lbss", TRUE, 1, 0, 0, 0, <<>>) >>

Bss == {Section("SHT_NOBITS", ".bss", TRUE, size, 3, 0, 0, <<>>) : size \in {0, 2}}
         \cup {Section("SHT_NOBITS", ".note", FALSE, 1, 3, 0, 0, <<>>)}

Types == {"R_X86_64_NONE", "R_X86_64_64", "R_X86_64_PC32", "R_X86_64_GOTPCREL"}
First == {Rel(t, s, 0, a) : t \in Types, s \in 0 .. 8, a \in {0, -4}}
Second == {<<>>} \cup {<<Rel(t, s, 1, 3)>> : t \in {"R_X86_64_64", "R_X86_64_PC32"},
                                             s \in {1, 2, 4}}
Data == {<<>>} \cup {<<Rel("R_X86_64_64", s, 0, 0)>> : s \in {2, 3}}

Ph(type, vaddr, offset, filesz, memsz) ==
  [p_type |-> type, p_vaddr |-> vaddr, p_offset |-> offset,
   p_filesz |-> filesz, p_memsz |-> memsz]
Behind == Ph("other", 0, 0, 0, 0)

Modules ==
  {[magic |-> TRUE, e_type |-> "ET_REL", words |-> <<0, 5, 9>>,
    sections |-> [k \in 0 .. 9 |-> File(bss, <<r1>> \o r2, r3)[k + 1]],
    phdrs |-> <<>>, behind |-> Behind, e_entry |-> 0] :
      bss \in Bss, r1 \in First, r2 \in Second, r3 \in Data}

Program(phdrs) ==
  [magic |-> TRUE, e_type |-> "ET_EXEC", words |-> <<0, 5, 9, 11, 13, 2>>,
   sections |-> [k \in {0} |-> Section("SHT_NULL", "", FALSE, 0, 0, 0, 0, <<>>)],
   phdrs |-> phdrs, behind |-> Behind, e_entry |-> 8]

\* Segments start on pages, and share none.
Programs ==
  {Program(<<Ph("PT_LOAD", 8, 1, f, m), Ph("PT_NOTE", 0, 0, 1, 1),
             Ph("PT_LOAD", 12, 3, g, n)>>) :
      <<f, m, g, n>> \in {q \in (0 .. 3) \X (1 .. 4) \X (0 .. 3) \X (1 .. 5) :
                            q[1] <= q[2] /\ q[3] <= q[4]}}

\* Two that do not, one of which ends in a page that is not mapped.
Unaligned == {Program(<<Ph("PT_LOAD", 10, 1, 2, m)>>) : m \in {2, 3}}

Others ==
  {[Program(<<>>) EXCEPT !.magic = FALSE], [Program(<<>>) EXCEPT !.e_type = "other"]}

MCImages == Modules \cup Programs \cup Unaligned \cup Others

MCExports == [s \in {"putchar"} |-> 90]
=============================================================================
