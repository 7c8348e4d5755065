------------------------------ MODULE ElfProofs ------------------------------
(***************************************************************************)
(* What Elf promises: the segments of every executable the linker has laid *)
(* apart are in place when its process is created, and a module's          *)
(* relocations are done when its entry point is called.                    *)
(***************************************************************************)
EXTENDS Elf, SequenceTheorems, WellFoundedInduction, TLAPS

-----------------------------------------------------------------------------
(* The kernel's loader: the inductive invariant                            *)

Headers == Append(elf.phdrs, elf.behind)

\* The file in memory, as it was.
FileWords == [a \in Base .. Base + Len(elf.words) - 1 |-> elf.words[a - Base + 1]]

\* What SegmentsLoaded says of one segment.
InPlace(n) ==
  elf.phdrs[n].p_type = "PT_LOAD" =>
    \A k \in 0 .. elf.phdrs[n].p_memsz - 1 :
      /\ elf.phdrs[n].p_vaddr + k \in DOMAIN user
      /\ user[elf.phdrs[n].p_vaddr + k] =
           IF k < elf.phdrs[n].p_filesz THEN elf.words[elf.phdrs[n].p_offset + k + 1] ELSE 0

\* The segments of the headers behind the loop are in place, and the file is
\* as it was.
BehindInPlace ==
  /\ mem = FileWords
  /\ i \in 0 .. Len(elf.phdrs) + 1
  /\ \A n \in DOMAIN elf.phdrs : n <= i => InPlace(n)

SegmentsInv ==
  /\ elf \in Images
  /\ pc = "load" => mem = FileWords /\ i = 0
  /\ pc \in {"stage1", "stage2"} => ~Executable
  /\ pc = "segments" => Executable /\ BehindInPlace
  /\ Executable /\ pc = "done" =>
       result = elf.e_entry /\ BehindInPlace /\ i = Len(elf.phdrs) + 1

\* The headers of an executable, as the loop reads them.
LEMMA HeaderTypes ==
  ASSUME elf \in Images
  PROVE  /\ elf.phdrs \in Seq(Elf64_Phdr) /\ Len(elf.phdrs) \in Nat
         /\ DOMAIN elf.phdrs = 1 .. Len(elf.phdrs)
         /\ Len(Headers) = Len(elf.phdrs) + 1
         /\ \A n \in DOMAIN Headers : Headers[n] \in Elf64_Phdr
         /\ DOMAIN Headers = 1 .. Len(elf.phdrs) + 1
         /\ \A n \in DOMAIN elf.phdrs : Headers[n] = elf.phdrs[n]
         /\ \A n \in 0 .. Len(elf.phdrs) : Phdr(n) = Headers[n + 1]
<1>1. elf.phdrs \in Seq(Elf64_Phdr) /\ elf.behind \in Elf64_Phdr
  <2>1. elf \in Elf64_Ehdr(elf.sections)
    BY ElfAssumption
  <2> QED
    BY <2>1 DEF Elf64_Ehdr
<1>2. Len(elf.phdrs) \in Nat /\ DOMAIN elf.phdrs = 1 .. Len(elf.phdrs)
  BY <1>1, LenProperties
<1>3. /\ Headers \in Seq(Elf64_Phdr) /\ Len(Headers) = Len(elf.phdrs) + 1
      /\ DOMAIN Headers = 1 .. Len(elf.phdrs) + 1
      /\ \A n \in 1 .. Len(elf.phdrs) : Headers[n] = elf.phdrs[n]
      /\ Headers[Len(elf.phdrs) + 1] = elf.behind
  BY <1>1, AppendProperties, LenProperties DEF Headers
<1>4. \A n \in DOMAIN Headers : Headers[n] \in Elf64_Phdr
  BY <1>3, ElementOfSeq
<1>5. \A n \in 0 .. Len(elf.phdrs) : Phdr(n) = Headers[n + 1]
  BY <1>2, <1>3 DEF Phdr
<1> QED
  BY <1>1, <1>2, <1>3, <1>4, <1>5

\* A word of a page is on that page.
LEMMA PageOf ==
  ASSUME NEW p \in Nat, NEW o \in 0 .. PageSize - 1
  PROVE  p * PageSize + o \in Nat /\ Page(p * PageSize + o) = p
<1>1. PageSize \in Nat /\ PageSize > 0
  BY SegmentsAssumption
<1> DEFINE a == p * PageSize + o
           d == a \div PageSize
<1>2. p * PageSize \in Nat /\ a \in Nat /\ o >= 0 /\ o < PageSize
  BY <1>1
<1>3. d \in Nat /\ a % PageSize \in 0 .. PageSize - 1 /\ a = d * PageSize + (a % PageSize)
  BY <1>1, <1>2
<1>4. \A x, y \in Nat : x < y => x * PageSize + PageSize <= y * PageSize
  <2> TAKE x, y \in Nat
  <2> HAVE x < y
  <2>1. PICK z \in Nat : y = x + 1 + z
    BY y - x - 1 \in Nat
  <2>2. y * PageSize = x * PageSize + PageSize + z * PageSize
    BY <1>1, <2>1
  <2>3. z * PageSize \in Nat
    BY <1>1
  <2> QED
    BY <1>1, <2>2, <2>3
<1> HIDE DEF d, a
<1>5. ~(d < p) /\ ~(p < d)
  BY <1>1, <1>2, <1>3, <1>4 DEF a
<1>6. d = p
  BY <1>3, <1>5
<1> QED
  BY <1>2, <1>6 DEF Page, a, d

\* What the assumption says of a header and of one behind it.
LEMMA HeaderFacts ==
  ASSUME elf \in Images, Executable,
         NEW n \in DOMAIN Headers, Headers[n].p_type = "PT_LOAD"
  PROVE  /\ Headers[n].p_filesz <= Headers[n].p_memsz
         /\ Headers[n].p_offset + Headers[n].p_filesz <= Len(elf.words)
         /\ \A l \in n + 1 .. Len(Headers) : Headers[l].p_type = "PT_LOAD" =>
              \A a \in Addresses(Headers[n]) :
                a \notin Addresses(Headers[l]) /\ Page(a) \notin PagesFor(Headers[l])
BY SegmentsAssumption DEF Headers, Executable

-----------------------------------------------------------------------------
(* One segment                                                             *)

LEMMA PageType == \A v \in Nat : Page(v) \in Nat
BY SegmentsAssumption DEF Page

LEMMA PagesType ==
  ASSUME NEW ph \in Elf64_Phdr
  PROVE  PagesFor(ph) \subseteq Nat
<1>1. ph.p_vaddr \in Nat /\ ph.p_memsz \in Nat
  BY DEF Elf64_Phdr
<1>2. PageSize \in Nat \ {0}
  BY SegmentsAssumption
<1>3. PageCount(ph.p_memsz) \in Nat
  BY <1>1, <1>2 DEF PageCount
<1>4. ASSUME NEW k \in 0 .. PageCount(ph.p_memsz) - 1
      PROVE  Page(ph.p_vaddr + k * PageSize) \in Nat
  <2>1. k \in Nat
    BY <1>3
  <2>2. k * PageSize \in Nat
    BY <2>1, <1>2
  <2> QED
    BY <2>2, <1>1, PageType
<1> QED
  BY <1>4 DEF PagesFor

\* Copying leaves every address that is there, and changes only the segment's
\* and those of the pages it is given.
LEMMA SegmentKeepsOthers ==
  ASSUME LoadSegment, NEW a \in DOMAIN user, NEW ph \in Elf64_Phdr, ph = Phdr(i),
         ph.p_filesz <= ph.p_memsz,
         a \in Nat, a \notin Addresses(ph), Page(a) \notin PagesFor(ph)
  PROVE  a \in DOMAIN user' /\ user'[a] = user[a]
<1> DEFINE count == PageCount(ph.p_memsz)
           new == {p * PageSize + o : p \in PagesFor(ph), o \in 0 .. PageSize - 1}
           pages == Pages
<1>1. ph.p_vaddr \in Nat /\ ph.p_memsz \in Nat /\ ph.p_filesz \in Nat
  BY DEF Elf64_Phdr
<1>2. a \notin new
  BY PagesType, PageOf
<1>3. pages = [b \in DOMAIN user \cup new |-> IF b \in new THEN Junk ELSE user[b]]
  BY DEF Pages, Mapped, PagesFor
<1>4. user' = Copied(ph, pages)
  BY DEF LoadSegment
<1> HIDE DEF new, pages
<1>5. a \in DOMAIN pages /\ pages[a] = user[a]
  BY <1>2, <1>3
<1>6. a - ph.p_vaddr \notin 0 .. ph.p_memsz - 1
  BY <1>1 DEF Addresses
<1>7. a - ph.p_vaddr \notin 0 .. ph.p_filesz - 1
  BY <1>1, <1>6
<1> QED
  BY <1>4, <1>5, <1>6, <1>7 DEF Copied

\* The segment itself is in place.
LEMMA SegmentCopied ==
  ASSUME LoadSegment, elf \in Images, mem = FileWords, Len(elf.words) \in Nat,
         NEW ph \in Elf64_Phdr, ph = Phdr(i), ph.p_filesz <= ph.p_memsz,
         ph.p_offset + ph.p_filesz <= Len(elf.words),
         NEW k \in 0 .. ph.p_memsz - 1
  PROVE  /\ ph.p_vaddr + k \in DOMAIN user'
         /\ user'[ph.p_vaddr + k] =
              IF k < ph.p_filesz THEN elf.words[ph.p_offset + k + 1] ELSE 0
<1> DEFINE pages == Pages
           a == ph.p_vaddr + k
           b == Base + ph.p_offset + k
<1>1. ph.p_vaddr \in Nat /\ ph.p_memsz \in Nat /\ ph.p_filesz \in Nat /\ ph.p_offset \in Nat
  BY DEF Elf64_Phdr
<1>2. user' = Copied(ph, pages) /\ Fits
  BY DEF LoadSegment
<1>3. a \in DOMAIN pages
  BY <1>1, <1>2 DEF Fits
<1>4. a - ph.p_vaddr = k /\ k \in Nat
  BY <1>1
<1>5. k < ph.p_filesz => mem[b] = elf.words[ph.p_offset + k + 1]
  <2> SUFFICES ASSUME k < ph.p_filesz PROVE mem[b] = elf.words[ph.p_offset + k + 1]
    OBVIOUS
  <2>1. Base \in Nat
    BY SegmentsAssumption
  <2> DEFINE len == Len(elf.words)
             offset == ph.p_offset
             filesz == ph.p_filesz
  <2>2. len \in Nat /\ offset \in Nat /\ filesz \in Nat /\ offset + filesz <= len /\ k < filesz
    BY <1>1
  <2> HIDE DEF len, offset, filesz
  <2>3. /\ Base + offset + k \in Base .. Base + len - 1
        /\ (Base + offset + k) - Base + 1 = offset + k + 1
    BY <2>1, <2>2, <1>4
  <2>4. mem[Base + offset + k] = elf.words[(Base + offset + k) - Base + 1]
    BY <2>3 DEF FileWords, len
  <2> QED
    BY <2>3, <2>4 DEF offset
<1> HIDE DEF pages, a, b
<1>6. /\ a \in DOMAIN user'
      /\ user'[a] = IF k \in 0 .. ph.p_filesz - 1 THEN mem[b] ELSE 0
  BY <1>2, <1>3, <1>4 DEF Copied, b
<1>7. k \in 0 .. ph.p_filesz - 1 <=> k < ph.p_filesz
  BY <1>1, <1>4
<1> QED
  BY <1>5, <1>6, <1>7 DEF a

\* LoadSegment keeps the segments that are there and adds its own.
LEMMA LoadSegmentStep ==
  ASSUME elf \in Images, Executable, BehindInPlace, LoadSegment
  PROVE  BehindInPlace'
<1>1. /\ elf' = elf /\ mem' = mem /\ i' = i + 1
      /\ i < Len(elf.phdrs) + 1 /\ Phdr(i).p_type = "PT_LOAD"
  BY DEF LoadSegment, Loads
<1>2. /\ Len(elf.phdrs) \in Nat /\ i \in 0 .. Len(elf.phdrs)
      /\ Len(Headers) = Len(elf.phdrs) + 1 /\ DOMAIN Headers = 1 .. Len(elf.phdrs) + 1
      /\ DOMAIN elf.phdrs = 1 .. Len(elf.phdrs)
  BY <1>1, HeaderTypes DEF BehindInPlace
<1> DEFINE ph == Headers[i + 1]
<1>3. i + 1 \in DOMAIN Headers /\ ph = Phdr(i) /\ ph \in Elf64_Phdr /\ ph.p_type = "PT_LOAD"
  <2>1. i + 1 \in 1 .. Len(elf.phdrs) + 1
    BY <1>2
  <2>2. Phdr(i) = Headers[i + 1]
    BY <1>2, HeaderTypes
  <2>3. Headers[i + 1] \in Elf64_Phdr
    BY <1>2, <2>1, HeaderTypes
  <2> QED
    BY <1>1, <1>2, <2>1, <2>2, <2>3
<1>4. ph.p_filesz <= ph.p_memsz /\ ph.p_offset + ph.p_filesz <= Len(elf.words)
  BY <1>3, HeaderFacts
<1>5. Len(elf.words) \in Nat
  <2>1. elf \in Elf64_Ehdr(elf.sections)
    BY ElfAssumption
  <2>2. elf.words \in Seq(0 .. Ints - 1)
    BY <2>1 DEF Elf64_Ehdr
  <2> QED
    BY <2>2
<1>6. ASSUME NEW n \in DOMAIN elf.phdrs, n <= i + 1, elf.phdrs[n].p_type = "PT_LOAD",
             NEW k \in 0 .. elf.phdrs[n].p_memsz - 1
      PROVE  LET own == elf.phdrs[n] IN
             /\ own.p_vaddr + k \in DOMAIN user'
             /\ user'[own.p_vaddr + k] =
                  IF k < own.p_filesz THEN elf.words[own.p_offset + k + 1] ELSE 0
  <2> DEFINE own == elf.phdrs[n]
  <2>1. n \in DOMAIN Headers /\ own = Headers[n] /\ own \in Elf64_Phdr /\ own.p_type = "PT_LOAD"
    BY <1>2, <1>6, HeaderTypes
  <2>2. CASE n = i + 1
    <3>1. own = ph
      BY <2>1, <2>2
    <3> HIDE DEF ph, own
    <3>2. k \in 0 .. ph.p_memsz - 1
      BY <1>6, <3>1 DEF own
    <3>3. mem = FileWords
      BY DEF BehindInPlace
    <3> QED
      BY <1>3, <1>4, <1>5, <3>1, <3>2, <3>3, SegmentCopied DEF own
  <2>3. CASE n <= i
    <3> DEFINE a == own.p_vaddr + k
    <3>1. a \in Addresses(own) /\ a \in Nat
      BY <1>6, <2>1 DEF Addresses, Elf64_Phdr
    <3>2. /\ a \in DOMAIN user
          /\ user[a] = IF k < own.p_filesz THEN elf.words[own.p_offset + k + 1] ELSE 0
      BY <1>6, <2>3 DEF BehindInPlace, InPlace
    <3>3. i + 1 \in n + 1 .. Len(Headers)
      BY <1>2, <2>3
    <3>4. a \notin Addresses(ph) /\ Page(a) \notin PagesFor(ph)
      BY <1>3, <2>1, <3>1, <3>3, HeaderFacts
    <3> HIDE DEF ph, own, a
    <3>5. a \in DOMAIN user' /\ user'[a] = user[a]
      BY <1>3, <1>4, <3>1, <3>2, <3>4, SegmentKeepsOthers
    <3> QED
      BY <3>2, <3>5 DEF a, own
  <2> QED
    BY <1>2, <1>6, <2>2, <2>3
<1>7. \A n \in DOMAIN elf'.phdrs : n <= i' => InPlace(n)'
  BY <1>1, <1>6 DEF InPlace
<1> QED
  BY <1>1, <1>2, <1>7 DEF BehindInPlace, FileWords

\* A header of another kind is passed: what it says of memory it says of none.
LEMMA SkipSegmentStep ==
  ASSUME elf \in Images, BehindInPlace, SkipSegment
  PROVE  BehindInPlace'
<1>1. /\ elf' = elf /\ mem' = mem /\ user' = user /\ i' = i + 1
      /\ i < Len(elf.phdrs) + 1 /\ Phdr(i).p_type # "PT_LOAD"
  BY DEF SkipSegment, Loads
<1>2. Len(elf.phdrs) \in Nat /\ i \in 0 .. Len(elf.phdrs) /\ DOMAIN elf.phdrs = 1 .. Len(elf.phdrs)
  BY <1>1, HeaderTypes DEF BehindInPlace
<1>3. ASSUME NEW n \in DOMAIN elf.phdrs, n <= i + 1 PROVE InPlace(n)
  <2>1. CASE n = i + 1
    BY <1>1, <1>2, <2>1, HeaderTypes DEF InPlace
  <2>2. CASE n <= i
    BY <2>2 DEF BehindInPlace
  <2> QED
    BY <1>2, <1>3, <2>1, <2>2
<1>4. \A n \in DOMAIN elf'.phdrs : n <= i' => InPlace(n)'
  BY <1>1, <1>3 DEF InPlace
<1> QED
  BY <1>1, <1>2, <1>4 DEF BehindInPlace, FileWords

-----------------------------------------------------------------------------
(* The theorem                                                             *)

LEMMA SegmentsInitInv == Init => SegmentsInv
<1> SUFFICES ASSUME Init PROVE SegmentsInv
  OBVIOUS
<1> QED
  BY DEF Init, SegmentsInv, FileWords

LEMMA SegmentsStep == SegmentsInv /\ [Next]_vars => SegmentsInv'
<1> SUFFICES ASSUME SegmentsInv, [Next]_vars PROVE SegmentsInv'
  OBVIOUS
<1>0. elf \in Images /\ elf' = elf
  BY DEF SegmentsInv, Next, vars, load_elf64, AllocateSection, PassSection, Stage1Done,
         Relocate, NextSection, Stage2Done, SkipSegment, LoadSegment, SegmentFault, SegmentsDone
<1>1. CASE load_elf64
  <2>1. mem' = mem /\ i' = i /\ mem = FileWords /\ i = 0 /\ pc = "load"
    BY <1>1 DEF load_elf64, SegmentsInv
  <2>2. Len(elf.phdrs) \in Nat /\ DOMAIN elf.phdrs = 1 .. Len(elf.phdrs)
    BY <1>0, HeaderTypes
  <2>3. BehindInPlace'
    BY <1>0, <2>1, <2>2 DEF BehindInPlace, FileWords
  <2>4. \/ pc' = "done" /\ ~Executable
        \/ pc' = "segments" /\ Executable
        \/ pc' = "stage1" /\ ~Executable
    BY <1>1 DEF load_elf64, Return, Executable
  <2> QED
    BY <1>0, <2>3, <2>4 DEF SegmentsInv, Executable
<1>2. CASE AllocateSection \/ PassSection \/ Stage1Done \/ Relocate \/ NextSection \/ Stage2Done
  <2>1. pc \in {"stage1", "stage2"} /\ pc' \in {"stage1", "stage2", "done"}
    BY <1>2 DEF AllocateSection, PassSection, Stage1Done, Relocate, NextSection, Stage2Done, Return
  <2>2. ~Executable /\ ~Executable'
    BY <1>0, <2>1 DEF SegmentsInv, Executable
  <2> QED
    BY <1>0, <2>1, <2>2 DEF SegmentsInv
<1>3. CASE SkipSegment
  <2>1. pc = "segments" /\ pc' = pc
    BY <1>3 DEF SkipSegment
  <2>2. Executable /\ Executable' /\ BehindInPlace
    BY <1>0, <2>1 DEF SegmentsInv, Executable
  <2>3. BehindInPlace'
    BY <1>0, <1>3, <2>2, SkipSegmentStep
  <2> QED
    BY <1>0, <2>1, <2>2, <2>3 DEF SegmentsInv
<1>4. CASE LoadSegment
  <2>1. pc = "segments" /\ pc' = pc
    BY <1>4 DEF LoadSegment
  <2>2. Executable /\ Executable' /\ BehindInPlace
    BY <1>0, <2>1 DEF SegmentsInv, Executable
  <2>3. BehindInPlace'
    BY <1>0, <1>4, <2>2, LoadSegmentStep
  <2> QED
    BY <1>0, <2>1, <2>2, <2>3 DEF SegmentsInv
<1>5. CASE SegmentFault
  BY <1>0, <1>5 DEF SegmentFault, SegmentsInv
<1>6. CASE SegmentsDone
  <2>1. pc = "segments" /\ pc' = "done" /\ result' = elf.e_entry /\ i = Len(elf.phdrs) + 1
        /\ mem' = mem /\ user' = user /\ i' = i
    BY <1>6 DEF SegmentsDone, Return
  <2>2. BehindInPlace
    BY <2>1 DEF SegmentsInv
  <2>3. BehindInPlace'
    BY <1>0, <2>1, <2>2 DEF BehindInPlace, FileWords, InPlace
  <2> QED
    BY <1>0, <2>1, <2>3 DEF SegmentsInv
<1>7. CASE UNCHANGED vars
  BY <1>7 DEF vars, SegmentsInv, BehindInPlace, FileWords, InPlace, Executable
<1> QED
  BY <1>1, <1>2, <1>3, <1>4, <1>5, <1>6, <1>7 DEF Next

\* For every file whose segments are laid apart, however many, in whatever
\* order, with whatever other headers between them: when load_elf64 returns
\* the entry point each segment is in memory, zeros behind its words.
THEOREM Elf_SegmentsLoaded == Spec => []SegmentsLoaded
<1>1. SegmentsInv => SegmentsLoaded
  <2> SUFFICES ASSUME SegmentsInv, Executable, pc = "done" PROVE SegmentsLoaded
    BY DEF SegmentsLoaded
  <2>1. result = elf.e_entry /\ BehindInPlace /\ i = Len(elf.phdrs) + 1 /\ elf \in Images
    BY DEF SegmentsInv
  <2>2. \A n \in DOMAIN elf.phdrs : n <= i
    BY <2>1, HeaderTypes
  <2> QED
    BY <2>1, <2>2 DEF SegmentsLoaded, BehindInPlace, InPlace
<1> QED
  BY <1>1, SegmentsInitInv, SegmentsStep, PTL DEF Spec

-----------------------------------------------------------------------------
(* Every set of numbers has a least one                                    *)

LEMMA LeastOf ==
  ASSUME NEW S \in SUBSET Nat, S # {}
  PROVE  \E x \in S : \A y \in S : x <= y
<1> DEFINE R == OpToRel(<, Nat)
<1>1. IsWellFoundedOn(R, Nat)
  BY NatLessThanWellFounded, Zenon
<1>2. \A x, y \in Nat : x < y => <<x, y>> \in R
  BY DEF OpToRel
<1> HIDE DEF R
<1>3. PICK x \in S : \A y \in S : ~(<<y, x>> \in R)
  BY <1>1, WFMin
<1>4. ASSUME NEW y \in S PROVE x <= y
  <2>1. x \in Nat /\ y \in Nat /\ ~(y < x)
    BY <1>2, <1>3
  <2> QED
    BY <2>1
<1> QED
  BY <1>4

-----------------------------------------------------------------------------
(* Linking: what the assumptions say of a module                           *)

Count == Cardinality(DOMAIN elf.sections)
Most == CHOOSE most \in 0 .. Ints : Small(elf, most)
Module == elf \in Images /\ Linking

Section(k) == elf.sections[k]

LEMMA SectionFacts ==
  ASSUME elf \in Images
  PROVE  /\ Count \in Nat /\ DOMAIN elf.sections = 0 .. Count - 1
         /\ \A k \in DOMAIN elf.sections :
              /\ Section(k) \in Elf64_Shdr(Section(k).type)
              /\ Section(k).size \in Nat /\ Section(k).offset \in Nat
              /\ Section(k).link \in Nat /\ Section(k).info \in Nat
              /\ Section(k).alloc \in BOOLEAN
              /\ Section(k).items \in Items(Section(k).type)
         /\ elf.words \in Seq(0 .. Ints - 1) /\ Len(elf.words) \in Nat
         /\ \A n \in 1 .. Len(elf.words) : elf.words[n] \in 0 .. Ints - 1
<1>1. Count \in Nat /\ DOMAIN elf.sections = 0 .. Count - 1
  BY ElfAssumption DEF Count
<1>2. ASSUME NEW k \in DOMAIN elf.sections
      PROVE  /\ Section(k) \in Elf64_Shdr(Section(k).type)
             /\ Section(k).size \in Nat /\ Section(k).offset \in Nat
             /\ Section(k).link \in Nat /\ Section(k).info \in Nat
             /\ Section(k).alloc \in BOOLEAN
             /\ Section(k).items \in Items(Section(k).type)
  <2>1. Section(k) \in Elf64_Shdr(Section(k).type)
    BY ElfAssumption DEF Section
  <2> QED
    BY <2>1 DEF Elf64_Shdr
<1>3. elf.words \in Seq(0 .. Ints - 1)
  <2>1. elf \in Elf64_Ehdr(elf.sections)
    BY ElfAssumption
  <2> QED
    BY <2>1 DEF Elf64_Ehdr
<1>4. Len(elf.words) \in Nat /\ \A n \in 1 .. Len(elf.words) : elf.words[n] \in 0 .. Ints - 1
  BY <1>3, LenProperties, ElementOfSeq
<1> QED
  BY <1>1, <1>2, <1>3, <1>4

LEMMA ModuleFacts ==
  ASSUME Module
  PROVE  /\ Base \in Nat /\ HeapBase \in Nat /\ Ints \in Nat
         /\ Base + Len(elf.words) <= HeapBase
         /\ Most \in Nat /\ HeapBase + (Count + 1) * Most < Ints - 1
         /\ SHN_ABS \notin DOMAIN elf.sections
         /\ 0 \in DOMAIN elf.sections => Section(0).type = "SHT_NULL"
         /\ \A k \in DOMAIN elf.sections :
              /\ Empty(Section(k)) => Section(k).size <= Most
              /\ ~Empty(Section(k)) => Section(k).offset <= Len(elf.words)
              /\ Section(k).type = "SHT_SYMTAB" =>
                   /\ SymbolTable(elf, k)
                   /\ \A s \in 2 .. Len(Section(k).items) :
                        Defined(Section(k).items[s]) => Section(k).items[s].st_value <= Most
<1>1. elf \in Images /\ elf.magic /\ elf.e_type = "ET_REL"
  BY DEF Module, Linking
<1>2. \E most \in 0 .. Ints : Small(elf, most)
  BY <1>1, ModulesAssumption
<1>3. Most \in 0 .. Ints /\ Small(elf, Most)
  BY <1>2 DEF Most
<1>4. Most \in Nat /\ Ints \in Nat
  BY <1>3, ModulesAssumption
<1>5. /\ HeapBase + (Count + 1) * Most < Ints - 1
      /\ \A k \in DOMAIN elf.sections :
           /\ Empty(Section(k)) => Section(k).size <= Most
           /\ Section(k).type = "SHT_SYMTAB" =>
                \A s \in 2 .. Len(Section(k).items) :
                  Defined(Section(k).items[s]) => Section(k).items[s].st_value <= Most
  BY <1>3 DEF Small, Section, Count
<1>6. /\ Base \in Nat /\ HeapBase \in Nat
      /\ Base + Len(elf.words) <= HeapBase
      /\ SHN_ABS \notin DOMAIN elf.sections
      /\ Section(0).type = "SHT_NULL"
      /\ \A k \in DOMAIN elf.sections :
           /\ ~Empty(Section(k)) => Section(k).offset <= Len(elf.words)
           /\ Section(k).type = "SHT_SYMTAB" => SymbolTable(elf, k)
  BY <1>1, ModulesAssumption DEF Section
<1> QED
  BY <1>4, <1>5, <1>6

\* A relocation, its symbol table and its place.
LEMMA RelocationFacts ==
  ASSUME Module, NEW r \in Relocations
  PROVE  /\ r[1] \in DOMAIN elf.sections /\ r[2] \in 1 .. Len(Section(r[1]).items)
         /\ r = <<r[1], r[2]>> /\ Relocating(Section(r[1]))
         /\ Entry(r) = Section(r[1]).items[r[2]] /\ Entry(r) \in Elf64_Rela
         /\ Section(r[1]).link \in DOMAIN elf.sections
         /\ Section(Section(r[1]).link).type = "SHT_SYMTAB"
         /\ Section(r[1]).info \in DOMAIN elf.sections
         /\ ~Empty(Section(Section(r[1]).info))
         /\ PlaceOf(elf, r) = Section(Section(r[1]).info).offset + Entry(r).r_offset
         /\ PlaceOf(elf, r) \in 0 .. Len(elf.words) - 1
         /\ \A q \in Relocations : PlaceOf(elf, q) = PlaceOf(elf, r) => q = r
<1>1. PICK k \in DOMAIN elf.sections :
        Relocating(Section(k)) /\ r \in {k} \X (1 .. Len(Section(k).items))
  BY DEF Relocations, RelocationsOf, Section
<1>2. r[1] = k /\ r[2] \in 1 .. Len(Section(k).items) /\ r = <<r[1], r[2]>>
  BY <1>1
<1>3. Entry(r) = Section(k).items[r[2]]
  BY <1>2 DEF Entry, EntryOf, Section
<1>4. Section(k).items \in Seq(Elf64_Rela)
  <2>1. Section(k).items \in Items(Section(k).type)
    BY SectionFacts DEF Module
  <2>2. Section(k).type \in {"SHT_REL", "SHT_RELA"}
    BY <1>1 DEF Relocating
  <2> QED
    BY <2>1, <2>2 DEF Items
<1>5. Entry(r) \in Elf64_Rela
  BY <1>2, <1>3, <1>4, ElementOfSeq
<1>6. /\ Section(k).link \in DOMAIN elf.sections
      /\ Section(Section(k).link).type = "SHT_SYMTAB"
      /\ Section(k).info \in DOMAIN elf.sections
      /\ ~Empty(Section(Section(k).info))
      /\ PlaceOf(elf, r) < Len(elf.words)
      /\ \A q \in Relocations : PlaceOf(elf, q) = PlaceOf(elf, r) => q = r
  BY <1>2, ModulesAssumption DEF Module, Linking, Relocations, Section
<1>7. PlaceOf(elf, r) = Section(Section(k).info).offset + Entry(r).r_offset
  BY <1>2 DEF PlaceOf, Section, Entry
<1>8. PlaceOf(elf, r) \in 0 .. Len(elf.words) - 1
  <2>1. Section(Section(k).info).offset \in Nat /\ Len(elf.words) \in Nat
    BY <1>6, SectionFacts DEF Module
  <2>2. Entry(r).r_offset \in Nat
    BY <1>5 DEF Elf64_Rela
  <2> QED
    BY <1>6, <1>7, <2>1, <2>2
<1> QED
  BY <1>1, <1>2, <1>3, <1>5, <1>6, <1>7, <1>8

\* The symbols of a symbol table, but for the first.
LEMMA SymbolFacts ==
  ASSUME Module, NEW k \in DOMAIN elf.sections, Section(k).type = "SHT_SYMTAB"
  PROVE  /\ Section(k).items \in Seq(Elf64_Sym) /\ Len(Section(k).items) \in Nat \ {0}
         /\ DOMAIN Section(k).items = 1 .. Len(Section(k).items)
         /\ Section(k).link \in DOMAIN elf.sections
         /\ \A s \in 2 .. Len(Section(k).items) :
              LET symbol == Section(k).items[s] IN
              /\ symbol \in Elf64_Sym
              /\ symbol.st_shndx = SHN_UNDEF \/ symbol.st_name # 0 =>
                   symbol.st_name \in DOMAIN Section(Section(k).link).items
              /\ Defined(symbol) =>
                   symbol.st_shndx \in DOMAIN elf.sections /\ symbol.st_value <= Most
              /\ symbol.st_shndx = SHN_ABS => symbol.st_value < Ints - 1
<1>1. SymbolTable(elf, k)
  BY ModuleFacts
<1>2. Section(k).items \in Seq(Elf64_Sym)
  <2>1. Section(k).items \in Items(Section(k).type)
    BY SectionFacts DEF Module
  <2> QED
    BY <2>1 DEF Items
<1>3. Len(Section(k).items) \in Nat \ {0} /\ DOMAIN Section(k).items = 1 .. Len(Section(k).items)
  <2>1. Section(k).items # <<>>
    BY <1>1 DEF SymbolTable, Section
  <2> QED
    BY <1>2, <2>1, EmptySeq, LenProperties
<1>4. \A s \in 2 .. Len(Section(k).items) : Section(k).items[s] \in Elf64_Sym
  BY <1>2, <1>3, ElementOfSeq
<1> QED
  BY <1>1, <1>2, <1>3, <1>4, ModuleFacts DEF SymbolTable, Section

-----------------------------------------------------------------------------
(* Linking: the headers in memory, and the values of symbols               *)

\* Stage 1 changes nothing in a header but the offset of an empty section.
Same ==
  /\ DOMAIN shdr = DOMAIN elf.sections
  /\ \A k \in DOMAIN elf.sections :
       /\ shdr[k] \in Elf64_Shdr(Section(k).type)
       /\ shdr[k].type = Section(k).type /\ shdr[k].name = Section(k).name
       /\ shdr[k].alloc = Section(k).alloc /\ shdr[k].size = Section(k).size
       /\ shdr[k].link = Section(k).link /\ shdr[k].info = Section(k).info
       /\ shdr[k].items = Section(k).items
       /\ ~Empty(Section(k)) => shdr[k].offset = Section(k).offset

EmptyBefore(n) == {k \in DOMAIN elf.sections : k < n /\ Empty(Section(k))}

\* The first n sections have their memory, one behind the other.
Housing(n) ==
  /\ heap \in Nat /\ HeapBase <= heap /\ heap <= HeapBase + n * Most
  /\ \A k \in EmptyBefore(n) :
       /\ shdr[k].offset \in Nat
       /\ HeapBase <= Home(k) /\ Home(k) + Section(k).size <= heap
       /\ \A l \in EmptyBefore(n) : l < k => Home(l) + Section(l).size <= Home(k)

LEMMA AsIntIs ==
  ASSUME Module, NEW x \in Nat, x < Ints
  PROVE  AsInt(x) = x
BY ModuleFacts DEF AsInt

\* Where sections are; no address passes an int, nor does the value of a symbol.
LEMMA HomeFacts ==
  ASSUME Module, Same, Housing(Count), NEW k \in DOMAIN elf.sections
  PROVE  /\ Home(k) = Base + shdr[k].offset /\ shdr[k].offset \in Nat
         /\ Home(k) \in Nat /\ Home(k) + Most < Ints - 1
<1>1. /\ Count \in Nat /\ Most \in Nat /\ Base \in Nat /\ HeapBase \in Nat /\ Ints \in Nat
      /\ HeapBase + (Count + 1) * Most < Ints - 1
  BY ModuleFacts, SectionFacts DEF Module
<1>2. (Count + 1) * Most = Count * Most + Most /\ Count * Most \in Nat
  BY <1>1
<1>3. CASE Empty(Section(k))
  <2>1. k \in EmptyBefore(Count) /\ Section(k).size \in Nat
    BY <1>3, SectionFacts DEF EmptyBefore, Module
  <2>2. /\ shdr[k].offset \in Nat /\ Home(k) + Section(k).size <= heap
        /\ heap \in Nat /\ heap <= HeapBase + Count * Most
    BY <2>1 DEF Housing
  <2>3. Home(k) = Base + shdr[k].offset
    BY <1>3 DEF Home, Section
  <2> QED
    BY <1>1, <1>2, <2>1, <2>2, <2>3
<1>4. CASE ~Empty(Section(k))
  <2>1. /\ shdr[k].offset = Section(k).offset /\ Section(k).offset \in Nat
        /\ Section(k).offset <= Len(elf.words) /\ Base + Len(elf.words) <= HeapBase
        /\ Len(elf.words) \in Nat
    BY <1>4, ModuleFacts, SectionFacts DEF Same, Module
  <2>2. Home(k) = Base + shdr[k].offset
    BY <1>4, <2>1 DEF Home, Section
  <2> QED
    BY <1>1, <1>2, <2>1, <2>2
<1> QED
  BY <1>3, <1>4

\* The symbol's value, as Wanted has it; and what is wrong with a symbol.
Value(r) ==
  IF Entry(r).sym = SHN_UNDEF THEN 0
  ELSE IF Symbol(r).st_shndx = SHN_UNDEF THEN Exports[NameOf(r)]
  ELSE IF Symbol(r).st_shndx = SHN_ABS THEN Symbol(r).st_value
  ELSE Home(Symbol(r).st_shndx) + Symbol(r).st_value

NoSymbol(r) ==
  \/ Entry(r).sym >= Len(Section(Section(r[1]).link).items)
  \/ /\ Entry(r).sym # SHN_UNDEF /\ Symbol(r).st_shndx = SHN_UNDEF
     /\ NameOf(r) \notin DOMAIN Exports

\* The loader computes a symbol's value, or its error, which is no value.
LEMMA SymbolValue ==
  ASSUME Module, Same, Housing(Count), NEW r \in Relocations
  PROVE  /\ NoSymbol(r) => SymVal(shdr[r[1]], Entry(r)) = ELF_RELOC_ERR
         /\ ~NoSymbol(r) => /\ SymVal(shdr[r[1]], Entry(r)) = Value(r)
                            /\ Value(r) \in 0 .. Ints - 2
<1> DEFINE k == Section(r[1]).link
           s == Entry(r).sym
           len == Len(Section(k).items)
           symbol == Section(k).items[s + 1]
           name == Section(Section(k).link).items[symbol.st_name]
<1>1. /\ r[1] \in DOMAIN elf.sections /\ k \in DOMAIN elf.sections
      /\ Section(k).type = "SHT_SYMTAB" /\ s \in Nat
  BY RelocationFacts DEF Elf64_Rela
<1>2. /\ len \in Nat \ {0} /\ Section(k).link \in DOMAIN elf.sections
      /\ s # 0 /\ s < len =>
           /\ symbol \in Elf64_Sym
           /\ Defined(symbol) => symbol.st_shndx \in DOMAIN elf.sections /\ symbol.st_value <= Most
           /\ symbol.st_shndx = SHN_ABS => symbol.st_value < Ints - 1
  <2>1. s # 0 /\ s < len => s + 1 \in 2 .. len
    BY <1>1, SymbolFacts
  <2> QED
    BY <1>1, <2>1, SymbolFacts
<1>3. /\ shdr[r[1]].link = k /\ shdr[k].items = Section(k).items
      /\ shdr[k].link = Section(k).link
      /\ shdr[Section(k).link].items = Section(Section(k).link).items
  BY <1>1, <1>2 DEF Same
<1>4. k # 0
  BY <1>1, ModuleFacts
<1>5. Symbol(r) = symbol /\ NameOf(r) = name
  BY DEF Symbol, NameOf, Section
<1>6. Ints \in Nat /\ Ints > 1 /\ ELF_RELOC_ERR = Ints - 1
  <2>1. /\ Ints \in Nat /\ HeapBase \in Nat /\ Count \in Nat /\ Most \in Nat
        /\ HeapBase + (Count + 1) * Most < Ints - 1
    BY ModuleFacts, SectionFacts DEF Module
  <2>2. (Count + 1) * Most \in Nat
    BY <2>1
  <2> QED
    BY <2>1, <2>2 DEF ELF_RELOC_ERR
<1>7. SymVal(shdr[r[1]], Entry(r)) =
        IF s = SHN_UNDEF THEN 0
        ELSE IF s >= len THEN ELF_RELOC_ERR
        ELSE CASE symbol.st_shndx = SHN_UNDEF ->
                    IF get_kernel_symbol(name) = NULL THEN ELF_RELOC_ERR
                    ELSE AsInt(get_kernel_symbol(name))
               [] symbol.st_shndx = SHN_ABS -> AsInt(symbol.st_value)
               [] OTHER -> AsInt(InFile(symbol))
  <2>1. SymVal(shdr[r[1]], Entry(r)) = IF s = SHN_UNDEF THEN 0 ELSE elf_get_symval(k, s)
    BY <1>3 DEF SymVal
  <2>2. k # SHN_UNDEF
    BY <1>4 DEF SHN_UNDEF
  <2>3. s # SHN_UNDEF => elf_get_symval(k, s) =
          IF s >= len THEN ELF_RELOC_ERR
          ELSE CASE symbol.st_shndx = SHN_UNDEF ->
                      IF get_kernel_symbol(name) = NULL THEN ELF_RELOC_ERR
                      ELSE AsInt(get_kernel_symbol(name))
                 [] symbol.st_shndx = SHN_ABS -> AsInt(symbol.st_value)
                 [] OTHER -> AsInt(InFile(symbol))
    <3> HIDE DEF k, s
    <3> QED
      BY <1>3, <2>2 DEF elf_get_symval
  <2> HIDE DEF k, s, len, symbol, name
  <2> QED
    BY <2>1, <2>3
<1> HIDE DEF k, s, len, symbol, name
<1>8. CASE s = 0
  <2>1. ~NoSymbol(r) /\ Value(r) = 0
    BY <1>2, <1>8 DEF NoSymbol, Value, SHN_UNDEF, s, len, k
  <2> QED
    BY <1>6, <1>7, <1>8, <2>1 DEF SHN_UNDEF
<1>9. CASE s >= len
  <2>1. NoSymbol(r) /\ s # 0
    BY <1>1, <1>2, <1>9 DEF NoSymbol, s, len, k
  <2> QED
    BY <1>7, <1>9, <2>1 DEF SHN_UNDEF
<1>10. CASE s # 0 /\ ~(s >= len)
  <2>0. s < len
    BY <1>1, <1>2, <1>10
  <2>1. NoSymbol(r) <=> symbol.st_shndx = SHN_UNDEF /\ name \notin DOMAIN Exports
    BY <1>5, <1>10 DEF NoSymbol, s, len, k, SHN_UNDEF
  <2>2. Value(r) = IF symbol.st_shndx = SHN_UNDEF THEN Exports[name]
                   ELSE IF symbol.st_shndx = SHN_ABS THEN symbol.st_value
                   ELSE Home(symbol.st_shndx) + symbol.st_value
    BY <1>5, <1>10 DEF Value, s, SHN_UNDEF
  <2>3. CASE symbol.st_shndx = SHN_UNDEF
    <3>1. name \in DOMAIN Exports => Exports[name] \in 1 .. Ints - 2
      BY ModulesAssumption
    <3>2. name \in DOMAIN Exports => AsInt(Exports[name]) = Exports[name]
      BY <3>1, <1>6, AsIntIs
    <3>3. SymVal(shdr[r[1]], Entry(r)) =
            IF get_kernel_symbol(name) = NULL THEN ELF_RELOC_ERR ELSE AsInt(get_kernel_symbol(name))
      BY <1>7, <1>10, <2>3 DEF SHN_UNDEF, SHN_ABS
    <3>4. CASE name \in DOMAIN Exports
      <4>1. get_kernel_symbol(name) = Exports[name] /\ Exports[name] # NULL
        BY <1>6, <3>1, <3>4 DEF get_kernel_symbol, NULL
      <4> QED
        BY <1>6, <2>1, <2>2, <2>3, <3>1, <3>2, <3>3, <3>4, <4>1
    <3>5. CASE name \notin DOMAIN Exports
      <4>1. get_kernel_symbol(name) = NULL
        BY <3>5 DEF get_kernel_symbol
      <4> QED
        BY <2>1, <2>3, <3>3, <3>5, <4>1
    <3> QED
      BY <3>4, <3>5
  <2>4. CASE symbol.st_shndx = SHN_ABS
    <3>1. symbol.st_value \in Nat /\ symbol.st_value < Ints - 1
      BY <1>2, <1>10, <2>0, <2>4 DEF Elf64_Sym
    <3>2. AsInt(symbol.st_value) = symbol.st_value
      BY <3>1, <1>6, AsIntIs
    <3>3. symbol.st_shndx # SHN_UNDEF
      BY <2>4 DEF SHN_ABS, SHN_UNDEF
    <3> QED
      BY <1>6, <1>7, <1>10, <2>1, <2>2, <2>4, <3>1, <3>2, <3>3 DEF SHN_UNDEF
  <2>5. CASE symbol.st_shndx # SHN_UNDEF /\ symbol.st_shndx # SHN_ABS
    <3>1. /\ symbol.st_shndx \in DOMAIN elf.sections /\ symbol.st_value <= Most
          /\ symbol.st_value \in Nat
      BY <1>2, <1>10, <2>0, <2>5 DEF Defined, Elf64_Sym
    <3>2. /\ Home(symbol.st_shndx) = Base + shdr[symbol.st_shndx].offset
          /\ Home(symbol.st_shndx) \in Nat /\ Home(symbol.st_shndx) + Most < Ints - 1
          /\ Most \in Nat
      BY <3>1, HomeFacts, ModuleFacts
    <3>3. InFile(symbol) = Home(symbol.st_shndx) + symbol.st_value
      BY <3>2 DEF InFile
    <3>4. InFile(symbol) \in 0 .. Ints - 2
      BY <1>6, <3>1, <3>2, <3>3
    <3>5. AsInt(InFile(symbol)) = InFile(symbol)
      BY <1>6, <3>4, AsIntIs
    <3> QED
      BY <1>7, <1>10, <2>1, <2>2, <2>5, <3>3, <3>4, <3>5 DEF SHN_UNDEF
  <2> QED
    BY <2>3, <2>4, <2>5
<1> QED
  BY <1>8, <1>9, <1>10

-----------------------------------------------------------------------------
(* Linking: one relocation                                                 *)

\* It fails exactly when nothing could be done with it.
LEMMA FailsWhenUnresolvable ==
  ASSUME Module, Same, Housing(Count), NEW r \in Relocations
  PROVE  Fails(shdr[r[1]], Entry(r)) <=> Unresolvable(r)
<1>1. Unresolvable(r) <=> TypeFails(shdr[r[1]], Entry(r)) \/ NoSymbol(r)
  BY DEF Unresolvable, TypeFails, NoSymbol, Section
<1>2. Ints \in Nat
  BY ModuleFacts
<1>3. SymVal(shdr[r[1]], Entry(r)) = ELF_RELOC_ERR <=> NoSymbol(r)
  BY <1>2, SymbolValue DEF ELF_RELOC_ERR
<1> QED
  BY <1>1, <1>3 DEF Fails

\* The place of a relocation is in the file, and its own.
LEMMA PlaceFacts ==
  ASSUME Module, Same, NEW r \in Relocations
  PROVE  /\ Ref(shdr[r[1]], Entry(r)) = Base + PlaceOf(elf, r)
         /\ Base + PlaceOf(elf, r) \in Base .. Base + Len(elf.words) - 1
         /\ At(Base + PlaceOf(elf, r)) = {r}
         /\ Home(elf.sections[r[1]].info) + Entry(r).r_offset = Base + PlaceOf(elf, r)
<1>1. /\ Base \in Nat /\ HeapBase \in Nat /\ Ints \in Nat /\ Len(elf.words) \in Nat
      /\ Base + Len(elf.words) <= HeapBase /\ HeapBase < Ints
  <2>1. /\ Ints \in Nat /\ HeapBase \in Nat /\ Count \in Nat /\ Most \in Nat
        /\ HeapBase + (Count + 1) * Most < Ints - 1
    BY ModuleFacts, SectionFacts DEF Module
  <2>2. (Count + 1) * Most \in Nat
    BY <2>1
  <2>3. HeapBase < Ints
    BY <2>1, <2>2
  <2>4. Base \in Nat /\ Len(elf.words) \in Nat /\ Base + Len(elf.words) <= HeapBase
    BY ModuleFacts, SectionFacts DEF Module
  <2> QED
    BY <2>1, <2>3, <2>4
<1>2. \A q \in Relocations :
        /\ PlaceOf(elf, q) \in 0 .. Len(elf.words) - 1
        /\ Home(elf.sections[q[1]].info) + Entry(q).r_offset = Base + PlaceOf(elf, q)
  <2> TAKE q \in Relocations
  <2>1. /\ Section(q[1]).info \in DOMAIN elf.sections
        /\ ~Empty(Section(Section(q[1]).info))
        /\ PlaceOf(elf, q) = Section(Section(q[1]).info).offset + Entry(q).r_offset
        /\ PlaceOf(elf, q) \in 0 .. Len(elf.words) - 1
        /\ Entry(q).r_offset \in Nat
    BY RelocationFacts DEF Elf64_Rela
  <2>2. Section(Section(q[1]).info).offset \in Nat
    BY <2>1, SectionFacts DEF Module
  <2>3. Home(Section(q[1]).info) = Base + Section(Section(q[1]).info).offset
    BY <2>1 DEF Home, Section
  <2>4. Home(Section(q[1]).info) + Entry(q).r_offset = Base + PlaceOf(elf, q)
    BY <1>1, <2>1, <2>2, <2>3
  <2> QED
    BY <2>1, <2>4 DEF Section
<1>3. Base + PlaceOf(elf, r) \in Base .. Base + Len(elf.words) - 1
  BY <1>1, <1>2
<1>4. At(Base + PlaceOf(elf, r)) = {r}
  <2>1. \A q \in Relocations : Base + PlaceOf(elf, q) = Base + PlaceOf(elf, r) => q = r
    <3> TAKE q \in Relocations
    <3>1. PlaceOf(elf, q) \in Nat /\ PlaceOf(elf, r) \in Nat
      BY <1>1, <1>2
    <3> QED
      BY <1>1, <3>1, RelocationFacts
  <2> QED
    BY <1>2, <2>1 DEF At
<1>5. Ref(shdr[r[1]], Entry(r)) = Base + PlaceOf(elf, r)
  <2> DEFINE k == Section(r[1]).info
  <2>1. /\ r[1] \in DOMAIN elf.sections /\ k \in DOMAIN elf.sections /\ ~Empty(Section(k))
        /\ PlaceOf(elf, r) = Section(k).offset + Entry(r).r_offset
        /\ Entry(r).r_offset \in Nat /\ Section(k).offset \in Nat
    BY RelocationFacts, SectionFacts DEF Elf64_Rela, Module
  <2>2. shdr[r[1]].info = k /\ shdr[k].offset = Section(k).offset
    BY <2>1 DEF Same
  <2>3. AsInt(Base) = Base /\ Base + PlaceOf(elf, r) < Ints
    BY <1>1, <1>3, AsIntIs
  <2>4. Ref(shdr[r[1]], Entry(r)) = AsInt(Base + Section(k).offset + Entry(r).r_offset)
    BY <2>2, <2>3 DEF Ref
  <2>5. Base + Section(k).offset + Entry(r).r_offset = Base + PlaceOf(elf, r)
    BY <1>1, <2>1
  <2>6. Base + PlaceOf(elf, r) \in Nat
    BY <1>1, <1>3
  <2> QED
    BY <2>3, <2>4, <2>5, <2>6, AsIntIs
<1> QED
  BY <1>2, <1>3, <1>4, <1>5

\* What it writes is what the ABI asks for.
LEMMA WritesWanted ==
  ASSUME Module, Same, Housing(Count), NEW r \in Relocations, ~Unresolvable(r),
         NEW old \in 0 .. Ints - 1
  PROVE  /\ NewWord(shdr[r[1]], Entry(r), old) = Wanted(r, old)
         /\ Wanted(r, old) \in 0 .. Ints - 1
<1> DEFINE v == SymVal(shdr[r[1]], Entry(r))
           add == IF elf.sections[r[1]].type = "SHT_RELA" THEN Entry(r).r_addend ELSE 0
           place == Base + PlaceOf(elf, r)
           type == Entry(r).type
<1>1. ~NoSymbol(r) /\ type \in Absolute \cup Relative \cup {"R_X86_64_NONE"}
  BY DEF Unresolvable, NoSymbol, Section
<1>2. v = Value(r) /\ v \in Int
  BY <1>1, SymbolValue
<1>3. Ints \in Nat \ {0} /\ old \in Int /\ place \in Int
  BY ModuleFacts, PlaceFacts, SectionFacts DEF Module
<1>4. add \in Int /\ Addend(shdr[r[1]], Entry(r)) = add
  <2>1. r[1] \in DOMAIN elf.sections /\ Entry(r) \in Elf64_Rela
    BY RelocationFacts
  <2>2. shdr[r[1]].type = elf.sections[r[1]].type
    BY <2>1 DEF Same, Section
  <2> QED
    BY <2>1, <2>2 DEF Addend, Elf64_Rela
<1>5. /\ Ref(shdr[r[1]], Entry(r)) = place
      /\ Home(elf.sections[r[1]].info) + Entry(r).r_offset = place
  BY PlaceFacts
<1>6. Wanted(r, old) = IF type = "R_X86_64_NONE" THEN old
                       ELSE IF type \in Relative THEN (Value(r) + (old + add) - place) % Ints
                       ELSE (Value(r) + (old + add)) % Ints
  BY <1>5 DEF Wanted, Value
<1>7. NewWord(shdr[r[1]], Entry(r), old) =
        CASE type = "R_X86_64_NONE" -> old
          [] type \in Absolute -> AsInt(v + old + add)
          [] type \in Relative -> AsInt((v + old + add) - place)
  BY <1>4, <1>5 DEF NewWord
<1> HIDE DEF v, add, place, type
<1>8. v + old + add = Value(r) + (old + add)
  BY <1>2, <1>3, <1>4
<1>9. \A x \in Int : x % Ints \in 0 .. Ints - 1
  BY <1>3
<1>10. Value(r) + (old + add) \in Int /\ (Value(r) + (old + add)) - place \in Int
  BY <1>2, <1>3, <1>4
<1>11. CASE type = "R_X86_64_NONE"
  <2>1. type \notin Absolute /\ type \notin Relative
    BY <1>11 DEF Absolute, Relative
  <2> QED
    BY <1>6, <1>7, <1>11, <2>1
<1>12. CASE type \in Absolute
  <2>1. type # "R_X86_64_NONE" /\ type \notin Relative
    BY <1>12 DEF Absolute, Relative
  <2> QED
    BY <1>6, <1>7, <1>8, <1>9, <1>10, <1>12, <2>1 DEF AsInt
<1>13. CASE type \in Relative
  <2>1. type # "R_X86_64_NONE" /\ type \notin Absolute
    BY <1>13 DEF Absolute, Relative
  <2>2. NewWord(shdr[r[1]], Entry(r), old) = AsInt((v + old + add) - place)
    BY <1>7, <1>13, <2>1
  <2>4. NewWord(shdr[r[1]], Entry(r), old) = ((Value(r) + (old + add)) - place) % Ints
    BY <1>8, <2>2 DEF AsInt
  <2>3. Wanted(r, old) = (Value(r) + ((old + add) - place)) % Ints
    BY <1>6, <1>13, <2>1
  <2>5. Value(r) + ((old + add) - place) = (Value(r) + (old + add)) - place
    BY <1>2, <1>3, <1>4
  <2> QED
    BY <1>9, <1>10, <2>3, <2>4, <2>5
<1> QED
  BY <1>1, <1>11, <1>12, <1>13

-----------------------------------------------------------------------------
(* Linking: the inductive invariant                                        *)

Old(a) == IF a < Base + Len(elf.words) THEN elf.words[a - Base + 1] ELSE 0

\* Memory is the file and what kmalloc has returned.
Memory ==
  /\ DOMAIN mem = (Base .. Base + Len(elf.words) - 1) \cup (HeapBase .. heap - 1)
  /\ \A a \in DOMAIN mem : mem[a] \in 0 .. Ints - 1

\* The relocations of S have been applied, and nothing else was.
LinkedBy(S) ==
  \A a \in DOMAIN mem :
    mem[a] = IF At(a) \cap S = {} THEN Old(a)
             ELSE Wanted(CHOOSE r \in At(a) : TRUE, Old(a))

\* Those behind the loop of stage 2.
Applied == {r \in Relocations : r[1] < i \/ (r[1] = i /\ r[2] <= idx)}

Stage1 == Same /\ Housing(i) /\ i \in 0 .. Count /\ \A a \in DOMAIN mem : mem[a] = Old(a)

Stage2 ==
  /\ Same /\ Housing(Count) /\ i \in 0 .. Count /\ idx \in Nat
  /\ i < Count /\ Relocating(Section(i)) => idx <= Len(Section(i).items)
  /\ LinkedBy(Applied) /\ \A r \in Applied : ~Unresolvable(r)

Finished ==
  /\ Same /\ Housing(Count)
  /\ \/ result = 1 /\ \E r \in Relocations : Unresolvable(r)
     \/ /\ result = 0 /\ \A r \in Relocations : ~Unresolvable(r)
        /\ LinkedBy(Relocations)

LinkInv ==
  /\ elf \in Images /\ Memory
  /\ pc \in {"load", "stage1", "stage2", "segments", "done", "panic"}
  /\ i \in Nat /\ idx \in Nat
  /\ pc = "load" => i = 0 /\ shdr = elf.sections /\ mem = FileWords /\ heap = HeapBase
  /\ pc = "stage1" => Linking /\ Stage1
  /\ pc = "stage2" => Linking /\ Stage2
  /\ pc \in {"segments", "panic"} => ~Linking
  /\ pc = "done" /\ Linking => Finished

-----------------------------------------------------------------------------
(* Linking: stage 1                                                        *)

LEMMA HeapFacts ==
  ASSUME Module, NEW n \in 0 .. Count, Housing(n)
  PROVE  /\ heap \in Nat /\ Base \in Nat /\ HeapBase \in Nat /\ Most \in Nat /\ Count \in Nat
         /\ Base + Len(elf.words) <= HeapBase /\ HeapBase <= heap /\ Len(elf.words) \in Nat
         /\ heap < Ints /\ Ints \in Nat
         /\ heap + Most <= HeapBase + (n + 1) * Most
<1>1. /\ Base \in Nat /\ HeapBase \in Nat /\ Ints \in Nat /\ Count \in Nat /\ Most \in Nat
      /\ Len(elf.words) \in Nat /\ Base + Len(elf.words) <= HeapBase
      /\ HeapBase + (Count + 1) * Most < Ints - 1
  BY ModuleFacts, SectionFacts DEF Module
<1>2. heap \in Nat /\ HeapBase <= heap /\ heap <= HeapBase + n * Most
  BY DEF Housing
<1>3. PICK d \in Nat : Count = n + d
  BY <1>1, Count - n \in Nat
<1>4. /\ (Count + 1) * Most = n * Most + d * Most + Most
      /\ n * Most \in Nat /\ d * Most \in Nat /\ (n + 1) * Most = n * Most + Most
  BY <1>1, <1>3
<1>5. (Count + 1) * Most >= n * Most
  BY <1>1, <1>4
<1>6. heap < Ints
  BY <1>1, <1>2, <1>4, <1>5
<1>7. heap + Most <= HeapBase + (n + 1) * Most
  BY <1>1, <1>2, <1>4
<1> QED
  BY <1>1, <1>2, <1>6, <1>7

\* An empty section gets the next memory; the others keep theirs.
LEMMA AllocateStep ==
  ASSUME Module, Memory, Stage1, AllocateSection
  PROVE  Stage1' /\ Memory'
<1>1. /\ elf' = elf /\ i' = i + 1 /\ heap' = heap + shdr[i].size
      /\ shdr' = [shdr EXCEPT ![i].offset = FileOffset(heap)]
      /\ i \in DOMAIN shdr /\ Empty(shdr[i])
  BY DEF AllocateSection, Sections
<1>2. /\ i \in DOMAIN elf.sections /\ i < Count /\ Count \in Nat /\ i \in Nat
      /\ DOMAIN elf.sections = 0 .. Count - 1
  BY <1>1, SectionFacts DEF Same, Stage1, Module
<1>3. /\ Empty(Section(i)) /\ shdr[i].size = Section(i).size
      /\ Section(i).size \in Nat /\ Section(i).size <= Most
  <2>1. shdr[i].type = Section(i).type /\ shdr[i].alloc = Section(i).alloc /\ shdr[i].size = Section(i).size
    BY <1>2 DEF Same, Stage1
  <2>2. Empty(Section(i))
    BY <1>1, <2>1 DEF Empty
  <2> QED
    BY <1>2, <2>1, <2>2, ModuleFacts, SectionFacts DEF Module
<1>4. /\ heap \in Nat /\ Base \in Nat /\ HeapBase \in Nat /\ Most \in Nat
      /\ Base + Len(elf.words) <= HeapBase /\ HeapBase <= heap /\ Len(elf.words) \in Nat
      /\ heap < Ints /\ Ints \in Nat /\ heap + Most <= HeapBase + (i + 1) * Most
  BY <1>2, HeapFacts DEF Stage1
<1>5. FileOffset(heap) = heap - Base /\ heap - Base \in Nat
  <2>1. AsInt(heap) = heap /\ AsInt(Base) = Base /\ heap - Base \in Nat /\ heap - Base < Ints
    BY <1>4, AsIntIs
  <2> QED
    BY <2>1, AsIntIs DEF FileOffset
<1> DEFINE size == Section(i).size
<1>6. /\ DOMAIN shdr' = DOMAIN shdr
      /\ \A k \in DOMAIN shdr : k # i => shdr'[k] = shdr[k]
      /\ shdr'[i] = [shdr[i] EXCEPT !.offset = heap - Base]
  BY <1>1, <1>5
<1>7. /\ shdr'[i] \in Elf64_Shdr(Section(i).type) /\ shdr'[i].offset = heap - Base
      /\ shdr'[i].type = shdr[i].type /\ shdr'[i].name = shdr[i].name
      /\ shdr'[i].alloc = shdr[i].alloc /\ shdr'[i].size = shdr[i].size
      /\ shdr'[i].link = shdr[i].link /\ shdr'[i].info = shdr[i].info
      /\ shdr'[i].items = shdr[i].items
  <2>1. shdr[i] \in Elf64_Shdr(Section(i).type)
    BY <1>2 DEF Same, Stage1
  <2> QED
    BY <1>5, <1>6, <2>1 DEF Elf64_Shdr
<1>8. \A k : Section(k)' = Section(k)
  BY <1>1 DEF Section
<1>9. Same'
  BY <1>1, <1>2, <1>3, <1>6, <1>7, <1>8 DEF Same, Stage1
<1>10. /\ \A k \in DOMAIN elf.sections : k # i => Home(k)' = Home(k)
       /\ \A k : k = i => Home(k)' = heap
  <2>1. \A k \in DOMAIN elf.sections : k # i => shdr'[k] = shdr[k]
    BY <1>6 DEF Same, Stage1
  <2>2. Base + (heap - Base) = heap
    BY <1>4
  <2>3. \A k : k = i => Home(k)' = heap
    BY <1>1, <1>3, <1>7, <2>2 DEF Home, Section
  <2> QED
    BY <1>1, <2>1, <2>3 DEF Home
<1> HIDE DEF size
<1>11. ASSUME NEW n, n = i + 1 PROVE Housing(n)'
  <2>1. EmptyBefore(n)' = EmptyBefore(i) \cup {i}
    <3>1. \A k \in DOMAIN elf.sections : k < n <=> k < i \/ k = i
      BY <1>2, <1>11
    <3> QED
      BY <1>1, <1>2, <1>3, <1>8, <3>1 DEF EmptyBefore
  <2>2. heap' = heap + size /\ size \in Nat /\ size <= Most
    BY <1>1, <1>3 DEF size
  <2>3. heap' \in Nat /\ HeapBase <= heap' /\ heap' <= HeapBase + n * Most
    BY <1>2, <1>4, <1>11, <2>2
  <2>4. \A k \in EmptyBefore(i) :
          /\ k \in DOMAIN elf.sections /\ k < i /\ k # i /\ k \in Nat
          /\ shdr[k].offset \in Nat /\ Section(k).size \in Nat
          /\ HeapBase <= Home(k) /\ Home(k) + Section(k).size <= heap
          /\ \A l \in EmptyBefore(i) : l < k => Home(l) + Section(l).size <= Home(k)
    BY <1>2, SectionFacts DEF EmptyBefore, Housing, Stage1, Module
  <2>5. \A k \in EmptyBefore(i) : shdr'[k] = shdr[k] /\ Home(k)' = Home(k) /\ Home(k) \in Int
    <3>1. \A k \in EmptyBefore(i) : Home(k) = Base + shdr[k].offset
      BY DEF EmptyBefore, Home, Section
    <3> QED
      BY <1>4, <1>6, <1>10, <2>4, <3>1 DEF Same, Stage1
  <2>6. ASSUME NEW k \in EmptyBefore(i)
        PROVE  /\ shdr'[k].offset \in Nat
               /\ HeapBase <= Home(k)' /\ Home(k)' + Section(k).size <= heap'
               /\ \A l \in EmptyBefore(n)' : l < k => Home(l)' + Section(l).size <= Home(k)'
    <3>1. \A l \in EmptyBefore(n)' : l < k => l \in EmptyBefore(i)
      BY <1>2, <2>1, <2>4
    <3>2. shdr'[k].offset \in Nat /\ HeapBase <= Home(k)'
      BY <2>4, <2>5
    <3>3. Home(k)' + Section(k).size <= heap'
      BY <1>4, <2>2, <2>4, <2>5
    <3> QED
      BY <2>4, <2>5, <3>1, <3>2, <3>3
  <2>7. ASSUME NEW k, k = i
        PROVE  /\ shdr'[k].offset \in Nat
               /\ HeapBase <= Home(k)' /\ Home(k)' + Section(k).size <= heap'
               /\ \A l \in EmptyBefore(n)' : l < k => Home(l)' + Section(l).size <= Home(k)'
    <3>1. Home(k)' = heap /\ shdr'[k].offset \in Nat /\ Section(k).size = size
      BY <1>5, <1>7, <1>10, <2>7 DEF size
    <3>2. \A l \in EmptyBefore(n)' : l < k => l \in EmptyBefore(i)
      BY <1>2, <2>1, <2>7
    <3> QED
      BY <1>4, <2>2, <2>4, <2>5, <3>1, <3>2
  <2>8. Most' = Most /\ n' = n
    BY <1>1, <1>11 DEF Most
  <2>9. \A k \in EmptyBefore(n)' :
          /\ shdr'[k].offset \in Nat
          /\ HeapBase <= Home(k)' /\ Home(k)' + Section(k)'.size <= heap'
          /\ \A l \in EmptyBefore(n)' : l < k => Home(l)' + Section(l)'.size <= Home(k)'
    BY <1>8, <2>1, <2>6, <2>7
  <2> QED
    BY <2>3, <2>8, <2>9 DEF Housing
<1>12. /\ DOMAIN mem' = DOMAIN mem \cup (heap .. heap + size - 1)
       /\ \A a \in DOMAIN mem' :
            mem'[a] = IF a \in heap .. heap + size - 1 THEN 0 ELSE mem[a]
  <2>1. mem' = [a \in DOMAIN mem \cup (heap .. heap + shdr[i].size - 1) |->
                  IF a \in heap .. heap + shdr[i].size - 1 THEN 0 ELSE mem[a]]
    BY DEF AllocateSection
  <2>2. shdr[i].size = size
    BY <1>3 DEF size
  <2> QED
    BY <2>1, <2>2
<1>13. \A a \in heap .. heap + size - 1 : Old(a) = 0
  <2>1. \A a \in heap .. heap + size - 1 : ~(a < Base + Len(elf.words))
    BY <1>3, <1>4 DEF size
  <2> QED
    BY <2>1 DEF Old
<1>14. \A a \in DOMAIN mem' : mem'[a] = Old(a)'
  BY <1>1, <1>12, <1>13 DEF Old, Stage1
<1>15. Memory'
  <2>1. size \in Nat /\ heap' = heap + size
    BY <1>1, <1>3 DEF size
  <2>2. (HeapBase .. heap - 1) \cup (heap .. heap + size - 1) = HeapBase .. heap' - 1
    BY <1>4, <2>1
  <2>3. 0 \in 0 .. Ints - 1
    BY <1>4
  <2> QED
    BY <1>1, <1>12, <2>2, <2>3 DEF Memory
<1>16. i' \in 0 .. Count' /\ Count' = Count
  BY <1>1, <1>2 DEF Count
<1> QED
  BY <1>1, <1>9, <1>11, <1>14, <1>15, <1>16 DEF Stage1

\* A section that is in the file, or takes no memory, is passed.
LEMMA PassStep ==
  ASSUME Module, Stage1, PassSection
  PROVE  Stage1'
<1>1. /\ elf' = elf /\ i' = i + 1 /\ heap' = heap /\ shdr' = shdr /\ mem' = mem
      /\ i \in DOMAIN shdr /\ ~Empty(shdr[i])
  BY DEF PassSection, Sections
<1>2. /\ i \in DOMAIN elf.sections /\ i < Count /\ Count \in Nat /\ i \in Nat
      /\ DOMAIN elf.sections = 0 .. Count - 1
  BY <1>1, SectionFacts DEF Same, Stage1, Module
<1>3. ~Empty(Section(i))
  <2>1. shdr[i].type = Section(i).type /\ shdr[i].alloc = Section(i).alloc /\ shdr[i].size = Section(i).size
    BY <1>2 DEF Same, Stage1
  <2> QED
    BY <1>1, <2>1 DEF Empty
<1>4. /\ heap \in Nat /\ Most \in Nat /\ heap + Most <= HeapBase + (i + 1) * Most /\ HeapBase \in Nat
  BY <1>2, HeapFacts DEF Stage1
<1>5. ASSUME NEW n, n = i + 1 PROVE Housing(n)
  <2>1. EmptyBefore(n) = EmptyBefore(i)
    <3>1. \A k \in DOMAIN elf.sections : k < n <=> k < i \/ k = i
      BY <1>2, <1>5
    <3> QED
      BY <1>3, <3>1 DEF EmptyBefore
  <2>2. n * Most \in Nat /\ heap <= HeapBase + n * Most
    BY <1>2, <1>4, <1>5
  <2> QED
    BY <2>1, <2>2 DEF Housing, Stage1
<1>6. Most' = Most /\ Count' = Count
  BY <1>1 DEF Most, Count
<1>7. ASSUME NEW n, n = i + 1 PROVE Housing(n)'
  <2>1. Housing(n)
    BY <1>5, <1>7
  <2> QED
    BY <1>1, <1>6, <2>1 DEF Housing, EmptyBefore, Home, Section
<1>8. Same' /\ \A a \in DOMAIN mem' : mem'[a] = Old(a)'
  BY <1>1 DEF Stage1, Same, Section, Old
<1> QED
  BY <1>1, <1>2, <1>6, <1>7, <1>8 DEF Stage1

\* Stage 2 begins with every section in memory and no relocation applied.
LEMMA Stage1DoneStep ==
  ASSUME Module, Stage1, Stage1Done
  PROVE  Stage2'
<1>1. /\ elf' = elf /\ i' = 0 /\ idx' = 0 /\ heap' = heap /\ shdr' = shdr /\ mem' = mem
      /\ i \notin DOMAIN shdr
  BY DEF Stage1Done, Sections
<1>2. /\ i = Count /\ Count \in Nat /\ DOMAIN elf.sections = 0 .. Count - 1
  BY <1>1, SectionFacts DEF Same, Stage1, Module
<1>3. Most' = Most /\ Count' = Count
  BY <1>1 DEF Most, Count
<1>4. Same' /\ Housing(Count)'
  BY <1>1, <1>2, <1>3 DEF Stage1, Same, Section, Housing, EmptyBefore, Home
<1>5. Applied' = {}
  <2>1. \A r \in Relocations : r[1] \in 0 .. Count - 1 /\ r[2] >= 1 /\ r[2] \in Int
    BY <1>2, RelocationFacts
  <2>2. \A r \in Relocations : ~(r[1] < 0) /\ ~(r[2] <= 0)
    BY <1>2, <2>1
  <2>3. Relocations' = Relocations
    BY <1>1 DEF Relocations
  <2> QED
    BY <1>1, <2>2, <2>3 DEF Applied
<1>6. LinkedBy(Applied)'
  <2>1. \A a \in DOMAIN mem : mem'[a] = Old(a)'
    BY <1>1 DEF Stage1, Old
  <2> QED
    BY <1>1, <1>5, <2>1 DEF LinkedBy
<1>7. i' \in 0 .. Count' /\ idx' \in Nat
  BY <1>1, <1>2, <1>3
<1>8. i' < Count' /\ Relocating(Section(i))' => idx' <= Len(Section(i)'.items)
  <2>1. i' \in DOMAIN elf.sections /\ Relocating(Section(i')) => Len(Section(i').items) \in Nat
    <3> SUFFICES ASSUME i' \in DOMAIN elf.sections, Relocating(Section(i'))
                 PROVE Len(Section(i').items) \in Nat
      OBVIOUS
    <3>1. Section(i').type \in {"SHT_REL", "SHT_RELA"}
      BY DEF Relocating
    <3>2. Section(i').items \in Seq(Elf64_Rela)
      BY <3>1, SectionFacts DEF Items, Module
    <3> QED
      BY <3>2
  <2> QED
    BY <1>1, <1>2, <1>3, <2>1 DEF Section
<1> QED
  BY <1>4, <1>5, <1>6, <1>7, <1>8 DEF Stage2

-----------------------------------------------------------------------------
(* Linking: stage 2                                                        *)

\* What the file and its headers say stays as they are.
LEMMA SaidAgain ==
  ASSUME elf' = elf, shdr' = shdr, heap' = heap
  PROVE  /\ Count' = Count /\ Relocations' = Relocations
         /\ Same => Same'
         /\ Housing(Count) => Housing(Count)'
         /\ \A k : Section(k)' = Section(k)
         /\ \A r : Unresolvable(r)' <=> Unresolvable(r)
         /\ \A a : Old(a)' = Old(a) /\ At(a)' = At(a)
         /\ \A r, old : Wanted(r, old)' = Wanted(r, old)
<1>1. Count' = Count /\ Relocations' = Relocations /\ Most' = Most
  BY DEF Count, Relocations, Most
<1>2. \A k : Section(k)' = Section(k) /\ Home(k)' = Home(k)
  BY DEF Section, Home
<1>3. Same => Same'
  BY <1>2 DEF Same
<1>4. Housing(Count) => Housing(Count)'
  BY <1>1, <1>2 DEF Housing, EmptyBefore
<1>5. \A r : Entry(r)' = Entry(r) /\ Symbol(r)' = Symbol(r) /\ NameOf(r)' = NameOf(r)
  BY DEF Entry, Symbol, NameOf
<1>6. \A r : Unresolvable(r)' <=> Unresolvable(r)
  BY <1>5 DEF Unresolvable
<1>7. \A a : Old(a)' = Old(a) /\ At(a)' = At(a)
  BY <1>1, <1>2, <1>5 DEF Old, At
<1>8. \A r, old : Wanted(r, old)' = Wanted(r, old)
  BY <1>2, <1>5 DEF Wanted
<1> QED
  BY <1>1, <1>2, <1>3, <1>4, <1>6, <1>7, <1>8

\* Its place is no other's: it holds what the file has there, and applying the
\* relocation puts there what it asks for and leaves the other words.
LEMMA Apply ==
  ASSUME Module, Same, Housing(Count), Memory,
         NEW S \in SUBSET Relocations, LinkedBy(S),
         NEW r \in Relocations \ S, ~Unresolvable(r),
         NEW m, LET ref == Ref(shdr[r[1]], Entry(r)) IN
                m = [mem EXCEPT ![ref] = NewWord(shdr[r[1]], Entry(r), mem[ref])]
  PROVE  /\ DOMAIN m = DOMAIN mem
         /\ \A a \in DOMAIN mem :
              /\ m[a] \in 0 .. Ints - 1
              /\ m[a] = IF At(a) \cap (S \cup {r}) = {} THEN Old(a)
                        ELSE Wanted(CHOOSE q \in At(a) : TRUE, Old(a))
<1> DEFINE place == Base + PlaceOf(elf, r)
           word == NewWord(shdr[r[1]], Entry(r), mem[place])
<1>1. Ref(shdr[r[1]], Entry(r)) = place /\ At(place) = {r} /\ place \in DOMAIN mem
  BY PlaceFacts DEF Memory
<1>2. mem[place] = Old(place) /\ mem[place] \in 0 .. Ints - 1
  BY <1>1 DEF LinkedBy, Memory
<1>3. word = Wanted(r, Old(place)) /\ word \in 0 .. Ints - 1
  BY <1>2, WritesWanted
<1>4. \A a \in DOMAIN mem : a # place => r \notin At(a)
  <2>1. \A a : r \in At(a) => a = place
    BY PlaceFacts DEF At
  <2> QED
    BY <2>1
<1> HIDE DEF place, word
<1>5. /\ DOMAIN m = DOMAIN mem /\ m[place] = word
      /\ \A a \in DOMAIN mem : a # place => m[a] = mem[a]
  BY <1>1 DEF word
<1>6. ASSUME NEW a \in DOMAIN mem, a # place
      PROVE  /\ m[a] \in 0 .. Ints - 1
             /\ m[a] = IF At(a) \cap (S \cup {r}) = {} THEN Old(a)
                       ELSE Wanted(CHOOSE q \in At(a) : TRUE, Old(a))
  <2>1. At(a) \cap (S \cup {r}) = At(a) \cap S
    BY <1>4, <1>6
  <2> QED
    BY <1>5, <1>6, <2>1 DEF LinkedBy, Memory
<1>7. /\ m[place] \in 0 .. Ints - 1
      /\ m[place] = IF At(place) \cap (S \cup {r}) = {} THEN Old(place)
                    ELSE Wanted(CHOOSE q \in At(place) : TRUE, Old(place))
  <2>1. At(place) \cap (S \cup {r}) # {} /\ (CHOOSE q \in At(place) : TRUE) = r
    BY <1>1
  <2> QED
    BY <1>3, <1>5, <2>1
<1> QED
  BY <1>5, <1>6, <1>7

\* The relocation the loop is at is one of the file's; the others are before
\* it or behind it.
LEMMA RelocateStep ==
  ASSUME Module, Memory, Stage2, Relocate
  PROVE  \/ pc' = "stage2" /\ Stage2' /\ Memory'
         \/ pc' = "done" /\ Finished' /\ Memory'
<1> DEFINE r == <<i, idx + 1>>
           len == Len(Section(i).items)
<1>1. /\ elf' = elf /\ shdr' = shdr /\ heap' = heap /\ i' = i /\ pc = "stage2"
      /\ i \in DOMAIN shdr /\ Relocating(shdr[i]) /\ idx < Len(shdr[i].items)
  BY DEF Relocate, Sections
<1>2. /\ i \in DOMAIN elf.sections /\ i < Count /\ i \in Nat /\ Count \in Nat
      /\ shdr[i].items = Section(i).items /\ Relocating(Section(i))
  <2>1. i \in DOMAIN elf.sections
    BY <1>1 DEF Stage2, Same
  <2>2. shdr[i].items = Section(i).items /\ Relocating(Section(i))
    BY <1>1, <2>1 DEF Stage2, Same, Relocating
  <2> QED
    BY <2>1, <2>2, SectionFacts DEF Module
<1>3. idx \in Nat /\ len \in Nat /\ idx < len
  <2>1. Section(i).items \in Seq(Elf64_Rela)
    <3>1. Section(i).items \in Items(Section(i).type)
      BY <1>2, SectionFacts DEF Module
    <3> QED
      BY <1>2, <3>1 DEF Items, Relocating
  <2>2. len \in Nat
    BY <2>1
  <2> QED
    BY <1>1, <1>2, <2>2 DEF Stage2
<1>4. /\ r \in Relocations /\ r[1] = i /\ r[2] = idx + 1
      /\ Entry(r) = shdr[i].items[idx + 1]
  <2>1. r \in {i} \X (1 .. Len(Section(i).items))
    BY <1>3
  <2>2. r \in Relocations
    BY <1>2, <2>1 DEF Relocations, RelocationsOf, Section
  <2> QED
    BY <1>2, <2>2 DEF Entry, EntryOf, Section
<1> HIDE DEF r, len
<1>5. Same /\ Housing(Count) /\ LinkedBy(Applied) /\ \A q \in Applied : ~Unresolvable(q)
  BY DEF Stage2
<1>6. r \notin Applied /\ Applied \in SUBSET Relocations
  BY <1>2, <1>3, <1>4 DEF Applied
<1>7. CASE Fails(shdr[i], Entry(r))
  <2>1. pc' = "done" /\ result' = 1 /\ mem' = mem
    BY <1>4, <1>7 DEF Relocate, Return
  <2>2. Unresolvable(r)
    BY <1>4, <1>5, <1>7, FailsWhenUnresolvable
  <2>3. Finished'
    BY <1>1, <1>4, <1>5, <2>1, <2>2, SaidAgain DEF Finished
  <2>4. Memory'
    BY <1>1, <2>1 DEF Memory
  <2> QED
    BY <2>1, <2>3, <2>4
<1>8. CASE ~Fails(shdr[i], Entry(r))
  <2> DEFINE ref == Ref(shdr[r[1]], Entry(r))
  <2>1. /\ pc' = pc /\ idx' = idx + 1
        /\ mem' = [mem EXCEPT ![ref] = NewWord(shdr[r[1]], Entry(r), mem[ref])]
    BY <1>4, <1>8 DEF Relocate
  <2>2. ~Unresolvable(r)
    BY <1>4, <1>5, <1>8, FailsWhenUnresolvable
  <2> DEFINE m == mem'
  <2> HIDE DEF ref
  <2>3. /\ DOMAIN mem' = DOMAIN mem
        /\ \A a \in DOMAIN mem :
             /\ mem'[a] \in 0 .. Ints - 1
             /\ mem'[a] = IF At(a) \cap (Applied \cup {r}) = {} THEN Old(a)
                          ELSE Wanted(CHOOSE q \in At(a) : TRUE, Old(a))
    BY <1>4, <1>5, <1>6, <2>1, <2>2, Apply DEF ref
  <2>4. Applied' = Applied \cup {r}
    <3>1. \A q \in Relocations : q = <<q[1], q[2]>> /\ q[1] \in Int /\ q[2] \in Int
      BY <1>2, RelocationFacts, SectionFacts DEF Module
    <3>2. \A q \in Relocations :
            q[1] = i /\ q[2] <= idx + 1 <=> (q[1] = i /\ q[2] <= idx) \/ q = r
      BY <1>3, <1>4, <3>1 DEF r
    <3>3. Relocations' = Relocations
      BY <1>1, SaidAgain
    <3> QED
      BY <1>1, <1>4, <2>1, <3>2, <3>3 DEF Applied
  <2>5. LinkedBy(Applied)'
    BY <1>1, <2>3, <2>4, SaidAgain DEF LinkedBy
  <2>6. Memory'
    BY <1>1, <2>3 DEF Memory
  <2>7. \A q \in Applied' : ~Unresolvable(q)'
    BY <1>1, <1>5, <2>2, <2>4, SaidAgain
  <2>8. i' \in 0 .. Count' /\ idx' \in Nat /\ idx' <= len
    <3>1. Count' = Count
      BY <1>1, SaidAgain
    <3> QED
      BY <1>1, <1>2, <1>3, <2>1, <3>1
  <2>9. Len(Section(i)'.items) = len
    BY <1>1 DEF Section, len
  <2>10. Same' /\ Housing(Count)'
    BY <1>1, <1>5, SaidAgain
  <2> QED
    BY <1>1, <2>1, <2>5, <2>6, <2>7, <2>8, <2>9, <2>10 DEF Stage2
<1> QED
  BY <1>7, <1>8

\* The relocations of a section are applied when the loop leaves it, and those
\* of one that has none.
LEMMA NextSectionStep ==
  ASSUME Module, Stage2, NextSection
  PROVE  Stage2'
<1>1. /\ elf' = elf /\ shdr' = shdr /\ heap' = heap /\ mem' = mem /\ i' = i + 1 /\ idx' = 0
      /\ i \in DOMAIN shdr /\ (~Relocating(shdr[i]) \/ idx = Len(shdr[i].items))
  BY DEF NextSection, Sections
<1>2. /\ i \in DOMAIN elf.sections /\ i < Count /\ i \in Nat /\ Count \in Nat
      /\ ~Relocating(Section(i)) \/ idx = Len(Section(i).items)
  <2>1. i \in DOMAIN elf.sections
    BY <1>1 DEF Stage2, Same
  <2>2. ~Relocating(Section(i)) \/ idx = Len(Section(i).items)
    BY <1>1, <2>1 DEF Stage2, Same, Relocating
  <2> QED
    BY <2>1, <2>2, SectionFacts DEF Module
<1>3. \A r \in Relocations :
        /\ r[1] \in Int /\ r[2] \in Nat \ {0} /\ Relocating(Section(r[1]))
        /\ r[2] \in 1 .. Len(Section(r[1]).items)
  BY <1>2, RelocationFacts, SectionFacts DEF Module
<1>4. \A r \in Relocations : r[1] = i => r[2] <= idx
  BY <1>2, <1>3
<1>5. Applied' = Applied
  <2>1. \A r \in Relocations :
          (r[1] < i + 1 \/ (r[1] = i + 1 /\ r[2] <= 0)) <=> (r[1] < i \/ (r[1] = i /\ r[2] <= idx))
    BY <1>2, <1>3, <1>4
  <2>2. Relocations' = Relocations
    BY <1>1, SaidAgain
  <2> QED
    BY <1>1, <2>1, <2>2 DEF Applied
<1>6. Same /\ Housing(Count) /\ LinkedBy(Applied) /\ \A q \in Applied : ~Unresolvable(q)
  BY DEF Stage2
<1>7. LinkedBy(Applied)'
  BY <1>1, <1>5, <1>6, SaidAgain DEF LinkedBy
<1>8. \A q \in Applied' : ~Unresolvable(q)'
  BY <1>1, <1>5, <1>6, SaidAgain
<1>9. i' \in 0 .. Count' /\ idx' \in Nat /\ idx' = 0
  <2>1. Count' = Count
    BY <1>1, SaidAgain
  <2> QED
    BY <1>1, <1>2, <2>1
<1>10. i' < Count' /\ Relocating(Section(i))' => 0 <= Len(Section(i)'.items)
  <2> DEFINE n == i + 1
  <2>1. n < Count /\ Relocating(Section(n)) => Len(Section(n).items) \in Nat
    <3> SUFFICES ASSUME n < Count, Relocating(Section(n)) PROVE Len(Section(n).items) \in Nat
      OBVIOUS
    <3>1. n \in DOMAIN elf.sections
      BY <1>2, SectionFacts DEF Module
    <3>2. Section(n).items \in Items(Section(n).type)
      BY <3>1, SectionFacts DEF Module
    <3> HIDE DEF n
    <3>3. Section(n).items \in Seq(Elf64_Rela)
      BY <3>2 DEF Items, Relocating
    <3> QED
      BY <3>3
  <2>2. Count' = Count /\ Section(i)' = Section(n)
    BY <1>1, SaidAgain DEF Section
  <2> QED
    BY <1>1, <2>1, <2>2
<1>11. Same' /\ Housing(Count)'
  BY <1>1, <1>6, SaidAgain
<1> QED
  BY <1>7, <1>8, <1>9, <1>10, <1>11 DEF Stage2

\* Behind the last section every relocation is applied.
LEMMA Stage2DoneStep ==
  ASSUME Module, Stage2, Stage2Done
  PROVE  pc' = "done" /\ Finished'
<1>1. /\ elf' = elf /\ shdr' = shdr /\ heap' = heap /\ mem' = mem
      /\ pc' = "done" /\ result' = 0 /\ i \notin DOMAIN shdr
  BY DEF Stage2Done, Sections, Return
<1>2. i = Count /\ DOMAIN elf.sections = 0 .. Count - 1 /\ Count \in Nat
  BY <1>1, SectionFacts DEF Stage2, Same, Module
<1>3. Applied = Relocations
  <2>1. \A r \in Relocations : r[1] < i
    BY <1>2, RelocationFacts
  <2> QED
    BY <2>1 DEF Applied
<1>4. Same /\ Housing(Count) /\ LinkedBy(Relocations) /\ \A q \in Relocations : ~Unresolvable(q)
  BY <1>3 DEF Stage2
<1>5. LinkedBy(Relocations)'
  BY <1>1, <1>4, SaidAgain DEF LinkedBy
<1>6. \A q \in Relocations' : ~Unresolvable(q)'
  BY <1>1, <1>4, SaidAgain
<1>7. Same' /\ Housing(Count)'
  BY <1>1, <1>4, SaidAgain
<1> QED
  BY <1>1, <1>5, <1>6, <1>7 DEF Finished

-----------------------------------------------------------------------------
(* Linking: the module's header                                            *)

\* What load_module looks for by name is found, and where the relocations find
\* it too: the file has one symbol table, and it names the string table.
LEMMA HeaderIsFound ==
  ASSUME Module, Same, Housing(Count)
  PROVE  HeaderFound
<1> SUFFICES ASSUME NEW k \in DOMAIN elf.sections, Section(k).type = "SHT_SYMTAB",
                    NEW s \in 1 .. Len(Section(k).items) - 1,
                    Section(k).items[s + 1].st_name # 0
             PROVE  LET table == Section(k).items
                        Name(t) == Section(Section(k).link).items[table[t + 1].st_name]
                        found == elf_get_symbol(Name(s))
                    IN /\ found \in 1 .. s /\ table[found + 1].st_name # 0
                       /\ Name(found) = Name(s)
                       /\ Defined(table[found + 1]) =>
                            elf_get_address(found) = elf_get_symval(k, found)
  BY DEF HeaderFound, Section
<1> DEFINE table == Section(k).items
           link == Section(k).link
           Name(t) == Section(link).items[table[t + 1].st_name]
           named == {t \in 1 .. Len(table) - 1 :
                       table[t + 1].st_name # 0 /\ Name(t) = Name(s)}
           found == elf_get_symbol(Name(s))
<1>1. /\ Len(table) \in Nat \ {0} /\ link \in DOMAIN elf.sections
      /\ \A t \in 2 .. Len(table) :
           /\ table[t] \in Elf64_Sym
           /\ Defined(table[t]) =>
                table[t].st_shndx \in DOMAIN elf.sections /\ table[t].st_value <= Most
  BY SymbolFacts
<1>2. /\ \A l \in DOMAIN elf.sections : Section(l).type = "SHT_SYMTAB" => l = k
      /\ \A l \in DOMAIN elf.sections :
           Section(l).type = "SHT_STRTAB" /\ Section(l).name = ".strtab" <=> l = link
  BY ModulesAssumption DEF Module, Linking, Section
<1>3. SymbolTables = {k} /\ StringTables = {link}
  BY <1>1, <1>2 DEF SymbolTables, StringTables, Sections, Same
<1>4. k # 0 /\ link # 0
  <2>1. Section(link).type = "SHT_STRTAB"
    BY <1>1, <1>2
  <2> QED
    BY <1>1, <2>1, ModuleFacts
<1>5. LastOf(SymbolTables) = k /\ LastOf(StringTables) = link
  <2>1. k \in Int /\ link \in Int
    BY <1>1, SectionFacts DEF Module
  <2>2. ASSUME NEW x \in Int PROVE LastOf({x}) = x
    <3>1. x \in {x} /\ \A l \in {x} : l <= x
      OBVIOUS
    <3>2. (CHOOSE y \in {x} : \A l \in {x} : l <= y) \in {x}
      BY <3>1
    <3> QED
      BY <3>2 DEF LastOf
  <2> QED
    BY <1>3, <2>1, <2>2
<1>6. shdr[k].items = table /\ shdr[link].items = Section(link).items /\ shdr[k].link = link
  BY <1>1 DEF Same
<1>7. elf_get_symbol(Name(s)) =
        IF named = {} THEN NULL ELSE CHOOSE t \in named : \A u \in named : t <= u
  BY <1>4, <1>5, <1>6 DEF elf_get_symbol, NULL
<1>8. s \in named /\ named \in SUBSET Nat
  BY <1>1
<1>9. found \in named /\ \A u \in named : found <= u
  <2> HIDE DEF named, Name
  <2>1. \E t \in named : \A u \in named : t <= u
    BY <1>8, LeastOf
  <2> QED
    BY <1>7, <1>8, <2>1 DEF found
<1> HIDE DEF found
<1>10. found \in 1 .. Len(table) - 1 /\ found <= s /\ table[found + 1].st_name # 0 /\ Name(found) = Name(s)
  BY <1>8, <1>9
<1>11. found \in 1 .. s /\ found + 1 \in 2 .. Len(table) /\ found < Len(table) /\ found # 0
  BY <1>1, <1>10
<1>12. ASSUME Defined(table[found + 1]) PROVE elf_get_address(found) = elf_get_symval(k, found)
  <2> DEFINE symbol == table[found + 1]
  <2>1. /\ symbol \in Elf64_Sym /\ symbol.st_shndx \in DOMAIN elf.sections
        /\ symbol.st_value <= Most /\ symbol.st_value \in Nat
        /\ symbol.st_shndx # SHN_UNDEF /\ symbol.st_shndx # SHN_ABS
    BY <1>1, <1>11, <1>12 DEF Defined, Elf64_Sym
  <2>2. elf_get_address(found) = InFile(symbol)
    BY <1>5, <1>6 DEF elf_get_address
  <2>3. elf_get_symval(k, found) = AsInt(InFile(symbol))
    <3>1. ~(found >= Len(table))
      BY <1>1, <1>11
    <3> QED
      BY <1>4, <1>6, <1>11, <2>1, <3>1 DEF elf_get_symval, SHN_UNDEF
  <2> HIDE DEF symbol
  <2>4. /\ Home(symbol.st_shndx) = Base + shdr[symbol.st_shndx].offset
        /\ Home(symbol.st_shndx) \in Nat /\ Home(symbol.st_shndx) + Most < Ints - 1
        /\ Most \in Nat /\ Ints \in Nat
    BY <2>1, HomeFacts, ModuleFacts
  <2>5. InFile(symbol) = Home(symbol.st_shndx) + symbol.st_value
    BY <2>4 DEF InFile
  <2>6. InFile(symbol) \in Nat /\ InFile(symbol) < Ints
    BY <2>1, <2>4, <2>5
  <2> QED
    BY <2>2, <2>3, <2>6, AsIntIs
<1> QED
  BY <1>10, <1>11, <1>12 DEF found

-----------------------------------------------------------------------------
(* Linking: the theorem                                                    *)

LEMMA MemoryAgain ==
  ASSUME elf' = elf, mem' = mem, heap' = heap, Memory
  PROVE  Memory'
BY DEF Memory

LEMMA LinkInitInv == Init => LinkInv
<1> SUFFICES ASSUME Init PROVE LinkInv
  OBVIOUS
<1>1. elf \in Images /\ mem = FileWords /\ shdr = elf.sections /\ heap = HeapBase
      /\ pc = "load" /\ i = 0 /\ idx = 0
  BY DEF Init, FileWords
<1>2. HeapBase \in Nat /\ Base \in Nat /\ Len(elf.words) \in Nat
      /\ \A n \in 1 .. Len(elf.words) : elf.words[n] \in 0 .. Ints - 1
  BY <1>1, ModulesAssumption, SectionFacts
<1>3. Memory
  <2>1. HeapBase .. heap - 1 = {}
    BY <1>1, <1>2
  <2>2. \A a \in Base .. Base + Len(elf.words) - 1 : a - Base + 1 \in 1 .. Len(elf.words)
    BY <1>2
  <2> QED
    BY <1>1, <1>2, <2>1, <2>2 DEF Memory, FileWords
<1> QED
  BY <1>1, <1>3 DEF LinkInv

\* The file as the loop of stage 1 finds it.
LEMMA Stage1Begins ==
  ASSUME Module, i = 0, shdr = elf.sections, mem = FileWords, heap = HeapBase
  PROVE  Stage1
<1>1. Count \in Nat /\ Most \in Nat /\ HeapBase \in Nat /\ Base \in Nat /\ Len(elf.words) \in Nat
  BY ModuleFacts, SectionFacts DEF Module
<1>2. Same
  BY SectionFacts DEF Same, Section, Module
<1>3. Housing(0)
  <2>1. EmptyBefore(0) = {}
    BY SectionFacts DEF EmptyBefore, Module
  <2>2. 0 * Most = 0
    BY <1>1
  <2> QED
    BY <1>1, <2>1, <2>2 DEF Housing
<1>4. \A a \in DOMAIN mem : mem[a] = Old(a)
  <2>1. \A a \in Base .. Base + Len(elf.words) - 1 : a < Base + Len(elf.words)
    BY <1>1
  <2> QED
    BY <2>1 DEF FileWords, Old
<1> QED
  BY <1>1, <1>2, <1>3, <1>4 DEF Stage1

LEMMA LinkStep == LinkInv /\ [Next]_vars => LinkInv'
<1> SUFFICES ASSUME LinkInv, [Next]_vars PROVE LinkInv'
  OBVIOUS
<1>0. /\ elf \in Images /\ elf' = elf /\ Memory /\ i \in Nat /\ idx \in Nat
      /\ Linking' <=> Linking
  BY DEF LinkInv, Next, vars, load_elf64, AllocateSection, PassSection, Stage1Done,
         Relocate, NextSection, Stage2Done, SkipSegment, LoadSegment, SegmentFault,
         SegmentsDone, Linking
<1>1. CASE load_elf64
  <2>1. /\ shdr' = shdr /\ mem' = mem /\ heap' = heap /\ i' = i /\ idx' = idx
        /\ i = 0 /\ shdr = elf.sections /\ mem = FileWords /\ heap = HeapBase
    BY <1>1 DEF load_elf64, LinkInv
  <2>2. \/ pc' \in {"done", "segments"} /\ ~Linking
        \/ pc' = "stage1" /\ Linking
    BY <1>1 DEF load_elf64, Return, Linking
  <2>3. Memory'
    BY <1>0, <2>1, MemoryAgain
  <2>4. Linking => Stage1'
    <3>1. Linking => Stage1
      BY <1>0, <2>1, Stage1Begins DEF Module
    <3>2. Count' = Count /\ (Same => Same') /\ \A a : Old(a)' = Old(a)
      BY <1>0, <2>1, SaidAgain
    <3>3. Housing(0) => Housing(0)'
      BY <1>0, <2>1 DEF Housing, EmptyBefore, Home, Section, Most
    <3> QED
      BY <2>1, <3>1, <3>2, <3>3 DEF Stage1
  <2> QED
    BY <1>0, <2>1, <2>2, <2>3, <2>4 DEF LinkInv
<1>2. CASE AllocateSection
  <2>1. pc = "stage1" /\ pc' = "stage1" /\ i' = i + 1 /\ idx' = idx
    BY <1>2 DEF AllocateSection
  <2>2. Linking /\ Stage1' /\ Memory'
    BY <1>0, <1>2, <2>1, AllocateStep DEF LinkInv, Module
  <2> QED
    BY <1>0, <2>1, <2>2 DEF LinkInv
<1>3. CASE PassSection
  <2>1. /\ pc = "stage1" /\ pc' = "stage1" /\ i' = i + 1 /\ idx' = idx
        /\ mem' = mem /\ heap' = heap
    BY <1>3 DEF PassSection
  <2>2. Linking /\ Stage1'
    BY <1>0, <1>3, <2>1, PassStep DEF LinkInv, Module
  <2>3. Memory'
    BY <1>0, <2>1, MemoryAgain
  <2> QED
    BY <1>0, <2>1, <2>2, <2>3 DEF LinkInv
<1>4. CASE Stage1Done
  <2>1. /\ pc = "stage1" /\ pc' = "stage2" /\ i' = 0 /\ idx' = 0
        /\ mem' = mem /\ heap' = heap
    BY <1>4 DEF Stage1Done
  <2>2. Linking /\ Stage2'
    BY <1>0, <1>4, <2>1, Stage1DoneStep DEF LinkInv, Module
  <2>3. Memory'
    BY <1>0, <2>1, MemoryAgain
  <2> QED
    BY <1>0, <2>1, <2>2, <2>3 DEF LinkInv
<1>5. CASE Relocate
  <2>1. pc = "stage2" /\ i' = i /\ idx' \in {idx, idx + 1}
    BY <1>5 DEF Relocate
  <2>2. Linking /\ \/ pc' = "stage2" /\ Stage2' /\ Memory'
                   \/ pc' = "done" /\ Finished' /\ Memory'
    BY <1>0, <1>5, <2>1, RelocateStep DEF LinkInv, Module
  <2>3. i' \in Nat /\ idx' \in Nat
    BY <1>0, <2>1
  <2> QED
    BY <1>0, <2>2, <2>3 DEF LinkInv
<1>6. CASE NextSection
  <2>1. /\ pc = "stage2" /\ pc' = "stage2" /\ i' = i + 1 /\ idx' = 0
        /\ mem' = mem /\ heap' = heap
    BY <1>6 DEF NextSection
  <2>2. Linking /\ Stage2'
    BY <1>0, <1>6, <2>1, NextSectionStep DEF LinkInv, Module
  <2>3. Memory'
    BY <1>0, <2>1, MemoryAgain
  <2> QED
    BY <1>0, <2>1, <2>2, <2>3 DEF LinkInv
<1>7. CASE Stage2Done
  <2>1. pc = "stage2" /\ i' = i /\ idx' = idx /\ mem' = mem /\ heap' = heap
    BY <1>7 DEF Stage2Done
  <2>2. pc' = "done" /\ Finished'
    BY <1>0, <1>7, <2>1, Stage2DoneStep DEF LinkInv, Module
  <2>3. Memory'
    BY <1>0, <2>1, MemoryAgain
  <2> QED
    BY <1>0, <2>1, <2>2, <2>3 DEF LinkInv
<1>8. CASE SkipSegment \/ LoadSegment \/ SegmentFault \/ SegmentsDone
  <2>1. /\ pc = "segments" /\ pc' \in {"segments", "panic", "done"} /\ i' \in {i, i + 1}
        /\ idx' = idx /\ mem' = mem /\ heap' = heap
    BY <1>8 DEF SkipSegment, LoadSegment, SegmentFault, SegmentsDone, Return
  <2>2. ~Linking /\ Memory'
    BY <1>0, <2>1, MemoryAgain DEF LinkInv
  <2>3. i' \in Nat
    BY <1>0, <2>1
  <2> QED
    BY <1>0, <2>1, <2>2, <2>3 DEF LinkInv
<1>9. CASE UNCHANGED vars
  <2>1. /\ shdr' = shdr /\ mem' = mem /\ heap' = heap /\ i' = i /\ idx' = idx
        /\ pc' = pc /\ result' = result
    BY <1>9 DEF vars
  <2>2. Memory'
    BY <1>0, <2>1, MemoryAgain
  <2>3. Stage1 => Stage1'
    BY <1>0, <2>1 DEF Stage1, Same, Housing, EmptyBefore, Home, Section, Most, Count, Old
  <2>4. LinkedBy(Relocations) => LinkedBy(Relocations)'
    BY <1>0, <2>1, SaidAgain DEF LinkedBy
  <2>5. Applied' = Applied
    BY <1>0, <2>1, SaidAgain DEF Applied
  <2>6. LinkedBy(Applied) => LinkedBy(Applied)'
    BY <1>0, <2>1, <2>5, SaidAgain DEF LinkedBy
  <2>7. Stage2 => Stage2'
    BY <1>0, <2>1, <2>5, <2>6, SaidAgain DEF Stage2
  <2>8. Finished => Finished'
    BY <1>0, <2>1, <2>4, SaidAgain DEF Finished
  <2>9. pc = "load" => i' = 0 /\ shdr' = elf'.sections /\ mem' = FileWords' /\ heap' = HeapBase
    BY <1>0, <2>1 DEF LinkInv, FileWords
  <2> QED
    BY <1>0, <2>1, <2>2, <2>3, <2>7, <2>8, <2>9 DEF LinkInv
<1> QED
  BY <1>1, <1>2, <1>3, <1>4, <1>5, <1>6, <1>7, <1>8, <1>9 DEF Next

\* Each empty section has memory of the heap, and no two the same.
LEMMA HousingIsHoused ==
  ASSUME Module, Memory, Housing(Count)
  PROVE  Housed
<1>1. \A k \in DOMAIN elf.sections : Empty(elf.sections[k]) => k \in EmptyBefore(Count)
  BY SectionFacts DEF EmptyBefore, Section, Module
<1>2. /\ heap \in Nat /\ HeapBase \in Nat /\ Base \in Nat
  BY ModuleFacts DEF Housing
<1>3. \A k \in EmptyBefore(Count) :
        /\ k \in Int /\ Home(k) \in Int /\ elf.sections[k].size \in Nat
        /\ HeapBase <= Home(k) /\ Home(k) + elf.sections[k].size <= heap
        /\ \A l \in EmptyBefore(Count) : l < k => Home(l) + elf.sections[l].size <= Home(k)
  <2> TAKE k \in EmptyBefore(Count)
  <2>1. k \in DOMAIN elf.sections /\ Empty(elf.sections[k])
    BY DEF EmptyBefore, Section
  <2>2. shdr[k].offset \in Nat
    BY DEF Housing
  <2>3. Home(k) \in Int
    BY <1>2, <2>1, <2>2 DEF Home
  <2> QED
    BY <2>1, <2>3, SectionFacts DEF Housing, Section, Module
<1>4. \A k \in EmptyBefore(Count) : Room(k) \subseteq {a \in DOMAIN mem : a >= HeapBase}
  BY <1>2, <1>3 DEF Room, Memory
<1>5. \A k, l \in EmptyBefore(Count) : k # l => Room(k) \cap Room(l) = {}
  <2> TAKE k, l \in EmptyBefore(Count)
  <2> HAVE k # l
  <2>1. CASE k < l
    BY <1>3, <2>1 DEF Room
  <2>2. CASE l < k
    BY <1>3, <2>2 DEF Room
  <2> QED
    BY <1>3, <2>1, <2>2
<1> QED
  BY <1>1, <1>4, <1>5 DEF Housed

\* For every module the linker makes, however many sections, symbols and
\* relocations it has: load_elf64 refuses it exactly when a relocation cannot
\* be resolved; one it accepts holds in each place what the relocation asks
\* for, in every other word what the file has, its empty sections have memory
\* of their own, and the module's header is found.
THEOREM Elf_Linked == Spec => []Linked
<1>1. LinkInv => Linked
  <2> SUFFICES ASSUME LinkInv PROVE Linked
    OBVIOUS
  <2>1. TypeOK
    <3>1. /\ pc \in {"load", "stage1", "stage2", "segments", "done", "panic"}
          /\ \A a \in DOMAIN mem : mem[a] \in 0 .. Ints - 1
          /\ i \in Nat /\ idx \in Nat
      BY DEF LinkInv, Memory
    <3>2. ASSUME pc = "stage2", NEW r \in Relocations
          PROVE  Ref(shdr[r[1]], Entry(r)) \in DOMAIN mem
      <4>1. Module /\ Same /\ Memory
        BY <3>2 DEF LinkInv, Stage2, Module
      <4> QED
        BY <4>1, PlaceFacts DEF Memory
    <3> QED
      BY <3>1, <3>2 DEF TypeOK
  <2>2. ASSUME Linking, pc = "done"
        PROVE  /\ result = 1 <=> \E r \in Relocations : Unresolvable(r)
               /\ result = 0 => Housed /\ WordsLinked
               /\ HeaderFound
    <3>1. Module /\ Finished /\ Memory /\ Same /\ Housing(Count)
      BY <2>2 DEF LinkInv, Module, Finished
    <3>2. result = 1 <=> \E r \in Relocations : Unresolvable(r)
      BY <3>1 DEF Finished
    <3>3. HeaderFound /\ Housed
      BY <3>1, HeaderIsFound, HousingIsHoused
    <3>4. result = 0 => WordsLinked
      <4>1. result = 0 => LinkedBy(Relocations)
        BY <3>1 DEF Finished
      <4>2. \A a : At(a) \cap Relocations = At(a)
        BY DEF At
      <4> QED
        BY <4>1, <4>2 DEF WordsLinked, LinkedBy, Old
    <3> QED
      BY <3>2, <3>3, <3>4
  <2> QED
    BY <2>1, <2>2 DEF Linked
<1> QED
  BY <1>1, LinkInitInv, LinkStep, PTL DEF Spec
=============================================================================
