---------------------------- MODULE LoaderProofs ----------------------------
(***************************************************************************)
(* What Loader promises of the kernel's memory, for every kernel link.ld   *)
(* makes: the inductive invariant, and the segments when it is entered.    *)
(* Then what it hands over, and its division.                              *)
(***************************************************************************)
EXTENDS Loader, Div64, LibraryProofs

-----------------------------------------------------------------------------
(* The loader: what the assumption says of the headers of a kernel         *)

Headers == Append(File.phdrs, File.behind)

\* A kernel is at kernel_start.
Kernel == machine \in Machines /\ File.magic

Segments == {n \in DOMAIN Headers : Headers[n].p_type = 1}

LEMMA KernelFacts ==
  ASSUME Kernel
  PROVE  /\ kernel_start \in Nat
         /\ Len(File.phdrs) \in Nat /\ DOMAIN File.phdrs = 1 .. Len(File.phdrs)
         /\ DOMAIN Headers = 1 .. Len(File.phdrs) + 1
         /\ \A n \in DOMAIN Headers : Headers[n] \in Elf64_Phdr
         /\ \A n \in DOMAIN File.phdrs : Headers[n] = File.phdrs[n]
         /\ \A n \in 0 .. Len(File.phdrs) :
              tag = n => n + 1 \in DOMAIN Headers /\ Phdr = Headers[n + 1]
         /\ \A n \in Segments :
              /\ Headers[n].p_filesz <= Headers[n].p_memsz
              /\ Lies(Headers[n]) \subseteq DOMAIN machine.mem
              /\ Source(kernel_start, Headers[n]) \subseteq DOMAIN machine.mem
              /\ Lies(Headers[n]) \subseteq PageSize .. PageSize * (Tables * Entries) - 1
              /\ \A l \in Segments :
                   /\ n < l => \A a \in Lies(Headers[n]) : a < Headers[l].p_vaddr
                   /\ l <= n =>
                        Source(kernel_start, Headers[n]) \cap Reach(Headers[l]) = {}
<1>1. kernel_start \in DOMAIN machine.files /\ File = machine.files[kernel_start]
  BY DEF Kernel, File
<1>2. machine.files[kernel_start].magic
  BY <1>1 DEF Kernel
<1>3. /\ kernel_start \in Nat
      /\ File.phdrs \in Seq(Elf64_Phdr) /\ File.behind \in Elf64_Phdr
  BY <1>1, <1>2, KernelsAssumption DEF KernelsApart, Kernel
<1>4. Len(File.phdrs) \in Nat /\ DOMAIN File.phdrs = 1 .. Len(File.phdrs)
  BY <1>3, LenProperties
<1>5. /\ Headers \in Seq(Elf64_Phdr) /\ Len(Headers) = Len(File.phdrs) + 1
      /\ DOMAIN Headers = 1 .. Len(File.phdrs) + 1
      /\ \A n \in 1 .. Len(File.phdrs) : Headers[n] = File.phdrs[n]
      /\ Headers[Len(File.phdrs) + 1] = File.behind
  BY <1>3, AppendProperties, LenProperties DEF Headers
<1>6. \A n \in DOMAIN Headers : Headers[n] \in Elf64_Phdr
  BY <1>5, ElementOfSeq
<1>7. \A n \in 0 .. Len(File.phdrs) :
        tag = n => n + 1 \in DOMAIN Headers /\ Phdr = Headers[n + 1]
  BY <1>4, <1>5 DEF Phdr
<1>8. \A n \in Segments :
        /\ Headers[n].p_filesz <= Headers[n].p_memsz
        /\ Lies(Headers[n]) \cup Source(kernel_start, Headers[n]) \subseteq DOMAIN machine.mem
        /\ Lies(Headers[n]) \subseteq PageSize .. PageSize * (Tables * Entries) - 1
        /\ \A l \in Segments :
             /\ n < l => \A a \in Lies(Headers[n]) : a < Headers[l].p_vaddr
             /\ l <= n => Source(kernel_start, Headers[n]) \cap Reach(Headers[l]) = {}
  BY <1>1, <1>2, KernelsAssumption DEF KernelsApart, Kernel, Segments, Headers
<1> QED
  BY <1>3, <1>4, <1>5, <1>6, <1>7, <1>8

-----------------------------------------------------------------------------
(* The inductive invariant of the loader                                   *)

\* What KernelLoaded says of one segment, of the memory before paging.
Copy(n) ==
  /\ \A k \in 0 .. Headers[n].p_filesz - 1 :
       mem[Headers[n].p_vaddr + k] = machine.mem[kernel_start + Headers[n].p_offset + k]
  /\ \A k \in WordSize * Headers[n].p_filesz .. Headers[n].p_memsz - 1 :
       mem[Headers[n].p_vaddr + k] = 0

\* The segments behind the loop are in place, and the others can still be read.
Placed ==
  /\ tag \in 0 .. Len(File.phdrs) + 1
  /\ DOMAIN mem = DOMAIN machine.mem
  /\ \A n \in Segments :
       IF n <= tag THEN Copy(n)
       ELSE \A a \in Source(kernel_start, Headers[n]) : mem[a] = machine.mem[a]

LoaderInv ==
  /\ machine \in Machines
  /\ pc \in {"start", "tags"} => mem = machine.mem
  /\ pc = "elf" /\ File.magic => Placed
  /\ KernelLoaded

LEMMA Scaled ==
  ASSUME NEW w \in Nat \ {0}, NEW x \in Nat, NEW y \in Nat, x <= y
  PROVE  w * x \in Nat /\ w * y \in Nat /\ w * x <= w * y /\ x <= w * x /\ y <= w * y
<1>1. PICK d \in Nat : y = x + d
  BY y - x \in Nat
<1>2. PICK v \in Nat : w = v + 1
  BY w - 1 \in Nat
<1>3. w * y = w * x + w * d /\ w * d \in Nat /\ w * x \in Nat
  BY <1>1
<1>4. w * x = v * x + x /\ w * y = v * y + y /\ v * x \in Nat /\ v * y \in Nat
  BY <1>2
<1> QED
  BY <1>3, <1>4

\* What writing a segment does: nothing outside its reach, its bytes from where
\* the file was, and zeros as far behind them as memset clears and memcpy, a
\* word for each byte, does not reach.
LEMMA SegmentWritten ==
  ASSUME NEW m, NEW ph \in Elf64_Phdr, ph.p_filesz <= ph.p_memsz,
         kernel_start \in Nat, NEW w, w = Segment(m, ph)
  PROVE  /\ DOMAIN w = DOMAIN m
         /\ \A a \in DOMAIN m : a \in Int /\ a \notin Reach(ph) => w[a] = m[a]
         /\ \A k \in 0 .. ph.p_filesz - 1 :
              LET a == ph.p_vaddr + k
                  b == kernel_start + ph.p_offset + k
              IN a \in DOMAIN m /\ b \in DOMAIN m /\ b \notin Reach(ph) => w[a] = m[b]
         /\ \A k \in WordSize * ph.p_filesz .. ph.p_memsz - 1 :
              ph.p_vaddr + k \in DOMAIN m => w[ph.p_vaddr + k] = 0
<1> DEFINE dest == ph.p_vaddr
           src == kernel_start + ph.p_offset
           filesz == ph.p_filesz
           memsz == ph.p_memsz
           file == WordSize * filesz
           all == WordSize * memsz
           z == [a \in DOMAIN m |-> IF a - dest \in 0 .. all - 1 THEN 0 ELSE m[a]]
<1>1. dest \in Nat /\ src \in Nat /\ filesz \in Nat /\ memsz \in Nat
  BY DEF Elf64_Phdr
<1>2. file \in Nat /\ all \in Nat /\ file <= all /\ filesz <= file /\ memsz <= all
  BY <1>1, Scaled, KernelsAssumption DEF KernelsApart
<1>3. w = [a \in DOMAIN z |-> IF a - dest \in 0 .. file - 1 THEN z[src + a - dest] ELSE z[a]]
  BY DEF Segment, FromFile, memset, memcpy
<1>4. \A a \in Int : a \notin Reach(ph) => a - dest \notin 0 .. all - 1
  BY <1>1, <1>2 DEF Reach
<1> HIDE DEF dest, src, filesz, memsz, file, all
<1>5. ASSUME NEW a \in DOMAIN m, a \in Int, a \notin Reach(ph) PROVE w[a] = m[a]
  <2>1. a - dest \notin 0 .. all - 1 /\ a - dest \notin 0 .. file - 1
    BY <1>1, <1>2, <1>4, <1>5
  <2> QED
    BY <1>3, <2>1
<1>6. ASSUME NEW k \in 0 .. filesz - 1,
             dest + k \in DOMAIN m, src + k \in DOMAIN m, src + k \notin Reach(ph)
      PROVE  w[dest + k] = m[src + k]
  <2>1. /\ (dest + k) - dest \in 0 .. file - 1 /\ src + (dest + k) - dest = src + k
        /\ src + k \in Int
    BY <1>1, <1>2
  <2>2. (src + k) - dest \notin 0 .. all - 1
    BY <1>4, <1>6, <2>1
  <2>3. w[dest + k] = z[src + k]
    BY <1>3, <1>6, <2>1
  <2> QED
    BY <1>6, <2>2, <2>3
<1>7. ASSUME NEW k \in file .. memsz - 1, dest + k \in DOMAIN m PROVE w[dest + k] = 0
  <2>1. (dest + k) - dest \notin 0 .. file - 1 /\ (dest + k) - dest \in 0 .. all - 1
    BY <1>1, <1>2
  <2> QED
    BY <1>3, <1>7, <2>1
<1> QED
  BY <1>3, <1>5, <1>6, <1>7 DEF dest, src, filesz, memsz, file

\* LoadSegment keeps the segments that are in place, puts its own there, and
\* leaves the bytes of the others.
LEMMA PlacedStep ==
  ASSUME Kernel, Placed, LoadSegment
  PROVE  Placed'
<1>1. /\ machine' = machine /\ kernel_start' = kernel_start /\ tag' = tag + 1
      /\ tag < Len(File.phdrs) + 1
      /\ mem' = IF Phdr.p_type = 1 THEN Segment(mem, Phdr) ELSE mem
  BY DEF LoadSegment, tags
<1>2. File' = File /\ Headers' = Headers /\ Segments' = Segments
  BY <1>1 DEF File, Headers, Segments
<1>3. /\ tag \in 0 .. Len(File.phdrs) /\ Len(File.phdrs) \in Nat
      /\ DOMAIN Headers = 1 .. Len(File.phdrs) + 1
      /\ tag + 1 \in DOMAIN Headers /\ Phdr = Headers[tag + 1]
  BY <1>1, KernelFacts DEF Placed
<1>4. tag' \in 0 .. Len(File.phdrs) + 1
  BY <1>1, <1>3
<1> DEFINE ph == Headers[tag + 1]
<1>5. CASE ph.p_type # 1
  <2>1. mem' = mem
    BY <1>1, <1>3, <1>5
  <2>2. \A n \in Segments : n \in Int /\ (n <= tag + 1 <=> n <= tag)
    BY <1>3, <1>5 DEF Segments
  <2>3. \A n \in Segments : Copy(n) => Copy(n)'
    BY <1>1, <1>2, <2>1 DEF Copy
  <2>4. \A n \in Segments : IF n <= tag' THEN Copy(n)'
                            ELSE \A a \in Source(kernel_start, Headers[n]) : mem[a] = machine.mem[a]
    BY <1>1, <2>2, <2>3 DEF Placed
  <2> QED
    BY <1>1, <1>2, <1>4, <2>1, <2>4 DEF Placed, Source
<1>6. CASE ph.p_type = 1
  <2>1. tag + 1 \in Segments /\ ph \in Elf64_Phdr /\ kernel_start \in Nat
    BY <1>3, <1>6, KernelFacts DEF Segments
  <2>2. mem' = Segment(mem, ph)
    BY <1>1, <1>3, <1>6
  <2>3. ph.p_filesz <= ph.p_memsz
    BY <2>1, KernelFacts
  <2>4. /\ DOMAIN mem' = DOMAIN mem /\ DOMAIN mem = DOMAIN machine.mem
        /\ \A a \in DOMAIN mem : a \in Int /\ a \notin Reach(ph) => mem'[a] = mem[a]
        /\ \A k \in 0 .. ph.p_filesz - 1 :
             LET a == ph.p_vaddr + k
                 b == kernel_start + ph.p_offset + k
             IN a \in DOMAIN mem /\ b \in DOMAIN mem /\ b \notin Reach(ph) => mem'[a] = mem[b]
        /\ \A k \in WordSize * ph.p_filesz .. ph.p_memsz - 1 :
             ph.p_vaddr + k \in DOMAIN mem => mem'[ph.p_vaddr + k] = 0
    BY <2>1, <2>2, <2>3, SegmentWritten DEF Placed
  <2>5. ASSUME NEW n \in Segments, n <= tag PROVE Copy(n)'
    <3> DEFINE own == Headers[n]
    <3>1. own \in Elf64_Phdr /\ own.p_filesz <= own.p_memsz
      BY KernelFacts DEF Segments
    <3>2. Copy(n)
      BY <2>5 DEF Placed
    <3>3. n < tag + 1
      BY <1>3, <2>5 DEF Segments
    <3>4. \A a \in Lies(own) : a < ph.p_vaddr /\ a \in DOMAIN mem
      BY <2>1, <2>4, <3>3, KernelFacts
    <3>5. \A a \in Lies(own) : a \in Int /\ a \notin Reach(ph)
      BY <2>1, <3>1, <3>4 DEF Lies, Reach, Elf64_Phdr
    <3>6. \A a \in Lies(own) : mem'[a] = mem[a]
      BY <2>4, <3>4, <3>5
    <3>7. WordSize * own.p_filesz \in Nat
      BY <3>1, KernelsAssumption DEF KernelsApart, Elf64_Phdr
    <3>8. /\ \A k \in 0 .. own.p_filesz - 1 : own.p_vaddr + k \in Lies(own)
          /\ \A k \in WordSize * own.p_filesz .. own.p_memsz - 1 : own.p_vaddr + k \in Lies(own)
      BY <3>1, <3>7 DEF Lies, Elf64_Phdr
    <3> QED
      BY <1>1, <1>2, <3>2, <3>6, <3>8 DEF Copy
  <2>6. ASSUME NEW n, n = tag + 1 PROVE Copy(n)'
    <3> HIDE DEF ph
    <3>1. /\ Lies(ph) \subseteq DOMAIN mem /\ Source(kernel_start, ph) \subseteq DOMAIN mem
          /\ Source(kernel_start, ph) \cap Reach(ph) = {}
      <4>1. tag + 1 <= tag + 1
        BY <1>3
      <4> QED
        BY <2>1, <2>4, <4>1, KernelFacts DEF ph
    <3>2. \A a \in Source(kernel_start, ph) : mem[a] = machine.mem[a]
      <4>1. ~(tag + 1 <= tag)
        BY <1>3
      <4> QED
        BY <2>1, <4>1 DEF Placed, ph
    <3>3. WordSize * ph.p_filesz \in Nat
      BY <2>1, KernelsAssumption DEF KernelsApart, Elf64_Phdr
    <3>4. /\ \A k \in 0 .. ph.p_filesz - 1 :
               /\ ph.p_vaddr + k \in Lies(ph)
               /\ kernel_start + ph.p_offset + k \in Source(kernel_start, ph)
          /\ \A k \in WordSize * ph.p_filesz .. ph.p_memsz - 1 : ph.p_vaddr + k \in Lies(ph)
      BY <2>1, <2>3, <3>3 DEF Lies, Source, Elf64_Phdr
    <3>5. \A k \in 0 .. ph.p_filesz - 1 :
            mem'[ph.p_vaddr + k] = machine.mem[kernel_start + ph.p_offset + k]
      BY <2>4, <3>1, <3>2, <3>4
    <3>6. \A k \in WordSize * ph.p_filesz .. ph.p_memsz - 1 : mem'[ph.p_vaddr + k] = 0
      BY <2>4, <3>1, <3>4
    <3> QED
      BY <1>1, <1>2, <2>6, <3>5, <3>6 DEF Copy, ph
  <2>7. ASSUME NEW n \in Segments, ~(n <= tag + 1),
               NEW a \in Source(kernel_start, Headers[n])
        PROVE  mem'[a] = machine.mem[a]
    <3>1. n \in Int /\ tag + 1 <= n /\ ~(n <= tag)
      BY <1>3, <2>7 DEF Segments
    <3>2. a \in DOMAIN mem /\ a \notin Reach(ph)
      BY <2>1, <2>4, <2>7, <3>1, KernelFacts
    <3>3. a \in Int
      BY <2>7 DEF Source
    <3>4. mem[a] = machine.mem[a]
      BY <2>7, <3>1 DEF Placed
    <3> QED
      BY <2>4, <3>2, <3>3, <3>4
  <2>8. \A n \in Segments : IF n <= tag + 1 THEN Copy(n)'
                            ELSE \A a \in Source(kernel_start, Headers[n]) : mem'[a] = machine.mem[a]
    <3>1. \A n \in Segments : n <= tag + 1 => n <= tag \/ n = tag + 1
      BY <1>3 DEF Segments
    <3> QED
      BY <2>5, <2>6, <2>7, <3>1
  <2> QED
    BY <1>1, <1>2, <1>4, <2>4, <2>8 DEF Placed, Source
<1> QED
  BY <1>5, <1>6

-----------------------------------------------------------------------------
(* Entering the kernel                                                     *)

\* The page of an address that is mapped is one of the tables', and the frame
\* it has there is the page itself.
LEMMA Identity ==
  ASSUME NEW a \in PageSize .. PageSize * (Tables * Entries) - 1
  PROVE  LET pn == a \div PageSize IN
         /\ pn \in 0 .. Tables * Entries - 1 /\ a = PageSize * pn + (a % PageSize)
         /\ Frame(pn \div Entries, pn % Entries) = pn /\ ~(a < PageSize)
<1> DEFINE pn == a \div PageSize
           all == Tables * Entries
<1>1. PageSize \in Nat \ {0} /\ Entries \in Nat \ {0} /\ Tables \in Nat \ {0}
  BY KernelsAssumption DEF KernelsApart
<1>2. all \in Nat
  BY <1>1
<1> HIDE DEF all
<1>3. a \in Nat /\ ~(a < PageSize) /\ a < PageSize * all
  BY <1>1, <1>2 DEF all
<1>4. pn \in Nat /\ a % PageSize \in 0 .. PageSize - 1 /\ a = PageSize * pn + (a % PageSize)
  BY <1>1, <1>3
<1> HIDE DEF pn
<1>5. pn < all
  <2> SUFFICES ASSUME all <= pn PROVE FALSE
    BY <1>2, <1>4
  <2>1. PageSize * all <= PageSize * pn /\ PageSize * pn \in Nat /\ PageSize * all \in Nat
    BY <1>1, <1>2, <1>4, Scaled
  <2> QED
    BY <1>3, <1>4, <2>1
<1>6. Entries * (pn \div Entries) + (pn % Entries) = pn
  BY <1>1, <1>4
<1> QED
  BY <1>2, <1>3, <1>4, <1>5, <1>6 DEF pn, all, Frame

LEMMA EnterStep ==
  ASSUME Kernel, Placed, enter_kernel
  PROVE  KernelLoaded'
<1>1. /\ machine' = machine /\ kernel_start' = kernel_start /\ tag = Len(File.phdrs) + 1
      /\ mem' = [a \in DOMAIN mem |-> IF a < PageSize THEN Missing ELSE mem[a]]
      /\ pt' = [pn \in 0 .. Tables * Entries - 1 |-> Frame(pn \div Entries, pn % Entries)]
  BY DEF enter_kernel, paging_setup, tags
<1>2. File' = File /\ Loadable' = Loadable
  BY <1>1 DEF File, Loadable
<1>3. ASSUME NEW n \in Loadable
      PROVE  /\ n \in Segments /\ n <= tag /\ Headers[n] = File.phdrs[n]
             /\ Headers[n] \in Elf64_Phdr /\ Headers[n].p_filesz <= Headers[n].p_memsz
             /\ Lies(Headers[n]) \subseteq DOMAIN mem
             /\ Lies(Headers[n]) \subseteq PageSize .. PageSize * (Tables * Entries) - 1
  <2>1. n \in DOMAIN File.phdrs /\ File.phdrs[n].p_type = 1
    BY <1>3 DEF Loadable
  <2>2. n \in Segments /\ Headers[n] = File.phdrs[n] /\ n <= tag
    BY <1>1, <2>1, KernelFacts DEF Segments
  <2> QED
    BY <2>2, KernelFacts DEF Segments, Placed
<1> DEFINE Virtual(a) == mem'[PageSize * pt'[a \div PageSize] + (a % PageSize)]
<1>4. ASSUME NEW a \in PageSize .. PageSize * (Tables * Entries) - 1, a \in DOMAIN mem
      PROVE  Virtual(a) = mem[a]
  <2> DEFINE pn == a \div PageSize
  <2>1. /\ pn \in 0 .. Tables * Entries - 1 /\ a = PageSize * pn + (a % PageSize)
        /\ Frame(pn \div Entries, pn % Entries) = pn /\ ~(a < PageSize)
    BY <1>4, Identity
  <2>2. pt'[pn] = pn
    BY <1>1, <2>1
  <2> QED
    BY <1>1, <1>4, <2>1, <2>2
<1>5. ASSUME NEW n \in Loadable
      PROVE  LET phdr == File.phdrs[n] IN
             /\ \A k \in 0 .. phdr.p_filesz - 1 :
                  Virtual(phdr.p_vaddr + k) = machine.mem[kernel_start + phdr.p_offset + k]
             /\ \A k \in WordSize * phdr.p_filesz .. phdr.p_memsz - 1 :
                  Virtual(phdr.p_vaddr + k) = 0
  <2> DEFINE own == Headers[n]
  <2>1. own \in Elf64_Phdr /\ own.p_filesz <= own.p_memsz
    BY <1>3
  <2>2. WordSize * own.p_filesz \in Nat
    BY <2>1, KernelsAssumption DEF KernelsApart, Elf64_Phdr
  <2>3. /\ \A k \in 0 .. own.p_filesz - 1 : own.p_vaddr + k \in Lies(own)
        /\ \A k \in WordSize * own.p_filesz .. own.p_memsz - 1 : own.p_vaddr + k \in Lies(own)
    BY <2>1, <2>2 DEF Lies, Elf64_Phdr
  <2>4. \A a \in Lies(own) : Virtual(a) = mem[a]
    BY <1>3, <1>4
  <2>5. Copy(n)
    BY <1>3 DEF Placed
  <2> HIDE DEF Virtual
  <2> QED
    BY <1>3, <2>3, <2>4, <2>5 DEF Copy
<1>6. machine'.mem = machine.mem
  BY <1>1
<1>7. KernelLoaded' <=>
        (pc' = "kernel" => \A n \in Loadable' :
           LET phdr == File'.phdrs[n] IN
           /\ \A k \in 0 .. phdr.p_filesz - 1 :
                Virtual(phdr.p_vaddr + k) = machine'.mem[kernel_start' + phdr.p_offset + k]
           /\ \A k \in WordSize * phdr.p_filesz .. phdr.p_memsz - 1 :
                Virtual(phdr.p_vaddr + k) = 0)
  BY DEF KernelLoaded, At
<1> HIDE DEF Virtual
<1> QED
  BY <1>1, <1>2, <1>5, <1>6, <1>7

-----------------------------------------------------------------------------
(* The theorem                                                             *)

LEMMA LoaderInitInv == Init => LoaderInv
<1> SUFFICES ASSUME Init PROVE LoaderInv
  OBVIOUS
<1> QED
  BY DEF Init, LoaderInv, KernelLoaded

LEMMA LoaderStep == LoaderInv /\ [Next]_vars => LoaderInv'
<1> SUFFICES ASSUME LoaderInv, [Next]_vars PROVE LoaderInv'
  OBVIOUS
<1>1. CASE loader_main
  BY <1>1 DEF loader_main, LoaderInv, KernelLoaded
<1>2. CASE ReadFramebuffer \/ ReadMemoryMap \/ ReadModule \/ PassTag
  BY <1>2 DEF ReadFramebuffer, ReadMemoryMap, ReadModule, PassTag, AtTag, NextTag,
              LoaderInv, KernelLoaded
<1>3. CASE FillBootinfo
  <2>1. /\ machine' = machine /\ mem' = mem /\ kernel_start' = kernel_start /\ tag' = 0
        /\ pc = "tags" /\ pc' = "elf" /\ mem = machine.mem /\ machine \in Machines
    BY <1>3 DEF FillBootinfo, tags, LoaderInv
  <2>2. /\ File' = File /\ Headers' = Headers /\ Segments' = Segments
    BY <2>1 DEF File, Headers, Segments
  <2>3. ASSUME File.magic PROVE Placed'
    <3>1. Kernel
      BY <2>1, <2>3 DEF Kernel
    <3>2. Len(File.phdrs) \in Nat /\ DOMAIN Headers = 1 .. Len(File.phdrs) + 1
      BY <3>1, KernelFacts
    <3>3. \A n \in Segments : ~(n <= 0)
      BY <3>2 DEF Segments
    <3> QED
      BY <2>1, <2>2, <3>2, <3>3 DEF Placed
  <2> QED
    BY <2>1, <2>2, <2>3 DEF LoaderInv, KernelLoaded
<1>4. CASE LoadSegment
  <2>1. /\ pc = "elf" /\ pc' = pc /\ File.magic /\ machine' = machine
        /\ kernel_start' = kernel_start
    BY <1>4 DEF LoadSegment, tags
  <2>2. Kernel /\ Placed
    BY <2>1 DEF Kernel, LoaderInv
  <2>3. Placed'
    BY <1>4, <2>2, PlacedStep
  <2> QED
    BY <2>1, <2>3 DEF LoaderInv, KernelLoaded
<1>5. CASE LoadFails
  BY <1>5 DEF LoadFails, LoaderInv, KernelLoaded
<1>6. CASE enter_kernel
  <2>1. pc = "elf" /\ pc' = "kernel" /\ File.magic /\ machine' = machine
    BY <1>6 DEF enter_kernel
  <2>2. Kernel /\ Placed
    BY <2>1 DEF Kernel, LoaderInv
  <2>3. KernelLoaded'
    BY <1>6, <2>2, EnterStep
  <2> QED
    BY <2>1, <2>3 DEF LoaderInv
<1>7. CASE UNCHANGED vars
  <2>1. /\ machine' = machine /\ mem' = mem /\ pc' = pc /\ tag' = tag /\ pt' = pt
        /\ kernel_start' = kernel_start
    BY <1>7 DEF vars, tags
  <2>2. File' = File
    BY <2>1 DEF File
  <2>3. Placed => Placed'
    BY <2>1, <2>2 DEF Placed, Copy, Headers, Segments, Source
  <2>4. KernelLoaded => KernelLoaded'
    BY <2>1, <2>2 DEF KernelLoaded, Loadable, At
  <2> QED
    BY <2>1, <2>2, <2>3, <2>4 DEF LoaderInv
<1> QED
  BY <1>1, <1>2, <1>3, <1>4, <1>5, <1>6, <1>7 DEF Next

\* For every machine whose kernels are as link.ld makes them and lie where GRUB
\* puts them: when the loader enters the kernel, each segment it asked for is
\* where the kernel will read it, whole, and its bss is zero as far as the
\* words memcpy takes for bytes leave it.
THEOREM Loader_KernelLoaded == Spec => []KernelLoaded
<1>1. Init => LoaderInv
  BY LoaderInitInv
<1>2. LoaderInv /\ [Next]_vars => LoaderInv'
  BY LoaderStep
<1>3. LoaderInv => KernelLoaded
  BY DEF LoaderInv
<1> QED
  BY <1>1, <1>2, <1>3, PTL DEF Spec

-----------------------------------------------------------------------------
(* The tags                                                                *)

Tags == machine.tags
Maps == [n \in DOMAIN Tags |-> IF Tags[n].type = "mmap" THEN Tags[n].entries ELSE <<>>]

\* The entries of the maps among the first n tags.
Upto(n) == IF n = 0 THEN <<>> ELSE Joint(Maps)[n]

IsModule(n, cmdline) == Tags[n].type = "module" /\ Tags[n].cmdline = cmdline

\* What the first n tags have to say of the module with the command line.
Chosen(n, cmdline, start) ==
  \/ start = Missing /\ \A k \in 1 .. n : ~IsModule(k, cmdline)
  \/ \E k \in 1 .. n : /\ IsModule(k, cmdline) /\ start = Tags[k].mod_start
                       /\ \A l \in k + 1 .. n : ~IsModule(l, cmdline)

\* The first n tags are in the kernel's arguments.
Told(n) ==
  Len(Upto(n)) < Regions =>
    /\ memreg_ptr = Len(Upto(n))
    /\ \A k \in 1 .. Len(Upto(n)) : bootinfo.memory[k - 1] = Region(Upto(n)[k])

BootinfoType ==
  /\ DOMAIN bootinfo = {"memory", "mem_size", "framebuffer", "initrd"}
  /\ bootinfo.memory \in [0 .. Regions - 1 -> [start : Int, end : Int, type : Nat]]

TagsInv ==
  /\ machine \in Machines /\ TypeOK /\ BootinfoType
  /\ pc = "start" => tag = 1
  /\ pc \in {"start", "tags"} =>
       /\ tag \in 1 .. Len(Tags) + 1
       /\ Told(tag - 1)
       /\ Chosen(tag - 1, "INITRD", initrd_start) /\ Chosen(tag - 1, "KERNEL", kernel_start)
  /\ pc \in {"elf", "kernel"} =>
       /\ Told(Len(Tags)) /\ bootinfo.mem_size = memreg_ptr
       /\ Chosen(Len(Tags), "INITRD", bootinfo.initrd)
       /\ Chosen(Len(Tags), "KERNEL", kernel_start)

LEMMA TagFacts ==
  ASSUME machine \in Machines
  PROVE  /\ Len(Tags) \in Nat /\ DOMAIN Tags = 1 .. Len(Tags)
         /\ Maps \in Seq(Seq(MemoryMapEntry)) /\ Len(Maps) = Len(Tags)
         /\ \A n \in 1 .. Len(Tags) :
              Maps[n] = IF Tags[n].type = "mmap" THEN Tags[n].entries ELSE <<>>
<1>1. Tags \in Seq(Range(Tags))
  BY TagsAssumption DEF Tags
<1>2. Len(Tags) \in Nat /\ DOMAIN Tags = 1 .. Len(Tags)
  BY <1>1, LenProperties
<1>3. \A n \in 1 .. Len(Tags) :
        (IF Tags[n].type = "mmap" THEN Tags[n].entries ELSE <<>>) \in Seq(MemoryMapEntry)
  BY <1>2, TagsAssumption, EmptySeq DEF Tags
<1>4. Maps \in [1 .. Len(Tags) -> Seq(MemoryMapEntry)]
  BY <1>2, <1>3 DEF Maps
<1>5. Maps \in Seq(Seq(MemoryMapEntry))
  BY <1>2, <1>4, SeqDef
<1>6. Len(Maps) = Len(Tags)
  <2>1. Len(Maps) \in Nat /\ 1 .. Len(Maps) = 1 .. Len(Tags)
    BY <1>4, <1>5, LenProperties
  <2>2. \A m, n \in Nat : 1 .. m = 1 .. n => m = n
    <3> SUFFICES ASSUME NEW m \in Nat, NEW n \in Nat, 1 .. m = 1 .. n, m # n PROVE FALSE
      OBVIOUS
    <3>1. CASE m < n
      BY <3>1, n \in 1 .. n
    <3>2. CASE n < m
      BY <3>2, m \in 1 .. m
    <3> QED
      BY <3>1, <3>2
  <2> QED
    BY <1>2, <2>1, <2>2
<1> QED
  BY <1>2, <1>5, <1>6 DEF Maps

LEMMA UptoFacts ==
  ASSUME machine \in Machines
  PROVE  /\ \A n \in 0 .. Len(Tags) : Upto(n) \in Seq(MemoryMapEntry)
         /\ \A n \in 1 .. Len(Tags) : Upto(n) = Upto(n - 1) \o Maps[n]
         /\ Upto(Len(Tags)) = AllEntries
<1>1. /\ Len(Tags) \in Nat /\ Maps \in Seq(Seq(MemoryMapEntry)) /\ Len(Maps) = Len(Tags)
      /\ \A n \in 1 .. Len(Tags) : Maps[n] \in Seq(MemoryMapEntry)
  BY TagFacts, ElementOfSeq
<1>2. ASSUME NEW n \in 0 .. Len(Tags) PROVE Upto(n) \in Seq(MemoryMapEntry)
  <2>1. CASE n = 0
    BY <2>1, EmptySeq DEF Upto
  <2>2. CASE n # 0
    <3>1. n \in 1 .. Len(Maps) /\ Len(Maps) > 0
      BY <1>1, <2>2
    <3> QED
      BY <1>1, <2>2, <3>1, JointFacts DEF Upto
  <2> QED
    BY <2>1, <2>2
<1>3. ASSUME NEW n \in 1 .. Len(Tags) PROVE Upto(n) = Upto(n - 1) \o Maps[n]
  <2>1. Len(Maps) > 0 /\ n # 0
    BY <1>1
  <2>2. CASE n = 1
    <3>1. Upto(1) = Maps[1]
      <4>1. Joint(Maps)[1] = Maps[1]
        BY <1>1, <2>1, JointFacts
      <4> QED
        BY <4>1 DEF Upto
    <3>2. Upto(n - 1) = <<>>
      BY <2>2 DEF Upto
    <3> QED
      BY <1>1, <2>2, <3>1, <3>2, ConcatEmptySeq
  <2>3. CASE n # 1
    <3>1. n \in 2 .. Len(Maps) /\ n - 1 # 0
      BY <1>1, <2>3
    <3> QED
      BY <1>1, <2>1, <3>1, JointFacts DEF Upto
  <2> QED
    BY <2>2, <2>3
<1>4. AllEntries = FlattenSeq(Maps)
  BY DEF AllEntries, Maps, Tags
<1>5. Upto(Len(Tags)) = AllEntries
  <2>1. CASE Len(Tags) = 0
    <3>1. Maps = <<>>
      BY <1>1, <2>1, EmptySeq
    <3> QED
      BY <1>1, <1>4, <2>1, <3>1 DEF FlattenSeq, Upto
  <2>2. CASE Len(Tags) # 0
    <3>1. Len(Maps) > 0
      BY <1>1, <2>2
    <3> QED
      BY <1>1, <1>4, <2>2, <3>1, JointIs DEF Upto
  <2> QED
    BY <2>1, <2>2
<1> QED
  BY <1>2, <1>3, <1>5

\* One more tag.
LEMMA ChosenStep ==
  ASSUME machine \in Machines, NEW n \in 1 .. Len(Tags), NEW cmdline, NEW start,
         Chosen(n - 1, cmdline, start)
  PROVE  Chosen(n, cmdline, IF IsModule(n, cmdline) THEN Tags[n].mod_start ELSE start)
<1>1. n \in Nat /\ n >= 1 /\ n - 1 \in Nat
  BY TagFacts
<1>2. CASE IsModule(n, cmdline)
  <2>1. n \in 1 .. n /\ \A l \in n + 1 .. n : ~IsModule(l, cmdline)
    BY <1>1
  <2> QED
    BY <1>2, <2>1 DEF Chosen
<1>3. CASE ~IsModule(n, cmdline)
  <2>1. CASE start = Missing /\ \A k \in 1 .. n - 1 : ~IsModule(k, cmdline)
    <3>1. \A k \in 1 .. n : k \in 1 .. n - 1 \/ k = n
      BY <1>1
    <3> QED
      BY <1>3, <2>1, <3>1 DEF Chosen
  <2>2. ASSUME NEW k \in 1 .. n - 1, IsModule(k, cmdline), start = Tags[k].mod_start,
               \A l \in k + 1 .. n - 1 : ~IsModule(l, cmdline)
        PROVE  Chosen(n, cmdline, start)
    <3>1. k \in 1 .. n /\ \A l \in k + 1 .. n : l \in k + 1 .. n - 1 \/ l = n
      BY <1>1
    <3> QED
      BY <1>3, <2>2, <3>1 DEF Chosen
  <2> QED
    BY <1>3, <2>1, <2>2 DEF Chosen
<1> QED
  BY <1>2, <1>3

\* What the entries of a map that are not too many leave in bootinfo.memory.
LEMMA Filled ==
  ASSUME NEW entries \in Seq(MemoryMapEntry), memreg_ptr \in Nat,
         memreg_ptr + Len(entries) < Regions
  PROVE  /\ Place(Len(entries)) = memreg_ptr + Len(entries)
         /\ \A k \in 1 .. Len(entries) : Filler(entries, memreg_ptr + k - 1) = k
         /\ \A r \in 0 .. memreg_ptr - 1 : Filler(entries, r) = 0
<1>1. Regions \in Nat \ {0} /\ Len(entries) \in Nat /\ DOMAIN entries = 1 .. Len(entries)
  BY TagsAssumption, LenProperties
<1>2. \A x \in Nat : x < Regions => x % Regions = x
  BY <1>1
<1>3. ASSUME NEW k \in 0 .. Len(entries) PROVE Place(k) = memreg_ptr + k
  <2>1. memreg_ptr + k \in Nat /\ memreg_ptr + k < Regions
    BY <1>1
  <2> QED
    BY <1>2, <2>1 DEF Place
<1>4. \A l \in DOMAIN entries : Place(l - 1) = memreg_ptr + (l - 1)
  <2>1. \A l \in DOMAIN entries : l - 1 \in 0 .. Len(entries)
    BY <1>1
  <2> QED
    BY <1>3, <2>1
<1>5. ASSUME NEW k \in 1 .. Len(entries) PROVE Filler(entries, memreg_ptr + k - 1) = k
  <2> DEFINE fillers == {l \in DOMAIN entries : Place(l - 1) = memreg_ptr + k - 1}
  <2>1. fillers = {k}
    BY <1>1, <1>4
  <2>2. \A l \in fillers : l <= k
    BY <1>1, <2>1
  <2>3. \A x \in fillers \cup {0} : (\A l \in fillers : l <= x) => x = k
    BY <1>1, <2>1
  <2>4. Filler(entries, memreg_ptr + k - 1) =
          CHOOSE x \in fillers \cup {0} : \A l \in fillers : l <= x
    BY DEF Filler
  <2> HIDE DEF fillers
  <2> QED
    BY <2>1, <2>2, <2>3, <2>4
<1>6. ASSUME NEW r \in 0 .. memreg_ptr - 1 PROVE Filler(entries, r) = 0
  <2> DEFINE fillers == {l \in DOMAIN entries : Place(l - 1) = r}
  <2>1. fillers = {}
    BY <1>1, <1>4
  <2>2. Filler(entries, r) = CHOOSE x \in fillers \cup {0} : \A l \in fillers : l <= x
    BY DEF Filler
  <2> HIDE DEF fillers
  <2> QED
    BY <2>1, <2>2
<1> QED
  BY <1>1, <1>3, <1>5, <1>6

\* A memory map; its entries follow those of the ones before it.
LEMMA MapStep ==
  ASSUME TagsInv, ReadMemoryMap
  PROVE  BootinfoType' /\ memreg_ptr' \in 0 .. Regions - 1 /\ \A n : n = tag => Told(n)'
<1> DEFINE entries == Tag.entries
           start == memreg_ptr
<1>1. /\ machine' = machine /\ tag \in 1 .. Len(Tags) /\ Tags[tag].type = "mmap"
      /\ bootinfo' = [bootinfo EXCEPT !.memory = [r \in DOMAIN bootinfo.memory |->
                        LET k == Filler(entries, r) IN
                        IF k = 0 THEN bootinfo.memory[r] ELSE Region(entries[k])]]
      /\ memreg_ptr' = Place(Len(entries))
  BY TagFacts DEF ReadMemoryMap, AtTag, NextTag, TagsInv, Tag, Tags
<1>2. /\ Regions \in Nat \ {0} /\ start \in Nat /\ entries \in Seq(MemoryMapEntry)
      /\ Len(entries) \in Nat /\ DOMAIN entries = 1 .. Len(entries)
      /\ machine \in Machines /\ Len(Tags) \in Nat /\ DOMAIN Tags = 1 .. Len(Tags)
  <2>1. /\ Regions \in Nat \ {0} /\ start \in Nat /\ machine \in Machines
        /\ Len(Tags) \in Nat /\ DOMAIN Tags = 1 .. Len(Tags)
    BY TagsAssumption, TagFacts DEF TagsInv, TypeOK
  <2>2. entries \in Seq(MemoryMapEntry)
    BY <1>1, <2>1, TagsAssumption DEF Tag, Tags
  <2> QED
    BY <2>1, <2>2, LenProperties
<1>3. \A k \in 1 .. Len(entries) :
        /\ entries[k].addr \in Nat /\ entries[k].len \in Nat /\ entries[k].type \in Nat
        /\ Region(entries[k]) \in [start : Int, end : Int, type : Nat]
  <2>1. \A k \in 1 .. Len(entries) : entries[k] \in MemoryMapEntry
    BY <1>2, ElementOfSeq
  <2> QED
    BY <2>1 DEF Region, RegionEnd, MemoryMapEntry
<1>4. \A r : Filler(entries, r) \in DOMAIN entries \cup {0}
  <2> TAKE r
  <2> DEFINE fillers == {k \in DOMAIN entries : Place(k - 1) = r}
  <2>1. \E k \in fillers \cup {0} : \A l \in fillers : l <= k
    <3> DEFINE I == {n \in Nat : n <= Len(entries) =>
                       \E k \in fillers \cup {0} : \A l \in fillers : l <= n => l <= k}
    <3>1. 0 \in I
      <4>1. \A l \in fillers : ~(l <= 0)
        BY <1>2
      <4> QED
        BY <4>1
    <3>2. ASSUME NEW n \in Nat, n \in I PROVE n + 1 \in I
      <4> SUFFICES ASSUME n + 1 <= Len(entries)
                   PROVE  \E k \in fillers \cup {0} : \A l \in fillers : l <= n + 1 => l <= k
        OBVIOUS
      <4>1. PICK k \in fillers \cup {0} : \A l \in fillers : l <= n => l <= k
        BY <1>2, <3>2
      <4>2. \A l \in fillers : l \in Nat /\ (l <= n + 1 => l <= n \/ l = n + 1)
        BY <1>2
      <4>3. CASE n + 1 \in fillers
        <5>1. \A l \in fillers : l <= n + 1 => l <= n + 1
          OBVIOUS
        <5> QED
          BY <4>3, <5>1
      <4>4. CASE n + 1 \notin fillers
        BY <4>1, <4>2, <4>4
      <4> QED
        BY <4>3, <4>4
    <3>3. Len(entries) \in I
      <4> HIDE DEF I
      <4> QED
        BY <1>2, <3>1, <3>2, Induct
    <3>4. \A l \in fillers : l <= Len(entries)
      BY <1>2
    <3>5. Len(entries) <= Len(entries)
      BY <1>2
    <3>6. PICK k \in fillers \cup {0} : \A l \in fillers : l <= Len(entries) => l <= k
      BY <3>3, <3>5
    <3> QED
      BY <3>4, <3>6
  <2>2. Filler(entries, r) = CHOOSE k \in fillers \cup {0} : \A l \in fillers : l <= k
    BY DEF Filler
  <2>3. Filler(entries, r) \in fillers \cup {0}
    <3> HIDE DEF fillers
    <3> QED
      BY <2>1, <2>2
  <2> QED
    BY <2>3
<1> HIDE DEF entries, start
<1>5. /\ DOMAIN bootinfo' = {"memory", "mem_size", "framebuffer", "initrd"}
      /\ bootinfo'.memory = [r \in 0 .. Regions - 1 |->
                               IF Filler(entries, r) = 0 THEN bootinfo.memory[r]
                               ELSE Region(entries[Filler(entries, r)])]
      /\ bootinfo.memory \in [0 .. Regions - 1 -> [start : Int, end : Int, type : Nat]]
  <2>1. /\ DOMAIN bootinfo = {"memory", "mem_size", "framebuffer", "initrd"}
        /\ bootinfo.memory \in [0 .. Regions - 1 -> [start : Int, end : Int, type : Nat]]
    BY DEF TagsInv, BootinfoType
  <2>2. DOMAIN bootinfo.memory = 0 .. Regions - 1
    BY <2>1
  <2> QED
    BY <1>1, <2>1, <2>2
<1>6. BootinfoType'
  <2>1. ASSUME NEW r \in 0 .. Regions - 1
        PROVE  bootinfo'.memory[r] \in [start : Int, end : Int, type : Nat]
    <3>1. CASE Filler(entries, r) = 0
      BY <1>5, <3>1
    <3>2. CASE Filler(entries, r) # 0
      <4>1. Filler(entries, r) \in 1 .. Len(entries)
        BY <1>2, <1>4, <3>2
      <4> QED
        BY <1>3, <1>5, <3>2, <4>1
    <3> QED
      BY <3>1, <3>2
  <2>2. bootinfo'.memory \in [0 .. Regions - 1 -> [start : Int, end : Int, type : Nat]]
    BY <1>5, <2>1
  <2> QED
    BY <1>5, <2>2 DEF BootinfoType
<1>7. memreg_ptr' \in 0 .. Regions - 1
  <2>1. start + Len(entries) \in Nat
    BY <1>2
  <2> QED
    BY <1>1, <1>2, <2>1 DEF Place, start
<1>8. ASSUME NEW n, n = tag PROVE Told(n)'
  <2> DEFINE before == Upto(n - 1)
  <2>1. before \in Seq(MemoryMapEntry) /\ Upto(n) = before \o entries
    <3>1. n - 1 \in 0 .. Len(Tags) /\ n \in 1 .. Len(Tags) /\ Maps[n] = entries
      BY <1>1, <1>2, <1>8, TagFacts DEF entries, Tag, Tags
    <3> QED
      BY <1>2, <3>1, UptoFacts
  <2>2. Upto(n)' = Upto(n)
    <3>1. Maps' = Maps
      BY <1>1 DEF Maps, Tags
    <3> QED
      BY <3>1 DEF Upto
  <2>3. Told(n - 1)
    BY <1>8 DEF TagsInv, ReadMemoryMap, AtTag
  <2> DEFINE b == Len(before)
             all == before \o entries
  <2>4. /\ b \in Nat /\ Len(all) = b + Len(entries)
        /\ \A k \in 1 .. b : all[k] = before[k]
        /\ \A k \in 1 .. Len(entries) : all[b + k] = entries[k]
    <3>1. b \in Nat
      BY <2>1, LenProperties
    <3> HIDE DEF before
    <3> QED
      BY <1>2, <2>1, <3>1, ConcatProperties
  <2>5. SUFFICES ASSUME Len(all) < Regions
                 PROVE  /\ memreg_ptr' = Len(all)
                        /\ \A k \in 1 .. Len(all) : bootinfo'.memory[k - 1] = Region(all[k])
    <3> HIDE DEF before
    <3> QED
      BY <2>1, <2>2 DEF Told, Region, RegionEnd
  <2>6. start = b /\ \A k \in 1 .. b : bootinfo.memory[k - 1] = Region(before[k])
    <3>1. b < Regions
      BY <1>2, <2>4, <2>5
    <3> QED
      BY <2>3, <3>1 DEF Told, start
  <2> HIDE DEF before, b, all
  <2>7. /\ Place(Len(entries)) = b + Len(entries)
        /\ \A k \in 1 .. Len(entries) : Filler(entries, b + k - 1) = k
        /\ \A r \in 0 .. b - 1 : Filler(entries, r) = 0
    BY <1>2, <2>4, <2>5, <2>6, Filled DEF start
  <2>8. ASSUME NEW k \in 1 .. Len(all) PROVE bootinfo'.memory[k - 1] = Region(all[k])
    <3>1. CASE k <= b
      <4>1. k \in 1 .. b /\ k - 1 \in 0 .. b - 1 /\ k - 1 \in 0 .. Regions - 1
        BY <1>2, <2>4, <2>5, <3>1
      <4> QED
        BY <1>5, <2>4, <2>6, <2>7, <4>1
    <3>2. CASE k > b
      <4> DEFINE m == k - b
      <4>1. m \in 1 .. Len(entries) /\ b + m = k /\ b + m - 1 = k - 1
        BY <1>2, <2>4, <3>2
      <4>2. k - 1 \in 0 .. Regions - 1 /\ m # 0
        BY <1>2, <2>4, <2>5, <4>1
      <4> HIDE DEF m
      <4>3. Filler(entries, k - 1) = m /\ all[k] = entries[m]
        BY <2>4, <2>7, <4>1
      <4> QED
        BY <1>5, <4>2, <4>3
    <3> QED
      BY <2>4, <1>2, <3>1, <3>2
  <2> QED
    BY <1>1, <2>4, <2>7, <2>8
<1> QED
  BY <1>6, <1>7, <1>8

\* A tag that is no memory map.
LEMMA OtherTag ==
  ASSUME TagsInv, UNCHANGED <<machine, memreg_ptr>>, bootinfo' = bootinfo, pc = "tags",
         tag \in 1 .. Len(Tags), Tags[tag].type # "mmap"
  PROVE  \A n : n = tag => Told(n)'
<1> TAKE n
<1> HAVE n = tag
<1>1. /\ machine \in Machines /\ n \in 1 .. Len(Tags) /\ n - 1 \in 0 .. Len(Tags)
      /\ Maps[n] = <<>>
  BY TagFacts DEF TagsInv
<1>2. Upto(n) = Upto(n - 1)
  <2>1. Upto(n - 1) \in Seq(MemoryMapEntry) /\ Upto(n) = Upto(n - 1) \o <<>>
    BY <1>1, UptoFacts
  <2> QED
    BY <2>1, ConcatEmptySeq
<1>3. Told(n)
  <2>1. Told(n - 1)
    BY DEF TagsInv
  <2> QED
    BY <1>2, <2>1 DEF Told
<1>4. Upto(n)' = Upto(n)
  <2>1. Maps' = Maps
    BY DEF Maps, Tags
  <2> QED
    BY <2>1 DEF Upto
<1> QED
  BY <1>3, <1>4 DEF Told, Region, RegionEnd

\* Any tag: what the next pass of the loop finds.
LEMMA TagStep ==
  ASSUME TagsInv, AtTag, NextTag, BootinfoType', memreg_ptr' \in 0 .. Regions - 1,
         \A n : n = tag => Told(n)',
         kernel_start' = IF IsModule(tag, "KERNEL") THEN Tags[tag].mod_start ELSE kernel_start,
         initrd_start' = IF IsModule(tag, "INITRD") THEN Tags[tag].mod_start ELSE initrd_start
  PROVE  TagsInv'
<1>1. /\ machine' = machine /\ mem' = mem /\ pc' = pc /\ pc = "tags" /\ tag' = tag + 1
      /\ machine \in Machines /\ tag \in 1 .. Len(Tags) /\ Len(Tags) \in Nat
  BY TagFacts DEF TagsInv, AtTag, NextTag, Tags
<1>2. Tags' = Tags
  BY <1>1 DEF Tags
<1>3. TypeOK'
  <2>1. DOMAIN bootinfo'.memory = 0 .. Regions - 1
    BY DEF BootinfoType
  <2>2. \A r \in 0 .. Regions - 1 : bootinfo'.memory[r] \in [start : Int, end : Int, type : Nat]
    BY DEF BootinfoType
  <2>3. \A r \in DOMAIN bootinfo'.memory : DOMAIN bootinfo'.memory[r] = DOMAIN NoRegion
    BY <2>1, <2>2 DEF NoRegion
  <2> QED
    BY <1>1, <2>1, <2>3 DEF TypeOK, TagsInv, NoRegion
<1>4. /\ Chosen(tag, "INITRD", initrd_start') /\ Chosen(tag, "KERNEL", kernel_start')
  <2>1. Chosen(tag - 1, "INITRD", initrd_start) /\ Chosen(tag - 1, "KERNEL", kernel_start)
    BY <1>1 DEF TagsInv
  <2> QED
    BY <1>1, <2>1, ChosenStep
<1>5. ASSUME NEW n, n = tag PROVE Told(n)'
  BY <1>5
<1>6. tag' - 1 = tag /\ tag' \in 1 .. Len(Tags) + 1
  BY <1>1
<1>7. (Told(tag - 1))'
  <2> SUFFICES ASSUME NEW n, n = tag PROVE (Told(tag - 1))'
    OBVIOUS
  <2>1. (tag - 1)' = n
    BY <1>6
  <2> QED
    BY <1>5, <2>1 DEF Told, Upto, Region, RegionEnd
<1>8. (Chosen(tag - 1, "INITRD", initrd_start) /\ Chosen(tag - 1, "KERNEL", kernel_start))'
  <2> SUFFICES ASSUME NEW n, n = tag
               PROVE  (Chosen(tag - 1, "INITRD", initrd_start) /\ Chosen(tag - 1, "KERNEL", kernel_start))'
    OBVIOUS
  <2>1. (tag - 1)' = n /\ Tags' = Tags
    BY <1>2, <1>6
  <2>2. Chosen(n, "INITRD", initrd_start') /\ Chosen(n, "KERNEL", kernel_start')
    BY <1>4
  <2>3. (Chosen(tag - 1, "INITRD", initrd_start))'
    BY <2>1, <2>2 DEF Chosen, IsModule
  <2>4. (Chosen(tag - 1, "KERNEL", kernel_start))'
    BY <2>1, <2>2 DEF Chosen, IsModule
  <2> QED
    BY <2>3, <2>4
<1> QED
  BY <1>1, <1>2, <1>3, <1>6, <1>7, <1>8 DEF TagsInv

LEMMA TagsInitInv == Init => TagsInv
<1> SUFFICES ASSUME Init PROVE TagsInv
  OBVIOUS
<1>1. /\ machine \in Machines /\ tag = 1 /\ pc = "start" /\ Len(Tags) \in Nat
      /\ Regions \in Nat \ {0} /\ memreg_ptr = 0 /\ DOMAIN mem = DOMAIN machine.mem
      /\ kernel_start = Missing /\ initrd_start = Missing
      /\ DOMAIN bootinfo = {"memory", "mem_size", "framebuffer", "initrd"}
      /\ bootinfo.memory = [r \in 0 .. Regions - 1 |-> NoRegion]
  BY TagFacts, TagsAssumption DEF Init
<1>2. BootinfoType
  BY <1>1 DEF BootinfoType, NoRegion
<1>3. TypeOK
  BY <1>1 DEF TypeOK
<1>4. tag \in 1 .. Len(Tags) + 1 /\ tag - 1 = 0
  BY <1>1
<1>5. Told(tag - 1)
  <2>1. Upto(tag - 1) = <<>>
    BY <1>4 DEF Upto
  <2>2. Len(Upto(tag - 1)) = 0
    BY <2>1, EmptySeq
  <2> QED
    BY <1>1, <2>2 DEF Told
<1>6. Chosen(tag - 1, "INITRD", initrd_start) /\ Chosen(tag - 1, "KERNEL", kernel_start)
  BY <1>1, <1>4 DEF Chosen
<1> QED
  BY <1>1, <1>2, <1>3, <1>4, <1>5, <1>6 DEF TagsInv

\* Steps that leave the kernel's arguments alone.
LEMMA KeptArguments ==
  ASSUME TagsInv, UNCHANGED <<machine, memreg_ptr, tags, bootinfo>>, TypeOK',
         \/ pc' \in {"hang", "wild"}
         \/ UNCHANGED <<pc, tag>>
         \/ pc = "start" /\ pc' = "tags" /\ tag' = tag
         \/ pc = "elf" /\ pc' \in {"elf", "kernel"}
  PROVE  TagsInv'
<1>1. /\ kernel_start' = kernel_start /\ initrd_start' = initrd_start
      /\ Tags' = Tags /\ Maps' = Maps
  BY DEF tags, Tags, Maps
<1>2. BootinfoType'
  BY DEF TagsInv, BootinfoType
<1>3. Told(Len(Tags)) => Told(Len(Tags))'
  BY <1>1 DEF Told, Upto, Region, RegionEnd
<1>4. \A n, start : /\ Chosen(n, "INITRD", start) => Chosen(n, "INITRD", start)'
                    /\ Chosen(n, "KERNEL", start) => Chosen(n, "KERNEL", start)'
  BY <1>1 DEF Chosen, IsModule
<1>5. CASE pc' \in {"hang", "wild"}
  BY <1>2, <1>5 DEF TagsInv
<1>6. CASE tag' = tag /\ pc \in {"start", "tags"} /\ pc' \in {pc, "tags"}
  <2>1. /\ tag \in 1 .. Len(Tags) + 1 /\ Told(tag - 1) /\ Chosen(tag - 1, "INITRD", initrd_start)
        /\ Chosen(tag - 1, "KERNEL", kernel_start)
    BY <1>6 DEF TagsInv
  <2>2. (Told(tag - 1))'
    BY <1>1, <1>6, <2>1 DEF Told, Upto, Region, RegionEnd
  <2>3. (Chosen(tag - 1, "INITRD", initrd_start))'
    BY <1>1, <1>6, <2>1 DEF Chosen, IsModule
  <2>4. (Chosen(tag - 1, "KERNEL", kernel_start))'
    BY <1>1, <1>6, <2>1 DEF Chosen, IsModule
  <2>5. pc' = "start" => tag' = 1
    BY <1>6 DEF TagsInv
  <2> QED
    BY <1>1, <1>2, <1>6, <2>1, <2>2, <2>3, <2>4, <2>5 DEF TagsInv
<1>7. CASE pc \in {"elf", "kernel"} /\ pc' \in {"elf", "kernel"}
  <2>1. /\ Told(Len(Tags)) /\ bootinfo.mem_size = memreg_ptr
        /\ Chosen(Len(Tags), "INITRD", bootinfo.initrd)
        /\ Chosen(Len(Tags), "KERNEL", kernel_start)
    BY <1>7 DEF TagsInv
  <2>2. (Told(Len(Tags)))'
    BY <1>3, <2>1
  <2>3. (Chosen(Len(Tags), "INITRD", bootinfo.initrd))'
    BY <1>1, <2>1 DEF Chosen, IsModule
  <2>4. (Chosen(Len(Tags), "KERNEL", kernel_start))'
    BY <1>1, <2>1 DEF Chosen, IsModule
  <2> QED
    BY <1>1, <1>2, <1>7, <2>1, <2>2, <2>3, <2>4 DEF TagsInv
<1>8. CASE pc' = pc /\ pc \in {"hang", "wild"}
  BY <1>5, <1>8
<1> QED
  BY <1>5, <1>6, <1>7, <1>8 DEF TagsInv, TypeOK

LEMMA TagsStep == TagsInv /\ [Next]_vars => TagsInv'
<1> SUFFICES ASSUME TagsInv, [Next]_vars PROVE TagsInv'
  OBVIOUS
<1>1. TypeOK /\ BootinfoType /\ machine \in Machines
  BY DEF TagsInv
<1>2. CASE loader_main
  <2>1. TypeOK'
    BY <1>1, <1>2 DEF loader_main, TypeOK
  <2> QED
    BY <1>2, <2>1, KeptArguments DEF loader_main
<1>3. ASSUME AtTag
      PROVE  pc = "tags" /\ tag \in 1 .. Len(Tags) /\ \A cmdline :
               IsModule(tag, cmdline) <=> Tag.type = "module" /\ Named(cmdline)
  BY <1>1, <1>3, TagFacts DEF TagsInv, AtTag, IsModule, Named, Tag, Tags
<1>4. CASE ReadFramebuffer
  <2>1. /\ AtTag /\ NextTag /\ Tag.type = "framebuffer" /\ UNCHANGED <<machine, memreg_ptr>>
        /\ bootinfo' = bootinfo /\ kernel_start' = kernel_start /\ initrd_start' = initrd_start
    BY <1>4 DEF ReadFramebuffer, NextTag
  <2>2. Tags[tag].type # "mmap" /\ ~IsModule(tag, "KERNEL") /\ ~IsModule(tag, "INITRD")
    BY <1>3, <2>1 DEF Tag, Tags
  <2>3. BootinfoType' /\ memreg_ptr' \in 0 .. Regions - 1
    BY <1>1, <2>1 DEF BootinfoType, TypeOK
  <2>4. \A n : n = tag => Told(n)'
    BY <1>3, <2>1, <2>2, OtherTag
  <2> QED
    BY <2>1, <2>2, <2>3, <2>4, TagStep
<1>5. CASE ReadMemoryMap
  <2>1. /\ AtTag /\ NextTag /\ Tag.type = "mmap"
        /\ kernel_start' = kernel_start /\ initrd_start' = initrd_start
    BY <1>5 DEF ReadMemoryMap, tags
  <2>2. ~IsModule(tag, "KERNEL") /\ ~IsModule(tag, "INITRD")
    BY <1>3, <2>1
  <2> QED
    BY <1>5, <2>1, <2>2, MapStep, TagStep
<1>6. CASE ReadModule
  <2>1. /\ AtTag /\ NextTag /\ Tag.type = "module" /\ UNCHANGED <<machine, memreg_ptr>>
        /\ bootinfo' = bootinfo
        /\ kernel_start' = IF Named("KERNEL") THEN Tag.mod_start ELSE kernel_start
        /\ initrd_start' = IF Named("INITRD") THEN Tag.mod_start ELSE initrd_start
    BY <1>6 DEF ReadModule, NextTag
  <2>2. Tags[tag].type # "mmap" /\ Tag = Tags[tag]
    BY <2>1 DEF Tag, Tags
  <2>3. BootinfoType' /\ memreg_ptr' \in 0 .. Regions - 1
    BY <1>1, <2>1 DEF BootinfoType, TypeOK
  <2>4. \A n : n = tag => Told(n)'
    BY <1>3, <2>1, <2>2, OtherTag
  <2>5. /\ kernel_start' = IF IsModule(tag, "KERNEL") THEN Tags[tag].mod_start ELSE kernel_start
        /\ initrd_start' = IF IsModule(tag, "INITRD") THEN Tags[tag].mod_start ELSE initrd_start
    BY <1>3, <2>1, <2>2
  <2> QED
    BY <2>1, <2>3, <2>4, <2>5, TagStep
<1>7. CASE PassTag
  <2>1. /\ AtTag /\ NextTag /\ Tag.type \notin {"mmap", "module"} /\ UNCHANGED <<machine, memreg_ptr>>
        /\ bootinfo' = bootinfo /\ kernel_start' = kernel_start /\ initrd_start' = initrd_start
    BY <1>7 DEF PassTag, NextTag, tags
  <2>2. Tags[tag].type # "mmap" /\ ~IsModule(tag, "KERNEL") /\ ~IsModule(tag, "INITRD")
    BY <1>3, <2>1 DEF Tag, Tags
  <2>3. BootinfoType' /\ memreg_ptr' \in 0 .. Regions - 1
    BY <1>1, <2>1 DEF BootinfoType, TypeOK
  <2>4. \A n : n = tag => Told(n)'
    BY <1>3, <2>1, <2>2, OtherTag
  <2> QED
    BY <2>1, <2>2, <2>3, <2>4, TagStep
<1>8. CASE FillBootinfo
  <2>1. /\ UNCHANGED <<machine, mem, memreg_ptr, tags>> /\ pc = "tags" /\ pc' = "elf" /\ tag' = 0
        /\ tag > Len(machine.tags)
        /\ bootinfo' = [bootinfo EXCEPT !.mem_size = memreg_ptr, !.framebuffer = fb,
                                        !.initrd = initrd_start]
    BY <1>8 DEF FillBootinfo
  <2>2. /\ bootinfo'.memory = bootinfo.memory /\ bootinfo'.mem_size = memreg_ptr
        /\ bootinfo'.initrd = initrd_start
        /\ DOMAIN bootinfo' = {"memory", "mem_size", "framebuffer", "initrd"}
    BY <1>1, <2>1 DEF BootinfoType
  <2>3. /\ Tags' = Tags /\ Maps' = Maps /\ kernel_start' = kernel_start
        /\ initrd_start' = initrd_start
    BY <2>1 DEF tags, Tags, Maps
  <2>4. tag - 1 = Len(Tags) /\ Len(Tags) \in Nat
    <3>1. Len(Tags) \in Nat
      BY <1>1, TagFacts
    <3>2. tag \in 1 .. Len(Tags) + 1 /\ tag > Len(Tags)
      BY <2>1 DEF TagsInv, Tags
    <3> QED
      BY <3>1, <3>2
  <2>5. /\ Told(Len(Tags)) /\ Chosen(Len(Tags), "INITRD", initrd_start)
        /\ Chosen(Len(Tags), "KERNEL", kernel_start)
    BY <2>1, <2>4 DEF TagsInv
  <2>6. BootinfoType'
    BY <1>1, <2>2 DEF BootinfoType
  <2>7. TypeOK'
    BY <1>1, <2>1, <2>2 DEF TypeOK
  <2>8. (Told(Len(Tags)))'
    BY <2>1, <2>2, <2>3, <2>5 DEF Told, Upto, Region, RegionEnd
  <2>9. (Chosen(Len(Tags), "INITRD", bootinfo.initrd))'
    BY <2>2, <2>3, <2>5 DEF Chosen, IsModule
  <2>10. (Chosen(Len(Tags), "KERNEL", kernel_start))'
    BY <2>3, <2>5 DEF Chosen, IsModule
  <2> QED
    BY <1>1, <2>1, <2>2, <2>6, <2>7, <2>8, <2>9, <2>10 DEF TagsInv
<1>9. CASE LoadSegment
  <2>1. TypeOK'
    <3>1. mem' = mem \/ mem' = Segment(mem, Phdr)
      BY <1>9 DEF LoadSegment
    <3>2. DOMAIN Segment(mem, Phdr) = DOMAIN mem
      BY DEF Segment, FromFile, memcpy, memset
    <3>3. /\ pc' = pc /\ memreg_ptr' = memreg_ptr /\ machine' = machine /\ bootinfo' = bootinfo
          /\ tag' = tag + 1 /\ tag \in Nat
      BY <1>1, <1>9 DEF LoadSegment, TypeOK
    <3>4. DOMAIN mem' = DOMAIN machine'.mem /\ tag' \in Nat
      BY <1>1, <3>1, <3>2, <3>3 DEF TypeOK
    <3> QED
      BY <1>1, <3>3, <3>4 DEF TypeOK
  <2> QED
    BY <1>9, <2>1, KeptArguments DEF LoadSegment
<1>10. CASE LoadFails
  <2>1. TypeOK'
    BY <1>1, <1>10 DEF LoadFails, TypeOK
  <2> QED
    BY <1>10, <2>1, KeptArguments DEF LoadFails
<1>11. CASE enter_kernel
  <2>1. TypeOK'
    BY <1>1, <1>11 DEF enter_kernel, paging_setup, TypeOK
  <2> QED
    BY <1>11, <2>1, KeptArguments DEF enter_kernel
<1>12. CASE UNCHANGED vars
  <2>1. TypeOK'
    BY <1>1, <1>12 DEF vars, TypeOK
  <2> QED
    BY <1>12, <2>1, KeptArguments DEF vars
<1> QED
  BY <1>2, <1>4, <1>5, <1>6, <1>7, <1>8, <1>9, <1>10, <1>11, <1>12 DEF Next

LEMMA TagsHandedOver == TagsInv => HandedOver
<1> SUFFICES ASSUME TagsInv PROVE HandedOver
  OBVIOUS
<1>1. /\ TypeOK /\ machine \in Machines /\ Regions \in Nat \ {0}
      /\ Len(Tags) \in Nat /\ DOMAIN Tags = 1 .. Len(Tags) /\ Upto(Len(Tags)) = AllEntries
      /\ AllEntries \in Seq(MemoryMapEntry)
  BY TagFacts, UptoFacts, TagsAssumption DEF TagsInv
<1> DEFINE Start(cmdline, start) ==
             IF \E n \in DOMAIN machine.tags : LastModule(n, cmdline)
             THEN \E n \in DOMAIN machine.tags :
                    LastModule(n, cmdline) /\ start = machine.tags[n].mod_start
             ELSE start = Missing
<1>2. ASSUME NEW cmdline, NEW start, Chosen(Len(Tags), cmdline, start) PROVE Start(cmdline, start)
  <2>1. \A n : LastModule(n, cmdline) <=>
                 IsModule(n, cmdline) /\ \A m \in n + 1 .. Len(Tags) : ~IsModule(m, cmdline)
    BY DEF LastModule, IsModule, Tags
  <2>2. CASE start = Missing /\ \A k \in 1 .. Len(Tags) : ~IsModule(k, cmdline)
    <3>1. ~\E n \in DOMAIN machine.tags : LastModule(n, cmdline)
      BY <1>1, <2>1, <2>2 DEF Tags
    <3> QED
      BY <2>2, <3>1
  <2>3. ASSUME NEW k \in 1 .. Len(Tags), IsModule(k, cmdline), start = Tags[k].mod_start,
               \A l \in k + 1 .. Len(Tags) : ~IsModule(l, cmdline)
        PROVE  Start(cmdline, start)
    <3>1. k \in DOMAIN machine.tags /\ LastModule(k, cmdline) /\ start = machine.tags[k].mod_start
      BY <1>1, <2>1, <2>3 DEF Tags
    <3> QED
      BY <3>1
  <2> QED
    BY <1>2, <2>2, <2>3 DEF Chosen
<1>3. ASSUME pc \in {"elf", "kernel"}
      PROVE  /\ Start("INITRD", bootinfo.initrd) /\ Start("KERNEL", kernel_start)
             /\ Len(AllEntries) < Regions =>
                  /\ bootinfo.mem_size = Len(AllEntries)
                  /\ \A k \in DOMAIN AllEntries :
                       LET r == bootinfo.memory[k - 1] IN
                       /\ r.start = AllEntries[k].addr /\ r.type = AllEntries[k].type
                       /\ r.end - r.start = AllEntries[k].len
  <2>1. /\ Told(Len(Tags)) /\ bootinfo.mem_size = memreg_ptr
        /\ Chosen(Len(Tags), "INITRD", bootinfo.initrd)
        /\ Chosen(Len(Tags), "KERNEL", kernel_start)
    BY <1>3 DEF TagsInv
  <2>2. Start("INITRD", bootinfo.initrd) /\ Start("KERNEL", kernel_start)
    <3> HIDE DEF Start
    <3> QED
      BY <1>2, <2>1
  <2>3. Len(AllEntries) \in Nat /\ DOMAIN AllEntries = 1 .. Len(AllEntries)
    BY <1>1, LenProperties
  <2>4. ASSUME Len(AllEntries) < Regions, NEW k \in DOMAIN AllEntries
        PROVE  LET r == bootinfo.memory[k - 1] IN
               /\ r.start = AllEntries[k].addr /\ r.type = AllEntries[k].type
               /\ r.end - r.start = AllEntries[k].len
    <3>1. bootinfo.memory[k - 1] = Region(AllEntries[k])
      BY <1>1, <2>1, <2>3, <2>4 DEF Told
    <3>2. AllEntries[k] \in MemoryMapEntry
      BY <1>1, <2>3, ElementOfSeq
    <3> QED
      BY <3>1, <3>2 DEF Region, RegionEnd, MemoryMapEntry
  <2>5. Len(AllEntries) < Regions => bootinfo.mem_size = Len(AllEntries)
    BY <1>1, <2>1 DEF Told
  <2> QED
    BY <2>2, <2>4, <2>5
<1> QED
  BY <1>1, <1>3 DEF HandedOver

\* For every sequence of tags: the kernel gets every region of every memory
\* map in order, if its counter counts that many, and the last modules that
\* are called KERNEL and INITRD.
THEOREM Loader_HandedOver == Spec => []HandedOver
<1> QED
  BY TagsInitInv, TagsStep, TagsHandedOver, PTL DEF Spec

-----------------------------------------------------------------------------
(* Powers of 2                                                             *)

LEMMA PowerIs == Power = [n \in 0 .. 2 * Bits |-> IF n = 0 THEN 1 ELSE 2 * Power[n - 1]]
<1> DEFINE Is(n, g) == g = [k \in 0 .. n |-> IF k = 0 THEN 1 ELSE 2 * g[k - 1]]
           I == {n \in Nat : \E g : Is(n, g)}
<1>1. 0 \in I
  <2> DEFINE g == [k \in 0 .. 0 |-> 1]
  <2>1. g = [k \in 0 .. 0 |-> IF k = 0 THEN 1 ELSE 2 * g[k - 1]]
    OBVIOUS
  <2> QED
    BY <2>1
<1>2. ASSUME NEW n \in Nat, n \in I PROVE n + 1 \in I
  <2>1. PICK g : Is(n, g)
    BY <1>2
  <2> DEFINE h == [k \in 0 .. n + 1 |-> IF k = n + 1 THEN 2 * g[n] ELSE g[k]]
  <2>2. ASSUME NEW k \in 0 .. n PROVE g[k] = IF k = 0 THEN 1 ELSE 2 * g[k - 1]
    BY <2>1
  <2>3. ASSUME NEW k \in 0 .. n + 1 PROVE h[k] = IF k = 0 THEN 1 ELSE 2 * h[k - 1]
    <3>1. CASE k = n + 1
      <4>1. k - 1 = n /\ n \in 0 .. n + 1 /\ n # n + 1 /\ k # 0
        BY <3>1
      <4> QED
        BY <3>1, <4>1
    <3>2. CASE k # n + 1
      <4>1. k \in 0 .. n /\ (k # 0 => k - 1 \in 0 .. n + 1 /\ k - 1 # n + 1)
        BY <3>2
      <4> QED
        BY <2>2, <3>2, <4>1
    <3> QED
      BY <3>1, <3>2
  <2>4. Is(n + 1, h)
    <3>1. h = [k \in 0 .. n + 1 |-> h[k]]
      OBVIOUS
    <3> HIDE DEF h
    <3> QED
      BY <2>3, <3>1, Zenon
  <2> HIDE DEF h, Is
  <2> QED
    BY <2>4
<1>3. 2 * Bits \in Nat
  BY BitsAssumption
<1>4. 2 * Bits \in I
  <2> HIDE DEF I
  <2> QED
    BY <1>1, <1>2, <1>3, Induct
<1>5. \E g : Is(2 * Bits, g)
  BY <1>4
<1> QED
  BY <1>5, Zenon DEF Power

LEMMA PowerFacts ==
  /\ Power[0] = 1
  /\ \A n \in 0 .. 2 * Bits : Power[n] \in Nat \ {0}
  /\ \A n \in 1 .. 2 * Bits : Power[n] = 2 * Power[n - 1]
<1>1. 2 * Bits \in Nat
  BY BitsAssumption
<1>2. \A n \in 0 .. 2 * Bits : Power[n] = IF n = 0 THEN 1 ELSE 2 * Power[n - 1]
  BY PowerIs
<1>3. Power[0] = 1 /\ \A n \in 1 .. 2 * Bits : Power[n] = 2 * Power[n - 1]
  <2>1. 0 \in 0 .. 2 * Bits /\ \A n \in 1 .. 2 * Bits : n \in 0 .. 2 * Bits /\ n # 0
    BY <1>1
  <2> QED
    BY <1>2, <2>1
<1> DEFINE I == {n \in Nat : n <= 2 * Bits => Power[n] \in Nat \ {0}}
<1>4. 0 \in I
  BY <1>3
<1>5. ASSUME NEW n \in Nat, n \in I PROVE n + 1 \in I
  <2> SUFFICES ASSUME n + 1 <= 2 * Bits PROVE Power[n + 1] \in Nat \ {0}
    OBVIOUS
  <2>1. n + 1 \in 1 .. 2 * Bits /\ (n + 1) - 1 = n /\ n <= 2 * Bits
    BY <1>1
  <2>2. Power[n + 1] = 2 * Power[n]
    BY <1>3, <2>1
  <2> QED
    BY <1>5, <2>1, <2>2
<1>6. ASSUME NEW n \in 0 .. 2 * Bits PROVE Power[n] \in Nat \ {0}
  <2>1. n \in Nat /\ n <= 2 * Bits
    BY <1>1
  <2>2. n \in I
    <3> HIDE DEF I
    <3> QED
      BY <1>4, <1>5, <2>1, Induct
  <2> QED
    BY <2>1, <2>2
<1> QED
  BY <1>3, <1>6

LEMMA PowerSum ==
  ASSUME NEW a \in Nat, NEW b \in Nat, a + b <= 2 * Bits
  PROVE  Power[a + b] = Power[a] * Power[b]
<1>1. 2 * Bits \in Nat
  BY BitsAssumption
<1> DEFINE I == {n \in Nat : a + n <= 2 * Bits => Power[a + n] = Power[a] * Power[n]}
<1>2. 0 \in I
  <2> SUFFICES ASSUME a + 0 <= 2 * Bits PROVE Power[a + 0] = Power[a] * Power[0]
    OBVIOUS
  <2>1. a \in 0 .. 2 * Bits /\ a + 0 = a
    BY <1>1
  <2>2. Power[a] \in Nat /\ Power[0] = 1
    BY <2>1, PowerFacts
  <2> QED
    BY <2>1, <2>2
<1>3. ASSUME NEW n \in Nat, n \in I PROVE n + 1 \in I
  <2> SUFFICES ASSUME a + (n + 1) <= 2 * Bits PROVE Power[a + (n + 1)] = Power[a] * Power[n + 1]
    OBVIOUS
  <2>1. /\ a + (n + 1) \in 1 .. 2 * Bits /\ (a + (n + 1)) - 1 = a + n /\ a + n <= 2 * Bits
        /\ n + 1 \in 1 .. 2 * Bits /\ (n + 1) - 1 = n /\ a \in 0 .. 2 * Bits /\ n \in 0 .. 2 * Bits
    BY <1>1
  <2>2. /\ Power[a + (n + 1)] = 2 * Power[a + n] /\ Power[n + 1] = 2 * Power[n]
        /\ Power[a] \in Nat /\ Power[n] \in Nat
    BY <2>1, PowerFacts
  <2>3. Power[a + n] = Power[a] * Power[n]
    BY <1>3, <2>1
  <2>4. \A x, y \in Nat : 2 * (x * y) = x * (2 * y)
    OBVIOUS
  <2> QED
    BY <2>2, <2>3, <2>4
<1>4. b \in I
  <2> HIDE DEF I
  <2> QED
    BY <1>2, <1>3, Induct
<1> QED
  BY <1>4

\* A larger power is a multiple of twice a smaller one.
LEMMA PowerMultiple ==
  ASSUME NEW a \in Nat, NEW b \in 0 .. 2 * Bits, a < b
  PROVE  \E c \in Nat \ {0} : Power[b] = 2 * (c * Power[a])
<1>1. /\ b - (a + 1) \in Nat /\ a + 1 \in 1 .. 2 * Bits /\ (a + 1) + (b - (a + 1)) = b
      /\ b <= 2 * Bits /\ (a + 1) - 1 = a /\ b - (a + 1) \in 0 .. 2 * Bits /\ a \in 0 .. 2 * Bits
  BY BitsAssumption
<1> DEFINE c == Power[b - (a + 1)]
<1>2. c \in Nat \ {0} /\ Power[a] \in Nat \ {0} /\ Power[a + 1] = 2 * Power[a]
  BY <1>1, PowerFacts
<1>3. Power[b] = Power[a + 1] * c
  BY <1>1, PowerSum
<1> HIDE DEF c
<1>4. \A x, y \in Nat : (2 * x) * y = 2 * (y * x)
  OBVIOUS
<1> QED
  BY <1>2, <1>3, <1>4

\* Quotient and remainder are the only ones.
LEMMA Quotient ==
  ASSUME NEW d \in Nat \ {0}, NEW q \in Nat, NEW r \in 0 .. d - 1
  PROVE  q = (q * d + r) \div d /\ r = (q * d + r) % d
<1> DEFINE x == q * d + r
           y == x \div d
           s == x % d
<1>1. x \in Nat
  OBVIOUS
<1> HIDE DEF x
<1>2. y \in Nat /\ s \in 0 .. d - 1 /\ x = d * y + s
  BY <1>1
<1> HIDE DEF y, s
<1>3. q * d + r = y * d + s
  BY <1>2 DEF x
<1>4. ASSUME NEW m \in Nat, NEW n \in Nat, m < n PROVE m * d + d <= n * d /\ m * d \in Nat
  <2>1. PICK e \in Nat : n = (m + 1) + e
    BY <1>4, n - (m + 1) \in Nat
  <2>2. n * d = (m + 1) * d + e * d /\ (m + 1) * d = m * d + d /\ e * d \in Nat /\ m * d \in Nat
    BY <2>1
  <2> QED
    BY <2>2
<1>5. q = y
  <2> SUFFICES ASSUME q # y PROVE FALSE
    OBVIOUS
  <2>1. CASE q < y
    <3>1. q * d + d <= y * d /\ q * d \in Nat /\ y * d \in Nat
      BY <1>2, <1>4, <2>1
    <3> QED
      BY <1>2, <1>3, <3>1
  <2>2. CASE y < q
    <3>1. y * d + d <= q * d /\ y * d \in Nat /\ q * d \in Nat
      BY <1>2, <1>4, <2>2
    <3> QED
      BY <1>2, <1>3, <3>1
  <2> QED
    BY <1>2, <2>1, <2>2
<1>6. r = s
  <2>1. q * d \in Nat
    OBVIOUS
  <2> QED
    BY <1>2, <1>3, <1>5, <2>1
<1> QED
  BY <1>5, <1>6 DEF x, y, s

-----------------------------------------------------------------------------
(* The shifts of div.c                                                     *)

\* The powers of a word and of two.
LEMMA Words ==
  /\ Bits \in Nat \ {0} /\ 2 * Bits \in Nat
  /\ Power[Bits] \in Nat /\ Power[Bits] >= 2 /\ Power[Bits] = 2 * Power[Bits - 1]
  /\ Power[Bits - 1] \in Nat \ {0}
  /\ Power[2 * Bits] = Power[Bits] * Power[Bits] /\ Power[2 * Bits] \in Nat
<1>1. /\ Bits \in Nat \ {0} /\ 2 * Bits \in Nat /\ Bits \in 1 .. 2 * Bits
      /\ Bits - 1 \in 0 .. 2 * Bits /\ 2 * Bits = Bits + Bits /\ 2 * Bits \in 0 .. 2 * Bits
  BY BitsAssumption
<1>2. /\ Power[Bits] = 2 * Power[Bits - 1] /\ Power[Bits - 1] \in Nat \ {0}
      /\ Power[2 * Bits] \in Nat
  BY <1>1, PowerFacts
<1>3. Power[2 * Bits] = Power[Bits] * Power[Bits]
  BY <1>1, PowerSum
<1> QED
  BY <1>1, <1>2, <1>3

\* The half of a number of two words.
LEMMA HalfIs ==
  ASSUME NEW x \in U64
  PROVE  Half(x) = x \div 2
<1> DEFINE w == Power[Bits]
           v == Power[Bits - 1]
           h == higher(x)
           l == lower(x)
<1>1. /\ Bits \in Nat \ {0} /\ w \in Nat /\ w >= 2 /\ w = 2 * v /\ v \in Nat \ {0}
      /\ Power[2 * Bits] = w * w
  BY Words
<1>2. x \in Nat /\ x < w * w
  BY <1>1 DEF U64
<1> HIDE DEF w, v
<1>3. h \in Nat /\ l \in 0 .. w - 1 /\ x = w * h + l
  BY <1>1, <1>2 DEF higher, lower, w
<1>4. h < w
  <2> SUFFICES ASSUME w <= h PROVE FALSE
    BY <1>1, <1>3
  <2>1. PICK e \in Nat : h = w + e
    BY <1>1, <1>3, h - w \in Nat
  <2>2. w * h = w * w + w * e /\ w * e \in Nat /\ w * w \in Nat /\ w * h \in Nat
    BY <1>1, <2>1
  <2> QED
    BY <1>2, <1>3, <2>2
<1> HIDE DEF h, l
<1> DEFINE a == h \div 2
           b == h % 2
           c == l \div 2
           d == l % 2
<1>5. /\ a \in Nat /\ b \in {0, 1} /\ h = 2 * a + b
      /\ c \in Nat /\ d \in {0, 1} /\ l = 2 * c + d
  BY <1>3
<1>6. Half(x) = a * w + (c + b * v)
  <2>1. CASE Bits = 1
    <3>1. v = 1 /\ w = 2
      BY <1>1, <2>1, PowerFacts DEF v
    <3>2. Half(x) = longw(0, h \div Power[0])
      BY <2>1 DEF Half, __lshrdi3, h
    <3>3. Power[0] = 1 /\ h \div 1 = h
      BY <1>3, PowerFacts
    <3>4. Half(x) = h
      BY <1>1, <1>3, <3>2, <3>3 DEF longw, w
    <3>5. c = 0
      BY <1>3, <1>5, <3>1
    <3> QED
      BY <1>5, <3>1, <3>4, <3>5
  <2>2. CASE Bits # 1
    <3>1. ~(1 >= Bits) /\ 1 # 0
      BY <1>1, <2>2
    <3>2. Power[1] = 2
      <4>1. 1 \in 1 .. 2 * Bits /\ 1 - 1 = 0
        BY <1>1
      <4> QED
        BY <4>1, PowerFacts
    <3>3. Half(x) = longw(h \div 2, l \div 2 + u32(h * v))
      BY <3>1, <3>2 DEF Half, __lshrdi3, h, l, v
    <3>4. u32(h * v) = b * v
      <4>1. h * v = a * w + b * v
        <5>1. \A m, n \in Nat : (2 * m + n) * v = m * (2 * v) + n * v
          BY <1>1
        <5> QED
          BY <1>1, <1>5, <5>1
      <4>2. b * v \in 0 .. w - 1
        BY <1>1, <1>5
      <4>3. b * v = (a * w + b * v) % w
        <5>1. w \in Nat \ {0}
          BY <1>1
        <5> HIDE DEF a, b
        <5> DEFINE r == b * v
        <5>2. r \in 0 .. w - 1
          BY <4>2
        <5> HIDE DEF r
        <5>3. r = (a * w + r) % w
          BY <1>5, <5>1, <5>2, Quotient
        <5> QED
          BY <5>3 DEF r
      <4> QED
        BY <4>1, <4>3 DEF u32, w
    <3> QED
      BY <3>3, <3>4 DEF longw, w
  <2> QED
    BY <2>1, <2>2
<1> HIDE DEF a, b, c, d
<1>7. x = 2 * (a * w + (c + b * v)) + d
  <2>1. w * h = 2 * (a * w) + b * w
    <3>1. \A m, n \in Nat : w * (2 * m + n) = 2 * (m * w) + n * w
      BY <1>1
    <3> QED
      BY <1>5, <3>1
  <2>2. b * w = 2 * (b * v) /\ b * v \in Nat /\ a * w \in Nat
    BY <1>1, <1>5
  <2> QED
    BY <1>3, <1>5, <2>1, <2>2
<1> DEFINE y == a * w + (c + b * v)
<1>8. y \in Nat
  <2>1. a * w \in Nat /\ b * v \in Nat
    BY <1>1, <1>5
  <2> QED
    BY <1>5, <2>1
<1> HIDE DEF y
<1>9. x \div 2 = y
  BY <1>5, <1>7, <1>8 DEF y
<1> QED
  BY <1>6, <1>9 DEF y

\* The bit of a quotient.
LEMMA BitIs ==
  ASSUME NEW n \in 0 .. 2 * Bits - 1
  PROVE  Bit(n) = Power[n]
<1> DEFINE w == Power[Bits]
<1>1. Bits \in Nat \ {0} /\ w \in Nat /\ w >= 2 /\ 1 \in Nat
  BY Words
<1>2. lower(1) = 1 /\ higher(1) = 0
  <2>1. 1 \div w = 0 /\ 1 % w = 1
    <3> HIDE DEF w
    <3>1. 0 * w + 1 = 1 /\ 1 \in 0 .. w - 1 /\ w \in Nat \ {0}
      BY <1>1
    <3> QED
      BY <3>1, Quotient
  <2> QED
    BY <2>1 DEF lower, higher
<1>3. ASSUME NEW k \in 0 .. Bits - 1 PROVE Power[k] \in Nat \ {0} /\ u32(Power[k]) = Power[k]
  <2>1. /\ k \in Nat /\ Bits \in 0 .. 2 * Bits /\ k < Bits /\ k \in 0 .. 2 * Bits
    BY <1>1
  <2>2. Power[k] \in Nat \ {0}
    BY <2>1, PowerFacts
  <2>3. PICK c \in Nat \ {0} : w = 2 * (c * Power[k])
    BY <2>1, PowerMultiple
  <2> DEFINE pw == Power[k]
  <2> HIDE DEF w, pw
  <2>4. pw \in Nat \ {0} /\ w = 2 * (c * pw)
    BY <2>2, <2>3 DEF pw
  <2>5. pw <= c * pw /\ c * pw \in Nat
    <3>1. PICK e \in Nat : c = 1 + e
      BY c - 1 \in Nat
    <3>2. c * pw = pw + e * pw /\ e * pw \in Nat
      BY <2>4, <3>1
    <3> QED
      BY <2>4, <3>2
  <2>6. 0 * w + pw = pw /\ pw \in 0 .. w - 1 /\ w \in Nat \ {0}
    BY <1>1, <2>4, <2>5
  <2>7. pw = pw % w
    BY <2>6, Quotient
  <2> QED
    BY <2>2, <2>7 DEF u32, pw, w
<1>4. CASE n >= Bits
  <2>1. n - Bits \in 0 .. Bits - 1 /\ n - Bits \in Nat /\ (n - Bits) + Bits = n /\ n <= 2 * Bits
    BY <1>1, <1>4
  <2>2. Power[n] = Power[n - Bits] * w
    BY <1>1, <2>1, PowerSum
  <2>3. Bit(n) = longw(u32(1 * Power[n - Bits]), 0)
    BY <1>2, <1>4 DEF Bit, __ashldi3
  <2>4. Power[n - Bits] \in Nat /\ u32(Power[n - Bits]) = Power[n - Bits]
    BY <1>3, <2>1
  <2>5. 1 * Power[n - Bits] = Power[n - Bits]
    BY <2>4
  <2>6. \A m \in Nat : m * w + 0 = m * w
    BY <1>1
  <2> QED
    BY <2>2, <2>3, <2>4, <2>5, <2>6 DEF longw
<1>5. CASE n = 0
  <2>1. ~(0 >= Bits)
    BY <1>1
  <2> QED
    BY <1>5, <2>1, PowerFacts DEF Bit, __ashldi3
<1>6. CASE n # 0 /\ ~(n >= Bits)
  <2>1. n \in 0 .. Bits - 1 /\ Bits - n \in 1 .. 2 * Bits /\ (Bits - n) - 1 \in 0 .. 2 * Bits
    BY <1>1, <1>6
  <2>2. /\ Power[n] \in Nat /\ u32(Power[n]) = Power[n]
        /\ Power[Bits - n] = 2 * Power[(Bits - n) - 1] /\ Power[(Bits - n) - 1] \in Nat \ {0}
    BY <1>3, <2>1, PowerFacts
  <2>3. 1 \div Power[Bits - n] = 0
    <3> DEFINE pw == Power[Bits - n]
    <3>1. pw \in Nat /\ pw >= 2
      BY <2>2
    <3> HIDE DEF pw
    <3>2. 0 * pw + 1 = 1 /\ 1 \in 0 .. pw - 1 /\ pw \in Nat \ {0}
      BY <3>1
    <3>3. 0 = 1 \div pw
      BY <3>2, Quotient
    <3> QED
      BY <3>3 DEF pw
  <2>4. Bit(n) = longw(u32(0 * Power[n]) + 1 \div Power[Bits - n], u32(1 * Power[n]))
    BY <1>2, <1>6 DEF Bit, __ashldi3
  <2>5. 0 * Power[n] = 0 /\ 1 * Power[n] = Power[n]
    BY <2>2
  <2>6. u32(0) = 0
    BY <1>1 DEF u32
  <2>7. Bit(n) = (0 + 0) * w + Power[n]
    BY <2>2, <2>3, <2>4, <2>5, <2>6 DEF longw
  <2>8. (0 + 0) * w = 0
    BY <1>1
  <2> QED
    BY <2>2, <2>7, <2>8
<1> QED
  BY <1>1, <1>4, <1>5, <1>6

-----------------------------------------------------------------------------
(* The division                                                            *)

\* What the subtractions leave is smaller than the last multiple subtracted,
\* and the quotient has no bit below it.
Below(j) ==
  /\ j \in 0 .. 2 * Bits
  /\ dividend < den * Power[j]
  /\ \E q \in Nat : result = q * Power[j]
  /\ stage = "inner" => shifts < j

Dividing ==
  /\ den # 0 /\ ~(num <= MAX_32BIT_UINT)
  /\ result * den + dividend = num
  /\ \E j \in Nat : Below(j)
  /\ stage = "inner" => /\ locald = den * Power[shifts] /\ locald <= dividend
                        /\ limit = dividend \div 2

Divided ==
  /\ result = num \div den
  /\ rem = IF num <= MAX_32BIT_UINT /\ den > MAX_32BIT_UINT THEN den ELSE num % den

DivisionInv ==
  /\ DivTypeOK /\ num \in U64 /\ den \in U64 /\ divider = den
  /\ stage = "start" => dividend = num /\ result = 0
  /\ stage \in {"outer", "inner"} => Dividing
  /\ stage = "done" => Divided

\* The shifted divider: while it fits into the dividend, its bit is below the
\* quotient's, so that none is set twice and none is lost.
LEMMA ShiftBelow ==
  ASSUME den \in Nat \ {0}, NEW j \in 0 .. 2 * Bits, dividend < den * Power[j],
         NEW s \in 0 .. 2 * Bits, den * Power[s] <= dividend, dividend \in Nat
  PROVE  s < j
<1> SUFFICES ASSUME j <= s PROVE FALSE
  BY BitsAssumption
<1>1. Power[j] \in Nat \ {0} /\ Power[s] \in Nat \ {0}
  BY PowerFacts
<1>2. Power[j] <= Power[s]
  <2>1. CASE j = s
    BY <1>1, <2>1
  <2>2. CASE j # s
    <3>1. j < s /\ j \in Nat
      BY <2>2, BitsAssumption
    <3>2. PICK c \in Nat \ {0} : Power[s] = 2 * (c * Power[j])
      BY <3>1, PowerMultiple
    <3> DEFINE pw == Power[j]
    <3>3. PICK e \in Nat : c = 1 + e
      BY c - 1 \in Nat
    <3> HIDE DEF pw
    <3>4. pw \in Nat /\ Power[s] = 2 * (c * pw)
      BY <1>1, <3>2 DEF pw
    <3>5. c * pw = pw + e * pw /\ e * pw \in Nat
      BY <3>3, <3>4
    <3>6. pw <= Power[s]
      BY <3>4, <3>5
    <3> QED
      BY <3>6 DEF pw
  <2> QED
    BY <2>1, <2>2
<1>3. den * Power[j] <= den * Power[s] /\ den * Power[j] \in Nat /\ den * Power[s] \in Nat
  BY <1>1, <1>2, Scaled
<1> QED
  BY <1>3

LEMMA DivisionInitInv == DivInit => DivisionInv
<1> SUFFICES ASSUME DivInit PROVE DivisionInv
  OBVIOUS
<1>1. 0 \in U64 /\ 0 \in 0 .. 2 * Bits - 1
  <2>1. 2 * Bits \in 0 .. 2 * Bits /\ 0 \in 0 .. 2 * Bits - 1
    BY BitsAssumption
  <2>2. Power[2 * Bits] \in Nat \ {0}
    BY <2>1, PowerFacts
  <2> QED
    BY <2>1, <2>2 DEF U64
<1> QED
  BY <1>1 DEF DivInit, DivisionInv, DivTypeOK

\* One word by one word, or by two.
LEMMA ShortStep ==
  ASSUME DivisionInv, ShortByLong \/ ShortByShort
  PROVE  DivisionInv'
<1> DEFINE w == Power[Bits]
           ww == Power[2 * Bits]
<1>1. w \in Nat /\ w >= 2 /\ ww = w * w /\ ww \in Nat
  BY Words
<1>2. /\ num \in Nat /\ den \in Nat /\ divider = den /\ dividend = num
      /\ num < ww /\ den < ww /\ num <= w - 1 /\ stage' = "done"
      /\ UNCHANGED <<num, den, dividend, divider, locald, limit, shifts>>
  BY <1>1 DEF DivisionInv, U64, ShortByLong, ShortByShort, Short, MAX_32BIT_UINT
<1>3. num \in U64 /\ den \in U64 /\ 0 \in U64
  BY <1>1 DEF DivisionInv, U64
<1>4. CASE ShortByLong
  <2>1. result' = 0 /\ rem' = den /\ den > w - 1
    BY <1>2, <1>4 DEF ShortByLong, MAX_32BIT_UINT
  <2>2. 0 = num \div den
    <3> HIDE DEF w, ww
    <3>1. 0 * den + num = num /\ num \in 0 .. den - 1 /\ den \in Nat \ {0}
      BY <1>1, <1>2, <2>1
    <3> QED
      BY <3>1, Quotient
  <2>3. Divided'
    BY <1>2, <2>1, <2>2 DEF Divided, MAX_32BIT_UINT
  <2> QED
    BY <1>2, <1>3, <2>1, <2>3 DEF DivisionInv, DivTypeOK
<1>5. CASE ShortByShort
  <2>1. /\ den # 0 /\ den <= w - 1
        /\ result' = u32(num) \div u32(den) /\ rem' = u32(num) % u32(den)
    BY <1>2, <1>5 DEF ShortByShort, MAX_32BIT_UINT
  <2>2. u32(num) = num /\ u32(den) = den
    <3> HIDE DEF w
    <3>1. \A x \in 0 .. w - 1 : x % w = x
      BY <1>1
    <3> QED
      BY <1>1, <1>2, <2>1, <3>1 DEF u32, w
  <2>3. result' = num \div den /\ rem' = num % den
    BY <2>1, <2>2
  <2>4. ~(den > w - 1)
    BY <1>1, <1>2, <2>1
  <2>5. Divided'
    BY <1>2, <2>3, <2>4 DEF Divided, MAX_32BIT_UINT
  <2>6. result' \in U64 /\ rem' \in U64
    <3> DEFINE q == num \div den
               r == num % den
    <3>1. q \in Nat /\ r \in 0 .. den - 1 /\ num = den * q + r
      BY <1>2, <2>1
    <3> HIDE DEF q, r
    <3>2. q <= den * q /\ den * q \in Nat
      BY <1>2, <2>1, <3>1, Scaled
    <3>3. q \in 0 .. ww - 1 /\ r \in 0 .. ww - 1
      <4> HIDE DEF ww
      <4> QED
        BY <1>1, <1>2, <3>1, <3>2
    <3> QED
      BY <2>3, <3>3 DEF U64, q, r
  <2> QED
    BY <1>2, <1>3, <2>5, <2>6 DEF DivisionInv, DivTypeOK
<1> QED
  BY <1>4, <1>5

\* The first pass of the outer loop: nothing has been subtracted.
LEMMA LongStep ==
  ASSUME DivisionInv, Long
  PROVE  DivisionInv'
<1> DEFINE ww == Power[2 * Bits]
<1>1. ww \in Nat /\ 2 * Bits \in 0 .. 2 * Bits /\ 2 * Bits \in Nat
  BY Words
<1>2. /\ num \in Nat /\ den \in Nat /\ dividend = num /\ result = 0 /\ den # 0 /\ num < ww
      /\ stage' = "outer" /\ ~(num <= MAX_32BIT_UINT)
      /\ UNCHANGED <<num, den, dividend, divider, result, locald, limit, shifts, rem>>
  BY <1>1 DEF DivisionInv, U64, Long, Short
<1>3. num < den * ww
  <2> HIDE DEF ww
  <2>1. PICK e \in Nat : den = 1 + e
    BY <1>2, den - 1 \in Nat
  <2>2. den * ww = ww + e * ww /\ e * ww \in Nat
    BY <1>1, <2>1
  <2> QED
    BY <1>1, <1>2, <2>2
<1>4. result = 0 * ww /\ result * den + dividend = num
  BY <1>1, <1>2
<1>5. ASSUME NEW n, n = 2 * Bits PROVE Below(n)'
  BY <1>1, <1>2, <1>3, <1>4, <1>5 DEF Below
<1>6. Dividing'
  BY <1>1, <1>2, <1>4, <1>5 DEF Dividing, MAX_32BIT_UINT
<1> QED
  BY <1>2, <1>6 DEF DivisionInv, DivTypeOK

LEMMA OuterStep ==
  ASSUME DivisionInv, Outer
  PROVE  DivisionInv'
<1>1. /\ UNCHANGED <<num, den, dividend, divider, result, rem>> /\ divider = den
      /\ den <= dividend /\ stage = "outer" /\ stage' = "inner"
      /\ locald' = den /\ limit' = Half(dividend) /\ shifts' = 0
      /\ Dividing /\ DivTypeOK /\ dividend \in U64 /\ den \in U64
  BY DEF DivisionInv, DivTypeOK, Outer
<1>2. /\ dividend \in Nat /\ den \in Nat \ {0} /\ Power[2 * Bits] \in Nat
      /\ Power[0] = 1 /\ 0 \in 0 .. 2 * Bits - 1 /\ 0 \in 0 .. 2 * Bits
  BY <1>1, Words, PowerFacts DEF U64, Dividing
<1>3. limit' = dividend \div 2 /\ limit' \in U64
  <2>1. Half(dividend) = dividend \div 2
    BY <1>1, HalfIs
  <2>2. dividend \div 2 \in U64
    BY <1>1, <1>2 DEF U64
  <2> QED
    BY <1>1, <2>1, <2>2
<1>4. PICK j \in Nat : Below(j)
  BY <1>1 DEF Dividing, MAX_32BIT_UINT
<1>5. locald' = den * Power[0] /\ den * Power[0] <= dividend
  BY <1>1, <1>2
<1>6. 0 < j
  BY <1>2, <1>4, <1>5, ShiftBelow DEF Below
<1>7. Below(j)'
  BY <1>1, <1>4, <1>6 DEF Below
<1>8. Dividing'
  BY <1>1, <1>3, <1>5, <1>7 DEF Dividing, MAX_32BIT_UINT
<1> QED
  BY <1>1, <1>2, <1>3, <1>8 DEF DivisionInv, DivTypeOK

LEMMA InnerStep ==
  ASSUME DivisionInv, Inner
  PROVE  DivisionInv'
<1>1. /\ UNCHANGED <<num, den, dividend, divider, result, limit, rem, stage>> /\ divider = den
      /\ stage = "inner" /\ locald <= limit
      /\ shifts' = shifts + 1 /\ locald' = u64(locald + locald)
      /\ Dividing /\ DivTypeOK /\ dividend \in U64 /\ locald \in U64
      /\ shifts \in 0 .. 2 * Bits - 1
  BY DEF DivisionInv, DivTypeOK, Inner
<1>2. PICK j \in Nat : Below(j)
  BY <1>1 DEF Dividing, MAX_32BIT_UINT
<1>3. /\ 2 * Bits \in Nat /\ j \in 0 .. 2 * Bits /\ shifts < j
      /\ shifts + 1 \in 0 .. 2 * Bits /\ shifts \in 0 .. 2 * Bits
      /\ shifts + 1 \in 1 .. 2 * Bits /\ (shifts + 1) - 1 = shifts
  BY <1>1, <1>2, Words DEF Below
<1>4. /\ dividend \in Nat /\ locald \in Nat /\ den \in Nat \ {0} /\ Power[2 * Bits] \in Nat
      /\ dividend < Power[2 * Bits]
      /\ locald = den * Power[shifts] /\ limit = dividend \div 2
      /\ Power[shifts + 1] = 2 * Power[shifts] /\ Power[shifts] \in Nat
  BY <1>1, <1>3, Words, PowerFacts DEF U64, Dividing, DivisionInv
<1>5. locald + locald <= dividend
  BY <1>1, <1>4
<1>6. locald' = locald + locald
  <2>1. locald + locald \in Nat /\ locald + locald < Power[2 * Bits]
    BY <1>4, <1>5
  <2>2. \A x \in Nat : x < Power[2 * Bits] => x % Power[2 * Bits] = x
    BY <1>4
  <2> QED
    BY <1>1, <2>1, <2>2 DEF u64
<1>7. locald' = den * Power[shifts']
  <2>1. \A x, y \in Nat : x * y + x * y = x * (2 * y)
    OBVIOUS
  <2> QED
    BY <1>1, <1>4, <1>6, <2>1
<1>8. shifts' < j
  <2>1. den * Power[shifts + 1] <= dividend
    BY <1>1, <1>5, <1>6, <1>7
  <2> QED
    BY <1>1, <1>2, <1>3, <1>4, <2>1, ShiftBelow DEF Below
<1>9. Below(j)'
  BY <1>1, <1>2, <1>8 DEF Below
<1>10. Dividing'
  BY <1>1, <1>4, <1>5, <1>6, <1>7, <1>9 DEF Dividing, MAX_32BIT_UINT
<1>11. locald' \in U64 /\ shifts' \in 0 .. 2 * Bits - 1
  BY <1>1, <1>3, <1>4, <1>5, <1>6, <1>8 DEF U64
<1> QED
  BY <1>1, <1>10, <1>11 DEF DivisionInv, DivTypeOK

\* No bit of the quotient below the last one is set.
LEMMA BitClear ==
  ASSUME NEW j \in Nat, Below(j), stage = "inner", shifts \in Nat
  PROVE  (result \div Power[shifts]) % 2 = 0 /\ \E q \in Nat : result = q * Power[shifts]
<1>1. j \in 0 .. 2 * Bits /\ shifts < j /\ shifts \in 0 .. 2 * Bits
  BY Words DEF Below
<1>2. PICK q \in Nat : result = q * Power[j]
  BY DEF Below
<1>3. PICK c \in Nat \ {0} : Power[j] = 2 * (c * Power[shifts])
  BY <1>1, PowerMultiple
<1> DEFINE pw == Power[shifts]
           m == q * c
<1>4. pw \in Nat \ {0} /\ m \in Nat
  BY <1>1, PowerFacts
<1>5. result = (2 * m) * pw
  <2> HIDE DEF pw
  <2>1. \A x \in Nat : \A y \in Nat : \A z \in Nat : x * (2 * (y * z)) = (2 * (x * y)) * z
    <3> TAKE x \in Nat
    <3> TAKE y \in Nat
    <3> TAKE z \in Nat
    <3>1. x * (2 * (y * z)) = 2 * (x * (y * z)) /\ x * (y * z) = (x * y) * z
      OBVIOUS
    <3>2. (2 * (x * y)) * z = 2 * ((x * y) * z)
      OBVIOUS
    <3> QED
      BY <3>1, <3>2
  <2> QED
    BY <1>2, <1>3, <1>4, <2>1 DEF pw
<1> HIDE DEF pw, m
<1>6. 2 * m = result \div pw
  <2>1. (2 * m) * pw + 0 = result /\ 0 \in 0 .. pw - 1 /\ 2 * m \in Nat
    BY <1>4, <1>5
  <2> QED
    BY <1>4, <2>1, Quotient
<1>7. (2 * m) % 2 = 0
  BY <1>4
<1> QED
  BY <1>4, <1>5, <1>6, <1>7 DEF pw

LEMMA SubtractStep ==
  ASSUME DivisionInv, Subtract
  PROVE  DivisionInv'
<1>1. /\ UNCHANGED <<num, den, divider, locald, limit, shifts, rem>> /\ divider = den
      /\ stage = "inner" /\ stage' = "outer" /\ ~(locald <= limit)
      /\ result' = With(result, Bit(shifts)) /\ dividend' = Left(dividend, locald)
      /\ Dividing /\ DivTypeOK /\ dividend \in U64 /\ locald \in U64 /\ result \in U64
      /\ num \in U64 /\ den \in U64 /\ shifts \in 0 .. 2 * Bits - 1
  BY DEF DivisionInv, DivTypeOK, Subtract
<1> DEFINE pw == Power[shifts]
           ww == Power[2 * Bits]
<1>2. /\ 2 * Bits \in Nat /\ shifts \in 0 .. 2 * Bits /\ shifts \in Nat
      /\ pw \in Nat \ {0} /\ ww \in Nat
  BY <1>1, Words, PowerFacts
<1>3. /\ dividend \in Nat /\ result \in Nat /\ num \in Nat /\ num < ww /\ dividend < ww
      /\ den \in Nat \ {0} /\ locald = den * pw /\ locald <= dividend /\ locald \in Nat
      /\ limit = dividend \div 2 /\ result * den + dividend = num
  BY <1>1, <1>2 DEF U64, Dividing
<1>4. PICK j \in Nat : Below(j)
  BY <1>1 DEF Dividing, MAX_32BIT_UINT
<1>5. (result \div pw) % 2 = 0 /\ \E q \in Nat : result = q * pw
  BY <1>1, <1>2, <1>4, BitClear
<1>6. result' = result + pw
  BY <1>1, <1>5, BitIs DEF With
<1>7. dividend' = dividend - locald
  <2>1. dividend - locald \in Nat /\ dividend - locald < ww
    BY <1>2, <1>3
  <2>2. \A x \in Nat : x < ww => x % ww = x
    BY <1>2
  <2> QED
    BY <1>1, <2>1, <2>2 DEF Left, u64
<1> HIDE DEF pw, ww
<1>8. dividend' < den * pw /\ dividend' \in Nat
  BY <1>1, <1>3, <1>7
<1>9. \E q \in Nat : result' = q * pw
  <2>1. PICK q \in Nat : result = q * pw
    BY <1>5
  <2>2. result' = (q + 1) * pw
    BY <1>2, <1>6, <2>1
  <2> QED
    BY <2>2
<1>10. result' * den + dividend' = num
  <2>1. (result + pw) * den = result * den + den * pw /\ result * den \in Nat /\ den * pw \in Nat
    BY <1>2, <1>3
  <2> DEFINE t == result * den
  <2>2. result' * den = (result + pw) * den
    BY <1>6
  <2>3. result' * den = t + locald
    BY <1>3, <2>1, <2>2
  <2>4. t \in Nat /\ t + dividend = num
    BY <1>3, <2>1
  <2>5. dividend \in Nat /\ locald \in Nat
    BY <1>3
  <2> HIDE DEF t
  <2>6. (t + locald) + (dividend - locald) = t + dividend
    BY <2>4, <2>5
  <2> QED
    BY <1>7, <2>3, <2>4, <2>6
<1>11. ASSUME NEW n, n = shifts PROVE Below(n)'
  BY <1>1, <1>2, <1>8, <1>9, <1>11 DEF Below, pw
<1>12. Dividing'
  BY <1>1, <1>2, <1>3, <1>10, <1>11 DEF Dividing, MAX_32BIT_UINT
<1>13. result' \in U64 /\ dividend' \in U64
  <2>1. result' \in Nat /\ result' <= result' * den /\ result' * den \in Nat
    <3>1. result' \in Nat
      BY <1>2, <1>3, <1>6
    <3>2. PICK e \in Nat : den = 1 + e
      BY <1>3, den - 1 \in Nat
    <3>3. \A x \in Nat : x * (1 + e) = x + x * e /\ x * e \in Nat
      BY <3>2
    <3> DEFINE r == result'
    <3> HIDE DEF r
    <3>4. r * den = r + r * e /\ r * e \in Nat /\ r \in Nat
      BY <3>1, <3>2, <3>3 DEF r
    <3>5. r <= r * den /\ r * den \in Nat
      BY <3>4
    <3> QED
      BY <3>4, <3>5 DEF r
  <2> DEFINE t == result' * den
  <2>2. t \in Nat /\ result' \in Nat /\ result' <= t /\ t + dividend' = num
    <3>1. t + dividend' = num
      BY <1>10
    <3> QED
      BY <2>1, <3>1
  <2>3. num \in Nat /\ num < ww /\ ww \in Nat /\ dividend' \in Nat
    BY <1>2, <1>3, <1>8
  <2> HIDE DEF t
  <2>4. result' < ww /\ dividend' < ww
    <3>1. \A a, b, c, n, w \in Nat :
             a <= c /\ c + b = n /\ n < w => a < w /\ b < w
      OBVIOUS
    <3> QED
      BY <2>2, <2>3, <3>1
  <2>5. U64 = 0 .. ww - 1
    BY DEF U64, ww
  <2>6. result' \in Nat
    BY <2>2
  <2>7. \A x \in Nat : x < ww => x \in 0 .. ww - 1
    BY <2>3
  <2>8. result' \in 0 .. ww - 1
    BY <2>4, <2>6, <2>7
  <2>9. dividend' \in 0 .. ww - 1
    BY <2>3, <2>4, <2>7
  <2> QED
    BY <2>5, <2>8, <2>9
<1> QED
  BY <1>1, <1>12, <1>13 DEF DivisionInv, DivTypeOK

LEMMA OuterDoneStep ==
  ASSUME DivisionInv, OuterDone
  PROVE  DivisionInv'
<1>1. /\ UNCHANGED <<num, den, dividend, divider, result, locald, limit, shifts>>
      /\ stage = "outer" /\ stage' = "done" /\ rem' = dividend /\ ~(den <= dividend)
      /\ Dividing /\ DivTypeOK /\ dividend \in U64 /\ result \in U64 /\ num \in U64 /\ den \in U64
  BY DEF DivisionInv, DivTypeOK, OuterDone
<1>2. /\ dividend \in Nat /\ result \in Nat /\ num \in Nat /\ den \in Nat \ {0}
      /\ result * den + dividend = num /\ dividend \in 0 .. den - 1
  BY <1>1, Words DEF U64, Dividing
<1>3. result = num \div den /\ dividend = num % den
  BY <1>2, Quotient
<1>4. ~(num <= MAX_32BIT_UINT)
  BY <1>1 DEF Dividing, MAX_32BIT_UINT
<1>5. Divided'
  BY <1>1, <1>3, <1>4 DEF Divided, MAX_32BIT_UINT
<1> QED
  BY <1>1, <1>5 DEF DivisionInv, DivTypeOK

LEMMA DivisionStep == DivisionInv /\ [DivNext]_divVars => DivisionInv'
<1> SUFFICES ASSUME DivisionInv, [DivNext]_divVars PROVE DivisionInv'
  OBVIOUS
<1>1. CASE DivideByZero
  BY <1>1 DEF DivideByZero, DivisionInv, DivTypeOK
<1>2. CASE UNCHANGED divVars
  BY <1>2 DEF divVars, DivisionInv, DivTypeOK, Dividing, Divided, Below, MAX_32BIT_UINT
<1> QED
  BY <1>1, <1>2, ShortStep, LongStep, OuterStep, InnerStep, SubtractStep, OuterDoneStep
  DEF DivNext

LEMMA DivisionIsExact == DivisionInv => Exact
<1> SUFFICES ASSUME DivisionInv PROVE Exact
  OBVIOUS
<1>1. ASSUME stage = "inner" PROVE (result \div Power[shifts]) % 2 = 0
  <2>1. PICK j \in Nat : Below(j)
    BY <1>1 DEF DivisionInv, Dividing
  <2>2. shifts \in Nat
    BY Words DEF DivisionInv, DivTypeOK
  <2> QED
    BY <1>1, <2>1, <2>2, BitClear
<1> QED
  BY <1>1 DEF Exact, DivisionInv, Dividing, Divided

\* For words of any number of bits and all operands: no doubling and no
\* difference overflows, no bit of the quotient is set twice, and quotient and
\* remainder are those of the operands, the remainder of a short dividend by a
\* long divider excepted.
THEOREM Division_Exact == DivSpec => []Exact
<1> QED
  BY DivisionInitInv, DivisionStep, DivisionIsExact, PTL DEF DivSpec
=============================================================================
