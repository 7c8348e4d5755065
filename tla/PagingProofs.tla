---------------------------- MODULE PagingProofs ----------------------------
(***************************************************************************)
(* The frame stack never holds a frame twice, the tables stay a tree whose *)
(* nodes are frames of their own, every address space shares them, and the *)
(* kernel's walk through the recursive window agrees with the processor's, *)
(* for every memory map, every size of tables and every order of calls.    *)
(***************************************************************************)
EXTENDS AddressSpace, FiniteSetTheorems, SequenceTheorems, TLAPS

-----------------------------------------------------------------------------
(* The frame stack                                                         *)

\* Each frame on the stack is one of a usable region that the loop has been
\* through, or is in and behind.
Collected ==
  \A i \in 0 .. esp - 1 : \E r \in DOMAIN MemoryMap :
    /\ Usable(r) /\ stack[i] \in RegionFrames(r)
    /\ phase = "mmap" => r <= region /\ (r = region => stack[i] < addr)

StackTyped ==
  /\ stack_size \in Nat /\ esp \in 0 .. stack_size
  /\ stack \in [0 .. stack_size - 1 -> 0 .. NFrames - 1]

Filling ==
  phase = "mmap" =>
    /\ esp = stack_size
    /\ region \in 1 .. Len(MemoryMap) + 1
    /\ region <= Len(MemoryMap) =>
         \E k \in Nat : addr = MemoryMap[region].start + k * FrameSize

PmmInv == StackTyped /\ Collected /\ Filling /\ FreeDistinct

\* What the assumptions say of a region.
LEMMA RegionFacts ==
  ASSUME NEW r \in DOMAIN MemoryMap
  PROVE  /\ MemoryMap[r].start \in Nat /\ MemoryMap[r].end \in Nat
         /\ r \in 1 .. Len(MemoryMap) /\ Len(MemoryMap) \in Nat
         /\ RegionFrames(r) \subseteq Nat
         /\ Usable(r) => RegionFrames(r) \subseteq 0 .. NFrames - 1
         /\ \A f \in RegionFrames(r) :
              f > LowLimit /\ MemoryMap[r].start <= f /\ f <= MemoryMap[r].end
<1>2. r \in 1 .. Len(MemoryMap) /\ Len(MemoryMap) \in Nat
  BY PmmAssumption, LenProperties
<1>1. MemoryMap[r] \in [start : Nat, end : Nat, type : Nat]
  BY <1>2, PmmAssumption, ElementOfSeq
<1>3. MemoryMap[r].start \in Nat /\ MemoryMap[r].end \in Nat
  BY <1>1
<1>4. Usable(r) => MemoryMap[r].end < NFrames
  BY LayoutAssumption
<1> QED
  BY <1>2, <1>3, <1>4, PagingAssumption, SMTT(30) DEF RegionFrames

LEMMA PmmInitInv == PmmInit => PmmInv
<1> SUFFICES ASSUME PmmInit PROVE PmmInv
  OBVIOUS
<1>1. StackTyped /\ Collected /\ FreeDistinct
  BY DEF PmmInit, StackTyped, Collected, FreeDistinct
<1>2. Filling
  <2>1. Len(MemoryMap) \in Nat
    BY PmmAssumption
  <2>2. ASSUME 1 <= Len(MemoryMap)
        PROVE  \E k \in Nat : addr = MemoryMap[1].start + k * FrameSize
    <3>1. MemoryMap # <<>> /\ 1 \in DOMAIN MemoryMap
      BY <2>2, PmmAssumption
    <3>2. addr = MemoryMap[1].start /\ MemoryMap[1].start \in Nat
      BY <3>1, RegionFacts DEF PmmInit
    <3>3. addr = MemoryMap[1].start + 0 * FrameSize
      BY <3>2, PmmAssumption
    <3> QED
      BY <3>3
  <2> QED
    BY <2>1, <2>2 DEF PmmInit, Filling
<1> QED
  BY <1>1, <1>2 DEF PmmInv

\* The frame the inner loop is at belongs to the region it is in.
LEMMA LoopFrame ==
  ASSUME PmmInv, phase = "mmap", region <= Len(MemoryMap), InRegion
  PROVE  /\ region \in DOMAIN MemoryMap
         /\ addr \in Nat
         /\ AboveLimit => addr \in RegionFrames(region)
         /\ \E k \in Nat : addr + FrameSize = MemoryMap[region].start + k * FrameSize
<1>1. region \in DOMAIN MemoryMap
  BY PmmAssumption DEF PmmInv, Filling
<1>2. MemoryMap[region].start \in Nat /\ MemoryMap[region].end \in Nat
  BY <1>1, RegionFacts
<1>3. PICK k \in Nat : addr = MemoryMap[region].start + k * FrameSize
  BY DEF PmmInv, Filling
<1>4. FrameSize \in Nat /\ FrameSize >= 1
  BY PmmAssumption
<1>5. k * FrameSize \in Nat /\ k * FrameSize >= k
  BY <1>3, <1>4
<1>6. (k + 1) * FrameSize = k * FrameSize + FrameSize
  BY <1>3, <1>4
<1>7. addr \in Nat /\ k \in 0 .. addr
  BY <1>2, <1>3, <1>5
<1>8. addr + FrameSize = MemoryMap[region].start + (k + 1) * FrameSize
  BY <1>2, <1>3, <1>4, <1>5, <1>6
<1>9. AboveLimit => addr \in RegionFrames(region)
  BY <1>2, <1>3, <1>5, <1>7 DEF AboveLimit, RegionFrames, InRegion
<1> QED
  BY <1>1, <1>7, <1>8, <1>9

LEMMA MarkFrameInv == RegionsApart /\ PmmInv /\ MarkFrame => PmmInv'
<1> SUFFICES ASSUME RegionsApart, PmmInv, MarkFrame PROVE PmmInv'
  OBVIOUS
<1>1. /\ region \in DOMAIN MemoryMap /\ addr \in Nat /\ Usable(region)
      /\ AboveLimit => addr \in RegionFrames(region)
      /\ \E k \in Nat : addr + FrameSize = MemoryMap[region].start + k * FrameSize
  BY LoopFrame DEF MarkFrame
<1>2. /\ phase = "mmap" /\ phase' = phase /\ region' = region
      /\ addr' = addr + FrameSize /\ FrameSize \in Nat \ {0}
  BY PmmAssumption DEF MarkFrame
<1>3. CASE ~AboveLimit
  <2>1. UNCHANGED <<stack, esp, stack_size>>
    BY <1>3 DEF MarkFrame
  <2>2. Collected'
    <3> SUFFICES ASSUME NEW i \in 0 .. esp - 1
                 PROVE \E r \in DOMAIN MemoryMap :
                         /\ Usable(r) /\ stack[i] \in RegionFrames(r)
                         /\ r <= region /\ (r = region => stack[i] < addr + FrameSize)
      BY <2>1, <1>2 DEF Collected
    <3>1. PICK r \in DOMAIN MemoryMap :
            /\ Usable(r) /\ stack[i] \in RegionFrames(r)
            /\ r <= region /\ (r = region => stack[i] < addr)
      BY <1>2 DEF PmmInv, Collected
    <3>2. stack[i] \in Nat
      BY <3>1, RegionFacts
    <3> QED
      BY <3>1, <3>2, <1>1, <1>2
  <2> QED
    BY <2>1, <2>2, <1>1, <1>2 DEF PmmInv, StackTyped, Filling, FreeDistinct
<1>4. CASE AboveLimit
  <2>1. /\ stack' = Stored(addr) /\ esp' = esp + 1 /\ stack_size' = stack_size + 1
    BY <1>4 DEF MarkFrame, pmm_mark_frame
  <2>2. /\ esp = stack_size /\ stack_size \in Nat
        /\ DOMAIN stack = 0 .. stack_size - 1
        /\ \A i \in 0 .. esp - 1 : stack[i] \in 0 .. NFrames - 1
    BY <1>2 DEF PmmInv, Filling, StackTyped
  <2>3. /\ stack' = [i \in 0 .. esp |-> IF i = esp THEN addr ELSE stack[i]]
    <3>1. 0 .. esp = (0 .. esp - 1) \cup {esp}
      BY <2>2
    <3> QED
      BY <2>1, <2>2, <3>1 DEF Stored
  <2>4. addr \in RegionFrames(region) /\ addr \in 0 .. NFrames - 1
    BY <1>1, <1>4, RegionFacts
  <2>5. StackTyped'
    BY <2>1, <2>2, <2>3, <2>4 DEF StackTyped
  <2>6. Collected'
    <3> SUFFICES ASSUME NEW i \in 0 .. esp
                 PROVE \E r \in DOMAIN MemoryMap :
                         /\ Usable(r) /\ stack'[i] \in RegionFrames(r)
                         /\ r <= region /\ (r = region => stack'[i] < addr + FrameSize)
      BY <2>1, <2>2, <1>2 DEF Collected
    <3>1. CASE i = esp
      <4>1. stack'[i] = addr
        BY <3>1, <2>3
      <4>2. region \in Nat
        BY <1>1, RegionFacts
      <4> QED
        BY <4>1, <4>2, <2>4, <1>1, <1>2
    <3>2. CASE i # esp
      <4>1. i \in 0 .. esp - 1 /\ stack'[i] = stack[i]
        BY <3>2, <2>2, <2>3
      <4>2. PICK r \in DOMAIN MemoryMap :
              /\ Usable(r) /\ stack[i] \in RegionFrames(r)
              /\ r <= region /\ (r = region => stack[i] < addr)
        BY <1>2, <4>1 DEF PmmInv, Collected
      <4>3. stack[i] \in Nat
        BY <4>2, RegionFacts
      <4> QED
        BY <4>1, <4>2, <4>3, <1>1, <1>2
    <3> QED
      BY <3>1, <3>2
  <2>7. \A i \in 0 .. esp - 1 : stack[i] # addr
    <3> SUFFICES ASSUME NEW i \in 0 .. esp - 1, stack[i] = addr PROVE FALSE
      OBVIOUS
    <3>1. PICK r \in DOMAIN MemoryMap :
            /\ Usable(r) /\ stack[i] \in RegionFrames(r)
            /\ r <= region /\ (r = region => stack[i] < addr)
      BY <1>2 DEF PmmInv, Collected
    <3>2. r # region
      BY <3>1, <1>1
    <3> QED
      BY <3>1, <3>2, <1>1, <2>4 DEF RegionsApart
  <2>8. FreeDistinct'
    BY <2>1, <2>2, <2>3, <2>7 DEF PmmInv, FreeDistinct
  <2>9. Filling'
    BY <2>1, <2>2, <1>1, <1>2 DEF PmmInv, Filling
  <2> QED
    BY <2>5, <2>6, <2>8, <2>9 DEF PmmInv
<1> QED
  BY <1>3, <1>4

LEMMA NextRegionInv == PmmInv /\ NextRegion => PmmInv'
<1> SUFFICES ASSUME PmmInv, NextRegion PROVE PmmInv'
  OBVIOUS
<1>1. /\ phase = "mmap" /\ phase' = phase /\ region' = region + 1
      /\ UNCHANGED <<stack, esp, stack_size>>
      /\ region \in 1 .. Len(MemoryMap) /\ Len(MemoryMap) \in Nat
  BY PmmAssumption DEF NextRegion, PmmInv, Filling
<1>2. StackTyped' /\ FreeDistinct'
  BY <1>1 DEF PmmInv, StackTyped, FreeDistinct
<1>3. Collected'
  <2> SUFFICES ASSUME NEW i \in 0 .. esp - 1
               PROVE \E r \in DOMAIN MemoryMap :
                       /\ Usable(r) /\ stack[i] \in RegionFrames(r)
                       /\ r <= region + 1 /\ (r = region + 1 => stack[i] < addr')
    BY <1>1 DEF Collected
  <2>1. PICK r \in DOMAIN MemoryMap :
          Usable(r) /\ stack[i] \in RegionFrames(r) /\ r <= region
    BY <1>1 DEF PmmInv, Collected
  <2>2. r \in Nat
    BY <2>1, RegionFacts
  <2> QED
    BY <1>1, <2>1, <2>2
<1>4. Filling'
  <2>1. esp = stack_size /\ region + 1 \in 1 .. Len(MemoryMap) + 1
    BY <1>1 DEF PmmInv, Filling
  <2>2. ASSUME region + 1 <= Len(MemoryMap)
        PROVE  \E k \in Nat : addr' = MemoryMap[region + 1].start + k * FrameSize
    <3>1. addr' = MemoryMap[region + 1].start
      BY <2>2, <1>1 DEF NextRegion
    <3>2. region + 1 \in DOMAIN MemoryMap
      BY <2>2, <1>1, PmmAssumption
    <3>3. addr' = MemoryMap[region + 1].start + 0 * FrameSize
      BY <3>1, <3>2, RegionFacts, PmmAssumption
    <3> QED
      BY <3>3
  <2> QED
    BY <2>1, <2>2, <1>1 DEF Filling
<1> QED
  BY <1>2, <1>3, <1>4 DEF PmmInv

LEMMA MapDoneInv == PmmInv /\ MapDone => PmmInv'
  BY DEF PmmInv, MapDone, pmmVars, StackTyped, Collected, Filling, FreeDistinct

\* After the memory map, frames are only popped.
LEMMA LowerIndices ==
  ASSUME NEW d \in Nat, NEW e \in Nat, d <= e
  PROVE  \A i \in 0 .. d - 1 : i \in 0 .. e - 1
  OBVIOUS

LEMMA PoppedInv ==
  ASSUME PmmInv, phase # "mmap", phase' # "mmap",
         UNCHANGED <<stack, stack_size>>, esp' \in 0 .. esp
  PROVE  PmmInv'
<1>1. StackTyped'
  BY DEF PmmInv, StackTyped
<1>0. esp \in Nat /\ esp' \in Nat /\ esp' <= esp
  BY DEF PmmInv, StackTyped
<1>2. \A i \in 0 .. esp' - 1 : i \in 0 .. esp - 1
  BY <1>0, LowerIndices
<1>3. Collected' /\ FreeDistinct'
  BY <1>2 DEF PmmInv, Collected, FreeDistinct
<1>4. Filling'
  BY DEF Filling
<1> QED
  BY <1>1, <1>3, <1>4 DEF PmmInv

LEMMA FramesAbove == PmmInv => FreeAbove
<1> SUFFICES ASSUME PmmInv, NEW f \in Free PROVE f > LowLimit
  BY DEF FreeAbove
<1>1. PICK r \in DOMAIN MemoryMap : f \in RegionFrames(r)
  BY DEF PmmInv, Collected, Free
<1> QED
  BY <1>1, RegionFacts

-----------------------------------------------------------------------------
(* The tree of tables.  Node(m, l, v) is what the walk for page v meets at  *)
(* level l of the kernel's hierarchy in memory m: the PML4, three tables,   *)
(* and at level 5 the page's frame.                                         *)

Frames == 0 .. NFrames - 1
Entries == [p : BOOLEAN, to : Frames, user : BOOLEAN]
Memories == [Frames -> [Idx -> Entries]]

Node(m, l, v) ==
  CASE l = 1 -> PML4
    [] l = 2 -> Descend(m, PML4, v[1])
    [] l = 3 -> Descend(m, Descend(m, PML4, v[1]), v[2])
    [] l = 4 -> Descend(m, Descend(m, Descend(m, PML4, v[1]), v[2]), v[3])
    [] OTHER -> Walk(m, PML4, v)

\* The walks for v and w are the same down to level l.
Agree(l, v, w) ==
  /\ l > 1 => v[1] = w[1]
  /\ l > 2 => v[2] = w[2]
  /\ l > 3 => v[3] = w[3]
  /\ l > 4 => v[4] = w[4]

LEMMA ConstantFacts ==
  /\ R \in Nat /\ R >= 2 /\ rec \in Idx /\ 0 \in Idx /\ rec # 0
  /\ NFrames \in Nat /\ PML4 \in Frames /\ PDP \in Frames /\ PD \in Frames
  /\ Device \in Frames /\ NoFrame \notin Frames
BY PagingAssumption DEF Idx, rec, Frames, NoFrame

LEMMA PageFacts ==
  ASSUME NEW v \in Pages
  PROVE  /\ v = <<v[1], v[2], v[3], v[4]>>
         /\ v[1] \in Idx /\ v[2] \in Idx /\ v[3] \in Idx /\ v[4] \in Idx
BY DEF Pages

LEMMA AgreeFacts ==
  ASSUME NEW v \in Pages, NEW w \in Pages
  PROVE  /\ Agree(1, v, w)
         /\ Agree(2, v, w) <=> v[1] = w[1]
         /\ Agree(3, v, w) <=> v[1] = w[1] /\ v[2] = w[2]
         /\ Agree(4, v, w) <=> v[1] = w[1] /\ v[2] = w[2] /\ v[3] = w[3]
         /\ Agree(5, v, w) <=> v = w
<1>1. /\ Agree(1, v, w)
      /\ Agree(2, v, w) <=> v[1] = w[1]
      /\ Agree(3, v, w) <=> v[1] = w[1] /\ v[2] = w[2]
      /\ Agree(4, v, w) <=> v[1] = w[1] /\ v[2] = w[2] /\ v[3] = w[3]
      /\ Agree(5, v, w) <=> v[1] = w[1] /\ v[2] = w[2] /\ v[3] = w[3] /\ v[4] = w[4]
  BY DEF Agree
<1>2. v = <<v[1], v[2], v[3], v[4]>> /\ w = <<w[1], w[2], w[3], w[4]>>
  BY PageFacts
<1> QED
  BY <1>1, <1>2

LEMMA NodeFacts ==
  ASSUME NEW m, NEW v
  PROVE  /\ Node(m, 1, v) = PML4
         /\ Node(m, 2, v) = Descend(m, PML4, v[1])
         /\ Node(m, 3, v) = Descend(m, Node(m, 2, v), v[2])
         /\ Node(m, 4, v) = Descend(m, Node(m, 3, v), v[3])
         /\ Node(m, 5, v) = Descend(m, Node(m, 4, v), v[4])
         /\ Node(m, 5, v) = Walk(m, PML4, v)
BY DEF Node, Walk

LEMMA DescendFacts ==
  ASSUME NEW m \in Memories, NEW f \in Frames \cup {NoFrame}, NEW i \in Idx
  PROVE  /\ Descend(m, f, i) \in Frames \cup {NoFrame}
         /\ f = NoFrame => Descend(m, f, i) = NoFrame
         /\ f # NoFrame /\ m[f][i].p => Descend(m, f, i) = m[f][i].to
         /\ f # NoFrame /\ ~m[f][i].p => Descend(m, f, i) = NoFrame
         /\ f # NoFrame /\ m[f][i].p => Descend(m, f, i) # NoFrame
<1>1. f # NoFrame => m[f] \in [Idx -> Entries]
  BY DEF Memories
<1>2. f # NoFrame => m[f][i] \in Entries
  BY <1>1
<1>3. f # NoFrame => m[f][i].to \in Frames
  BY <1>2 DEF Entries
<1> QED
  BY <1>3, ConstantFacts DEF Descend

LEMMA NodeTyped ==
  ASSUME NEW m \in Memories, NEW v \in Pages
  PROVE  \A l \in 1 .. 5 : Node(m, l, v) \in Frames \cup {NoFrame}
<1>1. Node(m, 1, v) \in Frames \cup {NoFrame}
  BY NodeFacts, ConstantFacts
<1>2. Node(m, 2, v) \in Frames \cup {NoFrame}
  BY <1>1, NodeFacts, PageFacts, DescendFacts
<1>3. Node(m, 3, v) \in Frames \cup {NoFrame}
  BY <1>2, NodeFacts, PageFacts, DescendFacts
<1>4. Node(m, 4, v) \in Frames \cup {NoFrame}
  BY <1>3, NodeFacts, PageFacts, DescendFacts
<1>5. Node(m, 5, v) \in Frames \cup {NoFrame}
  BY <1>4, NodeFacts, PageFacts, DescendFacts
<1> QED
  BY <1>1, <1>2, <1>3, <1>4, <1>5

\* Where two walks agree they meet the same tables.
LEMMA NodeAgrees ==
  ASSUME NEW m, NEW v \in Pages, NEW w \in Pages
  PROVE  \A l \in 1 .. 5 : Agree(l, v, w) => Node(m, l, v) = Node(m, l, w)
<1>1. Agree(2, v, w) => Node(m, 2, v) = Node(m, 2, w)
  BY NodeFacts, AgreeFacts
<1>2. Agree(3, v, w) => Node(m, 3, v) = Node(m, 3, w)
  BY <1>1, NodeFacts, AgreeFacts
<1>3. Agree(4, v, w) => Node(m, 4, v) = Node(m, 4, w)
  BY <1>2, NodeFacts, AgreeFacts
<1>4. Agree(5, v, w) => Node(m, 5, v) = Node(m, 5, w)
  BY AgreeFacts
<1>5. Node(m, 1, v) = Node(m, 1, w)
  BY NodeFacts
<1> QED
  BY <1>1, <1>2, <1>3, <1>4, <1>5

\* If two memories give a table the same children, their trees are the same.
LEMMA SameTree ==
  ASSUME NEW m, NEW n, NEW v \in Pages,
         \A k \in 1 .. 4 : Descend(n, Node(m, k, v), v[k]) = Descend(m, Node(m, k, v), v[k])
  PROVE  \A l \in 1 .. 5 : Node(n, l, v) = Node(m, l, v)
<1>1. Node(n, 1, v) = Node(m, 1, v)
  BY NodeFacts
<1>2. Node(n, 2, v) = Node(m, 2, v)
  BY <1>1, NodeFacts
<1>3. Node(n, 3, v) = Node(m, 3, v)
  BY <1>2, NodeFacts
<1>4. Node(n, 4, v) = Node(m, 4, v)
  BY <1>3, NodeFacts
<1>5. Node(n, 5, v) = Node(m, 5, v)
  BY <1>4, NodeFacts
<1> QED
  BY <1>1, <1>2, <1>3, <1>4, <1>5

-----------------------------------------------------------------------------
(* The invariant of the tables, for a memory m, the frames below index e of *)
(* the stack k, and the pages S that hold copies of the PML4.               *)

\* No two walks meet a table, but where they agree.
Separate(m) ==
  \A v, w \in NonRec : \A k, l \in 1 .. 4 :
    Node(m, k, v) # NoFrame /\ Node(m, k, v) = Node(m, l, w) => k = l /\ Agree(k, v, w)

\* No walk meets a frame that falloc may still return.
Unused(m, k, e) ==
  \A i \in 0 .. e - 1 : \A v \in NonRec : \A l \in 1 .. 5 : Node(m, l, v) # k[i]

\* The frames of the heap's pages are no tables, and no two pages share one.
HeapPrivate(m) ==
  \A x \in HeapPages : Node(m, 5, x) # NoFrame =>
    /\ \A v \in NonRec : \A l \in 1 .. 4 : Node(m, l, v) # Node(m, 5, x)
    /\ \A y \in HeapPages : Node(m, 5, y) = Node(m, 5, x) => y = x

\* The copies of the PML4: the recursive slot leads to the original, and every
\* slot they have to the original's table.
Copy(m, f) ==
  /\ f # NoFrame
  /\ m[f][rec] = Entry(PML4, FALSE)
  /\ m[f][0].p
  /\ \A i \in Idx : m[f][i].p => m[PML4][i].p /\ m[PML4][i].to = m[f][i].to
Copies(m, S) == \A x \in S : Copy(m, Node(m, 5, x))

Good(m, k, e, S) ==
  /\ m \in Memories /\ e \in Nat
  /\ Copy(m, PML4)
  /\ Separate(m) /\ Unused(m, k, e) /\ HeapPrivate(m)
  /\ Node(m, 5, kernel_space) = PML4
  /\ Copies(m, S)

\* The processor uses the PML4, in frame c, that the kernel edits, at page p.
Current(m, c, p, S) ==
  /\ p \in S \cup {kernel_space}
  /\ c = Node(m, 5, p)

-----------------------------------------------------------------------------
(* What a store does to the tree                                           *)

LEMMA EntryFacts ==
  ASSUME NEW f \in Frames, NEW u \in BOOLEAN
  PROVE  /\ Entry(f, u) \in Entries /\ Entry(f, u).p /\ Entry(f, u).to = f
         /\ Entry(f, u).user = u
         /\ None \in Entries /\ ~None.p /\ None.user = FALSE
<1>1. 0 \in Frames
  BY ConstantFacts DEF Frames
<1> QED
  BY <1>1 DEF Entry, None, Entries

LEMMA MemoryFacts ==
  ASSUME NEW m \in Memories, NEW f \in Frames
  PROVE  /\ m[f] \in [Idx -> Entries]
         /\ \A i \in Idx : /\ m[f][i] \in Entries /\ m[f][i].to \in Frames
                           /\ m[f][i].p \in BOOLEAN /\ m[f][i].user \in BOOLEAN
<1>1. m[f] \in [Idx -> Entries]
  BY DEF Memories
<1> QED
  BY <1>1 DEF Entries

LEMMA SetEntryFacts ==
  ASSUME NEW m \in Memories, NEW t \in Frames, NEW i \in Idx, NEW e \in Entries
  PROVE  /\ SetEntry(m, t, i, e) \in Memories
         /\ \A f \in Frames : \A j \in Idx :
              SetEntry(m, t, i, e)[f][j] = IF f = t /\ j = i THEN e ELSE m[f][j]
<1>1. [m[t] EXCEPT ![i] = e] \in [Idx -> Entries]
  BY MemoryFacts
<1> QED
  BY <1>1, MemoryFacts DEF SetEntry, Memories

LEMMA ZeroFacts ==
  ASSUME NEW m \in Memories, NEW w \in Frames
  PROVE  /\ ZeroWindow(m, w) \in Memories
         /\ \A f \in Frames : \A j \in Idx :
              ZeroWindow(m, w)[f][j] = IF f = w THEN None ELSE m[f][j]
<1>1. Zeroed \in [Idx -> Entries]
  BY EntryFacts, ConstantFacts DEF Zeroed
<1> QED
  BY <1>1, MemoryFacts DEF ZeroWindow, Memories, Zeroed

\* Two memories that differ in the flags of entries only.
Alike(m, n) ==
  \A f \in Frames : \A j \in Idx : n[f][j].p = m[f][j].p /\ n[f][j].to = m[f][j].to

LEMMA AlikeNodes ==
  ASSUME NEW m \in Memories, NEW n \in Memories, Alike(m, n), NEW v \in Pages
  PROVE  \A l \in 1 .. 5 : Node(n, l, v) = Node(m, l, v)
<1>1. ASSUME NEW f \in Frames \cup {NoFrame}, NEW j \in Idx
      PROVE  Descend(n, f, j) = Descend(m, f, j)
  BY DEF Alike, Descend
<1>2. \A k \in 1 .. 4 : Node(m, k, v) \in Frames \cup {NoFrame} /\ v[k] \in Idx
  BY NodeTyped, PageFacts
<1>3. \A k \in 1 .. 4 : Descend(n, Node(m, k, v), v[k]) = Descend(m, Node(m, k, v), v[k])
  BY <1>1, <1>2
<1> QED
  BY <1>3, SameTree

LEMMA KernelLow == kernel_space \in LowPages /\ kernel_space[1] = 0
<1>1. Len(PTs) \in Nat /\ Len(PTs) < R
  BY PagingAssumption, LenProperties
<1>2. PML4 \div R \in Nat /\ PML4 % R \in 0 .. R - 1
  BY ConstantFacts DEF Frames
<1>3. PML4 \div R < Len(PTs)
  BY <1>1, <1>2, ConstantFacts, LayoutAssumption DEF Frames
<1> QED
  BY <1>1, <1>2, <1>3, ConstantFacts DEF kernel_space, Identity, LowPages, Pages, Idx

LEMMA PagePlaces ==
  /\ NonRec \subseteq Pages /\ HeapPages \subseteq NonRec
  /\ UserPages \subseteq NonRec /\ DevicePages \subseteq NonRec
  /\ \A v \in HeapPages \cup UserPages : v[1] = 0
  /\ kernel_space \in NonRec /\ kernel_space[1] = 0
  /\ kernel_space \notin HeapPages \cup UserPages \cup DevicePages
  /\ HeapPages \cap DevicePages = {}
BY KernelLow, PagesAssumption, ConstantFacts DEF NonRec, LowPages

\* Giving entries other flags keeps the tree.
LEMMA FlagsKeepGood ==
  ASSUME NEW m, NEW k, NEW e, NEW S, Good(m, k, e, S), NEW n \in Memories, Alike(m, n),
         n[PML4][rec] = m[PML4][rec], S \subseteq HeapPages,
         \A x \in S : n[Node(m, 5, x)][rec] = m[Node(m, 5, x)][rec]
  PROVE  /\ Good(n, k, e, S)
         /\ \A v \in Pages : \A l \in 1 .. 5 : Node(n, l, v) = Node(m, l, v)
<1>1. m \in Memories /\ e \in Nat
  BY DEF Good
<1>2. \A v \in Pages : \A l \in 1 .. 5 : Node(n, l, v) = Node(m, l, v)
  BY <1>1, AlikeNodes
<1>3. ASSUME NEW f \in Frames, Copy(m, f), n[f][rec] = m[f][rec] PROVE Copy(n, f)
  BY <1>3, ConstantFacts DEF Copy, Alike
<1>4. Copy(n, PML4)
  BY <1>3, ConstantFacts DEF Good
<1>5. Copies(n, S)
  <2> SUFFICES ASSUME NEW x \in S PROVE Copy(n, Node(n, 5, x))
    BY DEF Copies
  <2>1. x \in Pages /\ Copy(m, Node(m, 5, x))
    BY PagePlaces DEF Good, Copies
  <2>2. Node(m, 5, x) \in Frames
    BY <1>1, <2>1, NodeTyped DEF Copy
  <2> QED
    BY <2>1, <2>2, <1>2, <1>3
<1>6. Separate(n) /\ Unused(n, k, e) /\ HeapPrivate(n)
  <2>1. Separate(m) /\ Unused(m, k, e) /\ HeapPrivate(m) /\ NonRec \subseteq Pages /\ HeapPages \subseteq Pages
    BY PagePlaces DEF Good
  <2>2. \A v \in NonRec : \A l \in 1 .. 4 : Node(n, l, v) = Node(m, l, v)
    BY <2>1, <1>2
  <2>3. Separate(n)
    BY <2>1, <2>2 DEF Separate
  <2>4. Unused(n, k, e)
    BY <2>1, <1>2 DEF Unused
  <2>5. HeapPrivate(n)
    BY <2>1, <2>2, <1>2 DEF HeapPrivate
  <2> QED
    BY <2>3, <2>4, <2>5
<1>7. Node(n, 5, kernel_space) = PML4
  BY <1>2, PagePlaces DEF Good
<1> QED
  BY <1>1, <1>4, <1>5, <1>6, <1>7, <1>2 DEF Good

\* A new table F below the one that the walk for v meets at level l: it is
\* where the walks that agree with v's so far go on, and nothing else changes.
LEMMA NewTable ==
  ASSUME NEW m \in Memories, Separate(m), NEW v \in NonRec, NEW l \in 1 .. 3,
         Node(m, l, v) # NoFrame, Descend(m, Node(m, l, v), v[l]) = NoFrame,
         NEW F \in Frames,
         \A w \in NonRec : \A k \in 1 .. 4 : Node(m, k, w) # F,
         NEW n \in Memories,
         \A f \in Frames : \A j \in Idx :
           Descend(n, f, j) = IF f = Node(m, l, v) /\ j = v[l] THEN F
                              ELSE IF f = F THEN NoFrame ELSE Descend(m, f, j)
  PROVE  \A w \in NonRec : \A k \in 1 .. 5 :
           Node(n, k, w) = IF k = l + 1 /\ Agree(k, v, w) THEN F ELSE Node(m, k, w)
<1> TAKE w \in NonRec
<1>0. /\ w \in Pages /\ v \in Pages /\ w[1] \in Idx /\ w[2] \in Idx /\ w[3] \in Idx /\ w[4] \in Idx
      /\ NoFrame \notin Frames
      /\ \A k \in 1 .. 5 : Node(m, k, w) \in Frames \cup {NoFrame}
      /\ Node(m, l, v) \in Frames /\ v[l] \in Idx
  BY PagePlaces, PageFacts, ConstantFacts, NodeTyped
<1>1. \A j \in Idx : Descend(n, NoFrame, j) = NoFrame /\ Descend(m, NoFrame, j) = NoFrame
  BY DescendFacts
<1>2. \A j \in Idx : Descend(n, F, j) = NoFrame
  <2>1. F # Node(m, l, v)
    OBVIOUS
  <2> QED
    BY <2>1
<1>3. ASSUME NEW k \in 1 .. 4, Node(m, k, w) = Node(m, l, v)
      PROVE  k = l /\ Agree(l, v, w)
  BY <1>3 DEF Separate
<1>4. ASSUME NEW k \in 1 .. 4, Node(n, k, w) = Node(m, k, w), NEW j \in Idx,
             ~(k = l /\ Agree(l, v, w) /\ j = v[l])
      PROVE  Descend(n, Node(n, k, w), j) = Descend(m, Node(m, k, w), j)
  BY <1>0, <1>1, <1>3, <1>4
<1>5. ASSUME Agree(l, v, w), Node(n, l, w) = Node(m, l, w)
      PROVE  Descend(n, Node(n, l, w), v[l]) = F
  <2>1. Node(m, l, v) = Node(m, l, w)
    BY <1>5, <1>0, NodeAgrees
  <2> QED
    BY <2>1, <1>0, <1>5
<1>6. ASSUME Agree(l, v, w), w[l] = v[l]
      PROVE  Descend(m, Node(m, l, w), w[l]) = NoFrame
  BY <1>6, <1>0, NodeAgrees
<1>7. Node(n, 1, w) = Node(m, 1, w)
  BY NodeFacts
<1>8. CASE l = 1
  <2>1. Node(n, 2, w) = IF Agree(2, v, w) THEN F ELSE Node(m, 2, w)
    BY <1>8, <1>0, <1>4, <1>5, <1>7, NodeFacts, AgreeFacts
  <2>2. Agree(2, v, w) => Node(m, 2, w) = NoFrame
    BY <1>8, <1>0, <1>6, NodeFacts, AgreeFacts
  <2>3. Node(n, 3, w) = Node(m, 3, w)
    BY <1>8, <2>1, <2>2, <1>0, <1>1, <1>2, <1>4, NodeFacts
  <2>4. Node(n, 4, w) = Node(m, 4, w)
    BY <1>8, <2>3, <1>0, <1>4, NodeFacts
  <2>5. Node(n, 5, w) = Node(m, 5, w)
    BY <1>8, <2>4, <1>0, <1>4, NodeFacts
  <2> QED
    BY <1>8, <1>7, <2>1, <2>3, <2>4, <2>5
<1>9. CASE l = 2
  <2>1. Node(n, 2, w) = Node(m, 2, w)
    BY <1>9, <1>0, <1>4, <1>7, NodeFacts
  <2>2. Node(n, 3, w) = IF Agree(3, v, w) THEN F ELSE Node(m, 3, w)
    BY <1>9, <2>1, <1>0, <1>4, <1>5, NodeFacts, AgreeFacts
  <2>3. Agree(3, v, w) => Node(m, 3, w) = NoFrame
    BY <1>9, <1>0, <1>6, NodeFacts, AgreeFacts
  <2>4. Node(n, 4, w) = Node(m, 4, w)
    BY <1>9, <2>2, <2>3, <1>0, <1>1, <1>2, <1>4, NodeFacts
  <2>5. Node(n, 5, w) = Node(m, 5, w)
    BY <1>9, <2>4, <1>0, <1>4, NodeFacts
  <2> QED
    BY <1>9, <1>7, <2>1, <2>2, <2>4, <2>5
<1>10. CASE l = 3
  <2>1. Node(n, 2, w) = Node(m, 2, w)
    BY <1>10, <1>0, <1>4, <1>7, NodeFacts
  <2>2. Node(n, 3, w) = Node(m, 3, w)
    BY <1>10, <2>1, <1>0, <1>4, NodeFacts
  <2>3. Node(n, 4, w) = IF Agree(4, v, w) THEN F ELSE Node(m, 4, w)
    BY <1>10, <2>2, <1>0, <1>4, <1>5, NodeFacts, AgreeFacts
  <2>4. Agree(4, v, w) => Node(m, 4, w) = NoFrame
    BY <1>10, <1>0, <1>6, NodeFacts, AgreeFacts
  <2>5. Node(n, 5, w) = Node(m, 5, w)
    BY <1>10, <2>3, <2>4, <1>0, <1>1, <1>2, <1>4, NodeFacts
  <2> QED
    BY <1>10, <1>7, <2>1, <2>2, <2>3, <2>5
<1> QED
  BY <1>8, <1>9, <1>10

\* The entry of page v itself: no other page's walk changes.
LEMMA NewLeaf ==
  ASSUME NEW m \in Memories, Separate(m), NEW v \in NonRec, Node(m, 4, v) # NoFrame,
         NEW t \in Frames \cup {NoFrame}, NEW n \in Memories,
         \A f \in Frames : \A j \in Idx :
           Descend(n, f, j) = IF f = Node(m, 4, v) /\ j = v[4] THEN t ELSE Descend(m, f, j)
  PROVE  \A w \in NonRec : \A k \in 1 .. 5 :
           Node(n, k, w) = IF k = 5 /\ w = v THEN t ELSE Node(m, k, w)
<1> TAKE w \in NonRec
<1>0. /\ w \in Pages /\ v \in Pages /\ w[1] \in Idx /\ w[2] \in Idx /\ w[3] \in Idx /\ w[4] \in Idx
      /\ NoFrame \notin Frames
      /\ \A k \in 1 .. 5 : Node(m, k, w) \in Frames \cup {NoFrame}
      /\ Node(m, 4, v) \in Frames
  BY PagePlaces, PageFacts, ConstantFacts, NodeTyped
<1>1. \A j \in Idx : Descend(n, NoFrame, j) = NoFrame /\ Descend(m, NoFrame, j) = NoFrame
  BY DescendFacts
<1>2. ASSUME NEW k \in 1 .. 4, Node(m, k, w) = Node(m, 4, v)
      PROVE  k = 4 /\ Agree(4, v, w)
  BY <1>2 DEF Separate
<1>3. ASSUME NEW k \in 1 .. 4, Node(n, k, w) = Node(m, k, w), NEW j \in Idx,
             ~(k = 4 /\ Agree(4, v, w) /\ j = v[4])
      PROVE  Descend(n, Node(n, k, w), j) = Descend(m, Node(m, k, w), j)
  BY <1>0, <1>1, <1>2, <1>3
<1>4. Node(n, 1, w) = Node(m, 1, w)
  BY NodeFacts
<1>5. Node(n, 2, w) = Node(m, 2, w)
  BY <1>0, <1>3, <1>4, NodeFacts
<1>6. Node(n, 3, w) = Node(m, 3, w)
  BY <1>0, <1>3, <1>5, NodeFacts
<1>7. Node(n, 4, w) = Node(m, 4, w)
  BY <1>0, <1>3, <1>6, NodeFacts
<1>8. Node(n, 5, w) = IF w = v THEN t ELSE Node(m, 5, w)
  <2>1. Agree(4, v, w) /\ w[4] = v[4] <=> w = v
    <3>1. /\ Agree(4, v, w) <=> v[1] = w[1] /\ v[2] = w[2] /\ v[3] = w[3]
          /\ v = <<v[1], v[2], v[3], v[4]>> /\ w = <<w[1], w[2], w[3], w[4]>>
      BY <1>0, AgreeFacts, PageFacts
    <3> QED
      BY <3>1
  <2>2. CASE w = v
    BY <2>2, <1>0, <1>7, NodeFacts
  <2>3. CASE w # v
    BY <2>1, <2>3, <1>0, <1>3, <1>7, NodeFacts
  <2> QED
    BY <2>2, <2>3
<1> QED
  BY <1>4, <1>5, <1>6, <1>7, <1>8

-----------------------------------------------------------------------------
(* Stores that keep the tree                                               *)

\* The frames below index e are frames, and none is there twice.
Stocked(k, e) ==
  /\ \A i \in 0 .. e - 1 : k[i] \in Frames
  /\ \A i, j \in 0 .. e - 1 : k[i] = k[j] => i = j

LEMMA CopyKept ==
  ASSUME NEW m, NEW n, NEW f, Copy(m, f), \A i \in Idx : n[f][i] = m[f][i],
         \A i \in Idx : m[PML4][i].p => n[PML4][i] = m[PML4][i]
  PROVE  Copy(n, f)
BY ConstantFacts DEF Copy

\* The frame of a copy of the PML4 is no table.
LEMMA CopyPlace ==
  ASSUME NEW m, NEW k, NEW e, NEW S, Good(m, k, e, S), S \subseteq HeapPages, NEW x \in S
  PROVE  /\ Copy(m, Node(m, 5, x)) /\ Node(m, 5, x) \in Frames
         /\ \A w \in NonRec : \A b \in 1 .. 4 : Node(m, b, w) # Node(m, 5, x)
<1>1. x \in HeapPages /\ x \in Pages
  BY PagePlaces
<1>2. Copy(m, Node(m, 5, x)) /\ m \in Memories /\ HeapPrivate(m)
  BY DEF Good, Copies
<1>3. Node(m, 5, x) # NoFrame
  BY <1>2 DEF Copy
<1>4. Node(m, 5, x) \in Frames
  BY <1>1, <1>2, <1>3, NodeTyped
<1> QED
  BY <1>1, <1>2, <1>3, <1>4 DEF HeapPrivate

\* A new table F for entry i of table t, as memory after it is cleared.
LEMMA ClearedFacts ==
  ASSUME NEW m \in Memories, NEW t \in Frames, NEW i \in Idx, NEW F \in Frames,
         NEW u \in BOOLEAN, F # t, NEW n,
         n = ZeroWindow(SetEntry(m, t, i, Entry(F, u)), F)
  PROVE  /\ n \in Memories
         /\ \A f \in Frames : \A j \in Idx :
              n[f][j] = IF f = F THEN None
                        ELSE IF f = t /\ j = i THEN Entry(F, u) ELSE m[f][j]
         /\ \A f \in Frames : \A j \in Idx :
              Descend(n, f, j) = IF f = t /\ j = i THEN F
                                 ELSE IF f = F THEN NoFrame ELSE Descend(m, f, j)
<1> DEFINE n1 == SetEntry(m, t, i, Entry(F, u))
<1>1. Entry(F, u) \in Entries /\ Entry(F, u).p /\ Entry(F, u).to = F /\ ~None.p
  BY EntryFacts
<1>2. /\ n1 \in Memories
      /\ \A f \in Frames : \A j \in Idx :
           n1[f][j] = IF f = t /\ j = i THEN Entry(F, u) ELSE m[f][j]
  BY <1>1, SetEntryFacts
<1>3. n = ZeroWindow(n1, F)
  OBVIOUS
<1> HIDE DEF n1
<1>4. /\ ZeroWindow(n1, F) \in Memories
      /\ \A f \in Frames : \A j \in Idx :
           ZeroWindow(n1, F)[f][j] = IF f = F THEN None ELSE n1[f][j]
  BY <1>2, ZeroFacts
<1>5. /\ n \in Memories
      /\ \A f \in Frames : \A j \in Idx :
           n[f][j] = IF f = F THEN None
                     ELSE IF f = t /\ j = i THEN Entry(F, u) ELSE m[f][j]
  BY <1>2, <1>3, <1>4
<1>6. ASSUME NEW f \in Frames, NEW j \in Idx
      PROVE  Descend(n, f, j) = IF f = t /\ j = i THEN F
                                ELSE IF f = F THEN NoFrame ELSE Descend(m, f, j)
  <2>1. /\ f # NoFrame
        /\ n[f][j] = IF f = F THEN None
                     ELSE IF f = t /\ j = i THEN Entry(F, u) ELSE m[f][j]
    BY <1>5, ConstantFacts
  <2> QED
    BY <2>1, <1>1 DEF Descend
<1> QED
  BY <1>5, <1>6

\* A table in the frame on top of the stack is added at level l of v's walk.
TableAdded(m, n, k, e, S, v, l) ==
  /\ Good(n, k, e - 1, S)
  /\ \A w \in NonRec : \A b \in 1 .. 5 :
       Node(n, b, w) = IF b = l + 1 /\ Agree(b, v, w) THEN k[e - 1] ELSE Node(m, b, w)
  /\ \A x \in S : \A j \in Idx : n[Node(m, 5, x)][j] = m[Node(m, 5, x)][j]

\* mapf's table for the next level: falloc's frame, cleared.
LEMMA TableKeepsGood ==
  ASSUME NEW m, NEW k, NEW e \in Nat \ {0}, NEW S, Good(m, k, e, S), S \subseteq HeapPages,
         Stocked(k, e),
         NEW v \in NonRec, NEW l \in 1 .. 3, Node(m, l, v) # NoFrame,
         ~m[Node(m, l, v)][v[l]].p, NEW u \in BOOLEAN, NEW n,
         n = ZeroWindow(SetEntry(m, Node(m, l, v), v[l], Entry(k[e - 1], u)), k[e - 1])
  PROVE  TableAdded(m, n, k, e, S, v, l)
<1> DEFINE T == Node(m, l, v)
           F == k[e - 1]
           I == v[l]
<1>s. /\ \A i \in 0 .. e - 1 : k[i] \in Frames
      /\ \A i, j \in 0 .. e - 1 : k[i] = k[j] => i = j
  BY DEF Stocked
<1>0. /\ m \in Memories /\ T \in Frames /\ F \in Frames /\ v \in Pages /\ I \in Idx
      /\ NoFrame \notin Frames /\ PML4 \in Frames /\ rec \in Idx /\ 0 \in Idx
      /\ e - 1 \in 0 .. e - 1 /\ e - 1 \in Nat
  BY <1>s, PagePlaces, PageFacts, ConstantFacts, NodeTyped DEF Good
<1>1. \A w \in NonRec : \A b \in 1 .. 5 : Node(m, b, w) # F
  BY <1>0 DEF Good, Unused
<1>2. F # T /\ F # PML4
  <2>1. Node(m, 1, v) = PML4
    BY NodeFacts
  <2> QED
    BY <1>1, <2>1
<1> HIDE DEF F, T, I
<1>3. /\ n \in Memories
      /\ \A f \in Frames : \A j \in Idx :
           n[f][j] = IF f = F THEN None
                     ELSE IF f = T /\ j = I THEN Entry(F, u) ELSE m[f][j]
      /\ \A f \in Frames : \A j \in Idx :
           Descend(n, f, j) = IF f = T /\ j = I THEN F
                              ELSE IF f = F THEN NoFrame ELSE Descend(m, f, j)
  <2>1. n = ZeroWindow(SetEntry(m, T, I, Entry(F, u)), F)
    BY DEF T, F, I
  <2> QED
    BY <2>1, <1>0, <1>2, ClearedFacts, SMTT(30)
<1>6. Descend(m, T, I) = NoFrame
  BY <1>0, DescendFacts DEF T, I
<1>7. \A w \in NonRec : \A b \in 1 .. 5 :
        Node(n, b, w) = IF b = l + 1 /\ Agree(b, v, w) THEN F ELSE Node(m, b, w)
  <2>1. Separate(m)
    BY DEF Good
  <2>2. Node(m, l, v) = T /\ Node(m, l, v) # NoFrame /\ v[l] = I
    BY DEF T, I
  <2>3. \A w \in NonRec : \A b \in 1 .. 4 : Node(m, b, w) # F
    BY <1>1
  <2> QED
    BY <2>1, <2>2, <2>3, <1>0, <1>3, <1>6, NewTable
<1>8. \A w \in NonRec : Node(n, 5, w) = Node(m, 5, w)
  BY <1>7
<1>9. T = PML4 => I # rec
  <2>1. Node(m, 1, v) = PML4
    BY NodeFacts
  <2> QED
    BY <2>1, <1>0 DEF Good, Separate, T, I, NonRec
<1>10. \A i \in Idx : m[PML4][i].p => n[PML4][i] = m[PML4][i]
  <2>1. ~m[T][I].p
    BY DEF T, I
  <2> QED
    BY <2>1, <1>0, <1>2, <1>3
<1>11. Copy(n, PML4)
  <2>1. Copy(m, PML4)
    BY DEF Good
  <2>2. n[PML4][rec] = Entry(PML4, FALSE)
    <3>1. m[PML4][rec] = Entry(PML4, FALSE)
      BY <2>1 DEF Copy
    <3>2. ~(PML4 = T /\ rec = I)
      BY <1>9
    <3>3. n[PML4][rec] = m[PML4][rec]
      BY <3>2, <1>0, <1>2, <1>3
    <3> QED
      BY <3>1, <3>3
  <2>3. n[PML4][0].p
    BY <2>1, <1>0, <1>10 DEF Copy
  <2> QED
    BY <2>1, <2>2, <2>3 DEF Copy
<1>12. ASSUME NEW x \in S
       PROVE  /\ Copy(n, Node(n, 5, x))
              /\ \A j \in Idx : n[Node(m, 5, x)][j] = m[Node(m, 5, x)][j]
  <2>1. x \in NonRec
    BY PagePlaces
  <2> DEFINE f == Node(m, 5, x)
  <2>2. /\ Copy(m, f) /\ f \in Frames
        /\ \A w \in NonRec : \A b \in 1 .. 4 : Node(m, b, w) # f
    BY CopyPlace
  <2>3. f # F /\ f # T
    BY <2>1, <2>2, <1>1 DEF T
  <2>4. Node(n, 5, x) = f
    BY <2>1, <1>8
  <2> HIDE DEF f
  <2>5. \A i \in Idx : n[f][i] = m[f][i]
    BY <2>2, <2>3, <1>3
  <2>6. Copy(n, Node(n, 5, x))
    BY <2>2, <2>4, <2>5, <1>10, CopyKept
  <2> QED
    BY <2>5, <2>6 DEF f
<1>13. Separate(n)
  <2> SUFFICES ASSUME NEW a \in NonRec, NEW b \in NonRec, NEW i \in 1 .. 4, NEW j \in 1 .. 4,
                      Node(n, i, a) # NoFrame, Node(n, i, a) = Node(n, j, b)
               PROVE  i = j /\ Agree(i, a, b)
    BY DEF Separate
  <2>1. CASE i = l + 1 /\ Agree(i, v, a)
    <3>1. Node(n, j, b) = F
      BY <2>1, <1>7
    <3>3. Node(m, j, b) # F
      BY <1>1
    <3>4. Node(n, j, b) = IF j = l + 1 /\ Agree(j, v, b) THEN F ELSE Node(m, j, b)
      BY <1>7
    <3>2. j = l + 1 /\ Agree(j, v, b)
      BY <3>1, <3>3, <3>4
    <3> QED
      BY <2>1, <3>2 DEF Agree
  <2>2. CASE ~(i = l + 1 /\ Agree(i, v, a))
    <3>1. Node(n, i, a) = Node(m, i, a) /\ Node(m, i, a) # F
      BY <2>2, <1>1, <1>7
    <3>3. Node(n, j, b) = IF j = l + 1 /\ Agree(j, v, b) THEN F ELSE Node(m, j, b)
      BY <1>7
    <3>2. Node(n, j, b) = Node(m, j, b)
      BY <3>1, <3>3
    <3> QED
      BY <3>1, <3>2 DEF Good, Separate
  <2> QED
    BY <2>1, <2>2
<1>14. Unused(n, k, e - 1)
  <2> SUFFICES ASSUME NEW i \in 0 .. e - 1 - 1, NEW w \in NonRec, NEW b \in 1 .. 5
               PROVE  Node(n, b, w) # k[i]
    BY DEF Unused
  <2>1. i \in 0 .. e - 1 /\ i # e - 1
    OBVIOUS
  <2>2. k[i] # F
    BY <2>1, <1>s, <1>0 DEF F
  <2>3. Node(m, b, w) # k[i]
    BY <2>1 DEF Good, Unused
  <2> QED
    BY <2>2, <2>3, <1>7
<1>15. HeapPrivate(n)
  <2> SUFFICES ASSUME NEW x \in HeapPages, Node(n, 5, x) # NoFrame
               PROVE  /\ \A w \in NonRec : \A b \in 1 .. 4 : Node(n, b, w) # Node(n, 5, x)
                      /\ \A y \in HeapPages : Node(n, 5, y) = Node(n, 5, x) => y = x
    BY DEF HeapPrivate
  <2>1. HeapPages \subseteq NonRec
    BY PagePlaces
  <2>2. Node(n, 5, x) = Node(m, 5, x) /\ Node(m, 5, x) # F
    BY <2>1, <1>1, <1>8
  <2>3. \A w \in NonRec : \A b \in 1 .. 4 : Node(n, b, w) # Node(n, 5, x)
    BY <2>2, <1>7 DEF Good, HeapPrivate
  <2>4. \A y \in HeapPages : Node(n, 5, y) = Node(n, 5, x) => y = x
    BY <2>1, <2>2, <1>8 DEF Good, HeapPrivate
  <2> QED
    BY <2>3, <2>4
<1>16. Node(n, 5, kernel_space) = PML4
  BY <1>8, PagePlaces DEF Good
<1> QED
  BY <1>0, <1>3, <1>7, <1>11, <1>12, <1>13, <1>14, <1>15, <1>16 DEF Good, Copies, F, TableAdded

\* The entry of page v in its page table becomes c.
LeafSet(m, n, k, e, S, v, c) ==
  /\ Good(n, k, e, S)
  /\ \A w \in NonRec : \A b \in 1 .. 5 :
       Node(n, b, w) = IF b = 5 /\ w = v THEN (IF c.p THEN c.to ELSE NoFrame)
                       ELSE Node(m, b, w)
  /\ \A x \in S : \A j \in Idx : n[Node(m, 5, x)][j] = m[Node(m, 5, x)][j]

\* The last store of mapf, and unmap's.
LEMMA LeafKeepsGood ==
  ASSUME NEW m, NEW k, NEW e, NEW S, Good(m, k, e, S), S \subseteq HeapPages,
         NEW v \in NonRec \ (S \cup {kernel_space}), Node(m, 4, v) # NoFrame,
         NEW c \in Entries, \A i \in 0 .. e - 1 : k[i] \in Frames,
         c.p => \A i \in 0 .. e - 1 : k[i] # c.to,
         c.p /\ v \in HeapPages => \A w \in NonRec : \A b \in 1 .. 5 : Node(m, b, w) # c.to,
         NEW n, n = SetEntry(m, Node(m, 4, v), v[4], c)
  PROVE  LeafSet(m, n, k, e, S, v, c)
<1> DEFINE T == Node(m, 4, v)
           I == v[4]
           t == IF c.p THEN c.to ELSE NoFrame
<1>0. /\ m \in Memories /\ T \in Frames /\ v \in Pages /\ I \in Idx
      /\ NoFrame \notin Frames /\ PML4 \in Frames /\ rec \in Idx /\ 0 \in Idx
      /\ c.to \in Frames /\ t \in Frames \cup {NoFrame}
  BY PagePlaces, PageFacts, ConstantFacts, NodeTyped DEF Good, Entries
<1> HIDE DEF T, t, I
<1>1. /\ n \in Memories
      /\ \A f \in Frames : \A j \in Idx :
           n[f][j] = IF f = T /\ j = I THEN c ELSE m[f][j]
  <2>1. n = SetEntry(m, T, I, c)
    BY DEF T, I
  <2>2. /\ SetEntry(m, T, I, c) \in Memories
        /\ \A f \in Frames : \A j \in Idx :
             SetEntry(m, T, I, c)[f][j] = IF f = T /\ j = I THEN c ELSE m[f][j]
    BY <1>0, SetEntryFacts
  <2> QED
    BY <2>1, <2>2
<1>2. \A f \in Frames : \A j \in Idx :
        Descend(n, f, j) = IF f = T /\ j = I THEN t ELSE Descend(m, f, j)
  BY <1>0, <1>1 DEF Descend, t
<1>3. \A w \in NonRec : \A b \in 1 .. 5 :
        Node(n, b, w) = IF b = 5 /\ w = v THEN t ELSE Node(m, b, w)
  <2>1. Separate(m)
    BY DEF Good
  <2>2. Node(m, 4, v) = T /\ Node(m, 4, v) # NoFrame /\ v[4] = I
    BY DEF T, I
  <2> QED
    BY <2>1, <2>2, <1>0, <1>1, <1>2, NewLeaf
<1>4. T # PML4
  <2>1. Node(m, 1, v) = PML4
    BY NodeFacts
  <2> QED
    BY <2>1, <1>0 DEF Good, Separate, T
<1>5. \A i \in Idx : n[PML4][i] = m[PML4][i]
  BY <1>0, <1>1, <1>4
<1>6. Copy(n, PML4)
  BY <1>0, <1>5 DEF Good, Copy
<1>7. ASSUME NEW x \in S
      PROVE  /\ Copy(n, Node(n, 5, x))
             /\ \A j \in Idx : n[Node(m, 5, x)][j] = m[Node(m, 5, x)][j]
  <2>1. x \in NonRec /\ x # v
    BY PagePlaces
  <2> DEFINE f == Node(m, 5, x)
  <2>2. /\ Copy(m, f) /\ f \in Frames
        /\ \A w \in NonRec : \A b \in 1 .. 4 : Node(m, b, w) # f
    BY CopyPlace
  <2>3. f # T
    BY <2>2 DEF T
  <2>4. Node(n, 5, x) = f
    BY <2>1, <1>3
  <2> HIDE DEF f
  <2>5. \A i \in Idx : n[f][i] = m[f][i]
    BY <2>2, <2>3, <1>1
  <2>6. Copy(n, Node(n, 5, x))
    BY <2>2, <2>4, <2>5, <1>5, CopyKept
  <2> QED
    BY <2>5, <2>6 DEF f
<1>8. Separate(n)
  <2>1. \A w \in NonRec : \A b \in 1 .. 4 : Node(n, b, w) = Node(m, b, w)
    BY <1>3
  <2> QED
    BY <2>1 DEF Good, Separate
<1>9. Unused(n, k, e)
  <2> SUFFICES ASSUME NEW i \in 0 .. e - 1, NEW w \in NonRec, NEW b \in 1 .. 5,
                      Node(n, b, w) = k[i]
               PROVE  FALSE
    BY DEF Unused
  <2>1. Node(m, b, w) # k[i]
    BY DEF Good, Unused
  <2>2. k[i] = t /\ k[i] \in Frames
    BY <2>1, <1>3
  <2> QED
    BY <2>2, <1>0 DEF t
<1>10. HeapPrivate(n)
  <2> SUFFICES ASSUME NEW x \in HeapPages, Node(n, 5, x) # NoFrame
               PROVE  /\ \A w \in NonRec : \A b \in 1 .. 4 : Node(n, b, w) # Node(n, 5, x)
                      /\ \A y \in HeapPages : Node(n, 5, y) = Node(n, 5, x) => y = x
    BY DEF HeapPrivate
  <2>1. HeapPages \subseteq NonRec
    BY PagePlaces
  <2>2. CASE x = v
    <3>1. c.p /\ Node(n, 5, x) = c.to
      BY <2>2, <2>1, <1>3 DEF t
    <3> QED
      BY <3>1, <2>2, <2>1, <1>3
  <2>3. CASE x # v
    <3>1. Node(n, 5, x) = Node(m, 5, x)
      BY <2>3, <2>1, <1>3
    <3>2. \A w \in NonRec : \A b \in 1 .. 4 : Node(n, b, w) # Node(n, 5, x)
      BY <3>1, <1>3 DEF Good, HeapPrivate
    <3>3. \A y \in HeapPages : Node(n, 5, y) = Node(n, 5, x) => y = x
      <4> SUFFICES ASSUME NEW y \in HeapPages, Node(n, 5, y) = Node(n, 5, x) PROVE y = x
        OBVIOUS
      <4>1. CASE y = v
        <5>1. Node(n, 5, y) = t /\ t # NoFrame
          BY <4>1, <2>1, <1>3
        <5>2. c.p /\ v \in HeapPages /\ Node(m, 5, x) = c.to
          BY <5>1, <4>1, <3>1 DEF t
        <5> QED
          BY <5>2, <2>1
      <4>2. CASE y # v
        <5>1. Node(n, 5, y) = Node(m, 5, y)
          BY <4>2, <2>1, <1>3
        <5>2. Node(m, 5, x) # NoFrame /\ Node(m, 5, y) = Node(m, 5, x)
          BY <5>1, <3>1
        <5> QED
          BY <5>2 DEF Good, HeapPrivate
      <4> QED
        BY <4>1, <4>2
    <3> QED
      BY <3>2, <3>3
  <2> QED
    BY <2>2, <2>3
<1>11. Node(n, 5, kernel_space) = PML4
  BY <1>3, PagePlaces DEF Good
<1> QED
  BY <1>1, <1>3, <1>6, <1>7, <1>8, <1>9, <1>10, <1>11 DEF Good, Copies, t, LeafSet

\* copy_address_space: the frame of a heap page becomes a copy of the PML4.
LEMMA CopyKeepsGood ==
  ASSUME NEW m, NEW k, NEW e, NEW S, Good(m, k, e, S), S \subseteq HeapPages,
         NEW x \in HeapPages \ S, Node(m, 5, x) # NoFrame,
         NEW n \in Memories, n[Node(m, 5, x)] = m[PML4],
         \A g \in Frames : g # Node(m, 5, x) => n[g] = m[g]
  PROVE  /\ Good(n, k, e, S \cup {x})
         /\ \A w \in NonRec : \A b \in 1 .. 5 : Node(n, b, w) = Node(m, b, w)
<1> DEFINE f == Node(m, 5, x)
<1>0. /\ m \in Memories /\ f \in Frames /\ x \in NonRec /\ PML4 \in Frames
      /\ NonRec \subseteq Pages /\ HeapPages \subseteq NonRec /\ NoFrame \notin Frames
  BY PagePlaces, ConstantFacts, NodeTyped DEF Good
<1>1. \A w \in NonRec : \A b \in 1 .. 4 : Node(m, b, w) # f
  BY DEF Good, HeapPrivate
<1>2. f # PML4
  <2>1. Node(m, 1, x) = PML4
    BY NodeFacts
  <2> QED
    BY <2>1, <1>0, <1>1
<1>4. \A y \in HeapPages : Node(m, 5, y) = f => y = x
  BY DEF Good, HeapPrivate
<1>5. n[f] = m[PML4] /\ \A g \in Frames : g # f => n[g] = m[g]
  OBVIOUS
<1> HIDE DEF f
<1>6. \A w \in NonRec : \A b \in 1 .. 5 : Node(n, b, w) = Node(m, b, w)
  <2> SUFFICES ASSUME NEW w \in NonRec PROVE \A b \in 1 .. 5 : Node(n, b, w) = Node(m, b, w)
    OBVIOUS
  <2>1. ASSUME NEW b \in 1 .. 4
        PROVE  Descend(n, Node(m, b, w), w[b]) = Descend(m, Node(m, b, w), w[b])
    <3>1. Node(m, b, w) \in Frames \cup {NoFrame} /\ Node(m, b, w) # f
      BY <1>0, <1>1, NodeTyped
    <3> QED
      BY <3>1, <1>5 DEF Descend
  <2> QED
    BY <2>1, <1>0, SameTree
<1>7. Copy(m, PML4) /\ n[PML4] = m[PML4]
  BY <1>0, <1>2, <1>5 DEF Good
<1>8. Copy(n, PML4)
  BY <1>7, CopyKept
<1>9. Copies(n, S \cup {x})
  <2> SUFFICES ASSUME NEW y \in S \cup {x} PROVE Copy(n, Node(n, 5, y))
    BY DEF Copies
  <2>1. CASE y = x
    <3>1. Node(n, 5, y) = f /\ f # NoFrame
      BY <2>1, <1>0, <1>6 DEF f
    <3> QED
      BY <3>1, <1>5, <1>7, <1>8 DEF Copy
  <2>2. CASE y # x
    <3>1. y \in S /\ y \in HeapPages /\ y \in NonRec
      BY <2>2, <1>0
    <3>2. Copy(m, Node(m, 5, y)) /\ Node(m, 5, y) \in Frames
      BY <3>1, CopyPlace
    <3>3. n[Node(m, 5, y)] = m[Node(m, 5, y)]
      BY <3>1, <3>2, <2>2, <1>4, <1>5
    <3>4. Node(n, 5, y) = Node(m, 5, y)
      BY <3>1, <1>6
    <3> QED
      BY <3>2, <3>3, <3>4, <1>7, CopyKept
  <2> QED
    BY <2>1, <2>2
<1>10. Separate(n)
  <2>1. \A w \in NonRec : \A b \in 1 .. 4 : Node(n, b, w) = Node(m, b, w)
    BY <1>6
  <2> QED
    BY <2>1 DEF Good, Separate
<1>11. Unused(n, k, e)
  BY <1>6 DEF Good, Unused
<1>12. HeapPrivate(n)
  <2>1. /\ \A w \in NonRec : \A b \in 1 .. 4 : Node(n, b, w) = Node(m, b, w)
        /\ \A w \in HeapPages : Node(n, 5, w) = Node(m, 5, w)
    BY <1>0, <1>6
  <2> QED
    BY <2>1 DEF Good, HeapPrivate
<1>13. Node(n, 5, kernel_space) = PML4
  BY <1>6, PagePlaces DEF Good
<1>14. e \in Nat
  BY DEF Good
<1> QED
  BY <1>5, <1>6, <1>8, <1>9, <1>10, <1>11, <1>12, <1>13, <1>14 DEF Good

-----------------------------------------------------------------------------
(* The walks of the processor, from a PML4 or a copy                        *)

\* Through the recursive slot it finds the kernel's tables, and a page where
\* the kernel has it, if the slot is there.
LEMMA RootWalks ==
  ASSUME NEW m \in Memories, Copy(m, PML4), NEW c \in Frames, Copy(m, c), NEW v \in Pages
  PROVE  /\ Walk(m, c, PDP_MAPPING(v[1])) = Node(m, 2, v)
         /\ Walk(m, c, PD_MAPPING(v[1], v[2])) = Node(m, 3, v)
         /\ Walk(m, c, PT_MAPPING(v[1], v[2], v[3])) = Node(m, 4, v)
         /\ Walk(m, c, v) = IF m[c][v[1]].p THEN Node(m, 5, v) ELSE NoFrame
<1>1. /\ PML4 \in Frames /\ NoFrame \notin Frames
      /\ v[1] \in Idx /\ v[2] \in Idx /\ v[3] \in Idx /\ v[4] \in Idx
  BY ConstantFacts, PageFacts
<1>2. Entry(PML4, FALSE).p /\ Entry(PML4, FALSE).to = PML4
  BY <1>1, EntryFacts
<1>3. Descend(m, c, rec) = PML4 /\ Descend(m, PML4, rec) = PML4
  BY <1>1, <1>2 DEF Copy, Descend
<1>4. Walk(m, c, PDP_MAPPING(v[1])) = Node(m, 2, v)
  BY <1>3, NodeFacts DEF Walk, PDP_MAPPING
<1>5. Walk(m, c, PD_MAPPING(v[1], v[2])) = Node(m, 3, v)
  BY <1>3, NodeFacts DEF Walk, PD_MAPPING
<1>6. Walk(m, c, PT_MAPPING(v[1], v[2], v[3])) = Node(m, 4, v)
  BY <1>3, NodeFacts DEF Walk, PT_MAPPING
<1>7. Walk(m, c, v) = IF m[c][v[1]].p THEN Node(m, 5, v) ELSE NoFrame
  <2>1. CASE m[c][v[1]].p
    <3>1. Descend(m, c, v[1]) = m[c][v[1]].to /\ Descend(m, PML4, v[1]) = m[c][v[1]].to
      BY <2>1, <1>1 DEF Copy, Descend
    <3>2. Descend(m, c, v[1]) = Node(m, 2, v)
      BY <3>1, NodeFacts, SMTT(30)
    <3> QED
      BY <3>2, <2>1, NodeFacts DEF Walk
  <2>2. CASE ~m[c][v[1]].p
    <3>1. Descend(m, c, v[1]) = NoFrame
      BY <2>2 DEF Descend
    <3> QED
      BY <3>1, <2>2 DEF Walk, Descend
  <2> QED
    BY <2>1, <2>2
<1> QED
  BY <1>4, <1>5, <1>6, <1>7

\* Entries that are there are followed as before.
LEMMA PathKept ==
  ASSUME NEW m \in Memories, NEW n \in Memories, NEW v \in Pages,
         \A f \in Frames : \A j \in Idx :
           Descend(m, f, j) # NoFrame => Descend(n, f, j) = Descend(m, f, j)
  PROVE  \A l \in 1 .. 5 : Node(m, l, v) # NoFrame => Node(n, l, v) = Node(m, l, v)
<1>1. /\ v[1] \in Idx /\ v[2] \in Idx /\ v[3] \in Idx /\ v[4] \in Idx
      /\ \A l \in 1 .. 5 : Node(m, l, v) \in Frames \cup {NoFrame}
      /\ \A j \in Idx : Descend(m, NoFrame, j) = NoFrame
  BY PageFacts, NodeTyped, DescendFacts
<1>2. Node(n, 1, v) = Node(m, 1, v)
  BY NodeFacts
<1>3. Node(m, 2, v) # NoFrame => Node(n, 2, v) = Node(m, 2, v)
  BY <1>1, <1>2, NodeFacts, ConstantFacts
<1>4. Node(m, 3, v) # NoFrame => Node(n, 3, v) = Node(m, 3, v)
  BY <1>1, <1>3, NodeFacts
<1>5. Node(m, 4, v) # NoFrame => Node(n, 4, v) = Node(m, 4, v)
  BY <1>1, <1>4, NodeFacts
<1>6. Node(m, 5, v) # NoFrame => Node(n, 5, v) = Node(m, 5, v)
  BY <1>1, <1>5, NodeFacts
<1> QED
  BY <1>2, <1>3, <1>4, <1>5, <1>6

-----------------------------------------------------------------------------
(* mapf                                                                    *)

\* c is the PML4 or one of its copies.
Root(m, S, c) == c = PML4 \/ \E x \in S : c = Node(m, 5, x)

\* From m to n tables are added, with frames from the stack, and nothing else:
\* no page moves, and the copies have the slots they had.
Grows(m, n, k, e, S) ==
  /\ \A w \in NonRec : \A b \in 1 .. 5 :
       \/ Node(n, b, w) = Node(m, b, w)
       \/ Node(m, b, w) = NoFrame /\ b < 5 /\ \E i \in 0 .. e - 1 : Node(n, b, w) = k[i]
  /\ \A x \in S : \A i \in Idx : n[Node(m, 5, x)][i].p = m[Node(m, 5, x)][i].p

LEMMA GrowsKeeps ==
  ASSUME NEW m, NEW n, NEW k, NEW e, NEW S, Grows(m, n, k, e, S),
         NEW w \in NonRec, NEW b \in 1 .. 5, Node(m, b, w) # NoFrame
  PROVE  Node(n, b, w) = Node(m, b, w)
BY DEF Grows

LEMMA GrowsTwice ==
  ASSUME NEW m, NEW n, NEW o, NEW k, NEW e \in Nat, NEW d \in 0 .. e, NEW S, S \subseteq HeapPages,
         Grows(m, n, k, e, S), Grows(n, o, k, d, S)
  PROVE  Grows(m, o, k, e, S)
<1>1. ASSUME NEW w \in NonRec, NEW b \in 1 .. 5
      PROVE  \/ Node(o, b, w) = Node(m, b, w)
             \/ Node(m, b, w) = NoFrame /\ b < 5 /\ \E i \in 0 .. e - 1 : Node(o, b, w) = k[i]
  BY DEF Grows
<1>2. ASSUME NEW x \in S, NEW i \in Idx
      PROVE  o[Node(m, 5, x)][i].p = m[Node(m, 5, x)][i].p
  <2>1. Node(n, 5, x) = Node(m, 5, x)
    BY PagePlaces DEF Grows
  <2>2. n[Node(m, 5, x)][i].p = m[Node(m, 5, x)][i].p
    BY DEF Grows
  <2>3. o[Node(n, 5, x)][i].p = n[Node(n, 5, x)][i].p
    BY DEF Grows
  <2> QED
    BY <2>1, <2>2, <2>3
<1> QED
  BY <1>1, <1>2 DEF Grows

LEMMA RootFacts ==
  ASSUME NEW m, NEW k, NEW e, NEW S, Good(m, k, e, S), S \subseteq HeapPages,
         NEW c, Root(m, S, c)
  PROVE  m \in Memories /\ Copy(m, PML4) /\ c \in Frames /\ Copy(m, c)
BY CopyPlace, ConstantFacts DEF Root, Good

LEMMA RootGrows ==
  ASSUME NEW m, NEW n, NEW k, NEW e, NEW S, S \subseteq HeapPages, Grows(m, n, k, e, S),
         NEW c, Root(m, S, c)
  PROVE  Root(n, S, c)
BY PagePlaces DEF Root, Grows

\* The same frames with one less of them.
LEMMA Poppable ==
  ASSUME NEW m, NEW k, NEW e, NEW S, Good(m, k, e, S), Stocked(k, e), NEW d \in 0 .. e
  PROVE  Good(m, k, d, S) /\ Stocked(k, d)
<1>1. e \in Nat /\ d \in Nat /\ 0 .. d - 1 \subseteq 0 .. e - 1
  BY DEF Good
<1>2. Unused(m, k, d) /\ Stocked(k, d)
  BY <1>1 DEF Good, Unused, Stocked
<1> QED
  BY <1>1, <1>2 DEF Good

\* An entry that is there takes the flags of the new mapping, in a table or
\* in a copy of the PML4.
LEMMA FlagEdit ==
  ASSUME NEW m, NEW k, NEW e, NEW S, Good(m, k, e, S), S \subseteq HeapPages,
         NEW t \in Frames, NEW i \in Idx, m[t][i].p, NEW u \in BOOLEAN,
         t = PML4 \/ (\E x \in S : t = Node(m, 5, x)) => i # rec,
         NEW n, n = SetEntry(m, t, i, Flagged(m[t][i], u))
  PROVE  /\ Good(n, k, e, S) /\ Alike(m, n) /\ Grows(m, n, k, e, S)
         /\ \A v \in Pages : \A l \in 1 .. 5 : Node(n, l, v) = Node(m, l, v)
<1> DEFINE c == Entry(m[t][i].to, u)
<1>0. m \in Memories /\ m[t][i].to \in Frames
  <2>1. m \in Memories
    BY DEF Good
  <2> QED
    BY <2>1, MemoryFacts
<1>1. c \in Entries /\ c.p = m[t][i].p /\ c.to = m[t][i].to
  <2>1. m[t][i].p \in BOOLEAN /\ c.p = TRUE
    BY <1>0, MemoryFacts DEF Entry
  <2> QED
    BY <2>1, <1>0, EntryFacts
<1>2. n = SetEntry(m, t, i, c)
  BY DEF Flagged
<1> HIDE DEF c
<1>3. /\ SetEntry(m, t, i, c) \in Memories
      /\ \A f \in Frames : \A j \in Idx :
           SetEntry(m, t, i, c)[f][j] = IF f = t /\ j = i THEN c ELSE m[f][j]
  BY <1>0, <1>1, SetEntryFacts
<1>4. /\ n \in Memories
      /\ \A f \in Frames : \A j \in Idx : n[f][j] = IF f = t /\ j = i THEN c ELSE m[f][j]
  BY <1>2, <1>3
<1>5. Alike(m, n)
  BY <1>1, <1>4 DEF Alike
<1>6. PML4 \in Frames /\ rec \in Idx
  BY ConstantFacts
<1>7. n[PML4][rec] = m[PML4][rec]
  BY <1>4, <1>6
<1>8. ASSUME NEW x \in S
      PROVE  Node(m, 5, x) \in Frames /\ n[Node(m, 5, x)][rec] = m[Node(m, 5, x)][rec]
  <2>1. Node(m, 5, x) \in Frames
    BY CopyPlace
  <2>2. Node(m, 5, x) = t => i # rec
    OBVIOUS
  <2> QED
    BY <2>1, <2>2, <1>4, <1>6
<1>9. /\ Good(n, k, e, S)
      /\ \A v \in Pages : \A l \in 1 .. 5 : Node(n, l, v) = Node(m, l, v)
  BY <1>4, <1>5, <1>7, <1>8, FlagsKeepGood
<1>10. Grows(m, n, k, e, S)
  <2>1. \A x \in S : \A j \in Idx : n[Node(m, 5, x)][j].p = m[Node(m, 5, x)][j].p
    BY <1>5, <1>8 DEF Alike
  <2>2. \A w \in NonRec : \A b \in 1 .. 5 : Node(n, b, w) = Node(m, b, w)
    BY <1>9, PagePlaces
  <2> QED
    BY <2>1, <2>2 DEF Grows
<1> QED
  BY <1>5, <1>9, <1>10

\* The new table shows through its window before it is cleared.
LEMMA TableSeen ==
  ASSUME NEW m, NEW k, NEW e, NEW S, Good(m, k, e, S), S \subseteq HeapPages,
         NEW v \in NonRec, NEW l \in 1 .. 3, NEW t, t = Node(m, l, v), t # NoFrame,
         NEW i, i = v[l], ~m[t][i].p,
         NEW F \in Frames, NEW u \in BOOLEAN, NEW c, Root(m, S, c),
         NEW n, n = SetEntry(m, t, i, Entry(F, u))
  PROVE  n \in Memories /\ Copy(n, PML4) /\ Copy(n, c) /\ Node(n, l + 1, v) = F
<1>0. /\ m \in Memories /\ t \in Frames /\ i \in Idx /\ v \in Pages
      /\ NoFrame \notin Frames /\ PML4 \in Frames /\ rec \in Idx /\ 0 \in Idx
  BY PagePlaces, PageFacts, ConstantFacts, NodeTyped DEF Good
<1> DEFINE c1 == Entry(F, u)
<1>1. c1 \in Entries /\ c1.p /\ c1.to = F
  BY EntryFacts
<1>2. n = SetEntry(m, t, i, c1)
  OBVIOUS
<1> HIDE DEF c1
<1>3. /\ n \in Memories
      /\ \A f \in Frames : \A j \in Idx : n[f][j] = IF f = t /\ j = i THEN c1 ELSE m[f][j]
  <2>0. m \in Memories /\ t \in Frames /\ i \in Idx /\ c1 \in Entries
    BY <1>0, <1>1
  <2>1. /\ SetEntry(m, t, i, c1) \in Memories
        /\ \A f \in Frames : \A j \in Idx :
             SetEntry(m, t, i, c1)[f][j] = IF f = t /\ j = i THEN c1 ELSE m[f][j]
    BY <2>0, SetEntryFacts
  <2> QED
    BY <2>1, <1>2
<1>4. \A f \in Frames : \A j \in Idx : m[f][j].p => n[f][j] = m[f][j]
  BY <1>3
<1>5. Copy(m, PML4) /\ c \in Frames /\ Copy(m, c)
  BY RootFacts
<1>6. ASSUME NEW f \in Frames, Copy(m, f), f = PML4 \/ f # t PROVE Copy(n, f)
  <2>1. \A j \in Idx : m[PML4][j].p => n[PML4][j] = m[PML4][j]
    BY <1>0, <1>4
  <2>2. m[PML4][rec].p /\ m[PML4][0].p
    BY <1>0, <1>5, EntryFacts DEF Copy
  <2>3. n[PML4][rec] = m[PML4][rec] /\ n[PML4][0] = m[PML4][0]
    BY <1>0, <2>1, <2>2
  <2>4. CASE f = PML4
    BY <2>3, <2>4, <1>5, <1>0 DEF Copy
  <2>5. CASE f # t
    <3>1. \A j \in Idx : n[f][j] = m[f][j]
      BY <2>5, <1>3
    <3> QED
      BY <3>1, <2>1, <1>6, CopyKept
  <2> QED
    BY <1>6, <2>4, <2>5
<1>7. c = PML4 \/ c # t
  <2>1. ASSUME NEW x \in S, c = Node(m, 5, x) PROVE c # t
    BY <2>1, CopyPlace
  <2> QED
    BY <2>1 DEF Root
<1>8. Copy(n, PML4) /\ Copy(n, c)
  BY <1>0, <1>5, <1>6, <1>7
<1>9. \A f \in Frames : \A j \in Idx :
        Descend(m, f, j) # NoFrame => Descend(n, f, j) = Descend(m, f, j)
  BY <1>4 DEF Descend
<1>10. Node(n, l, v) = t
  BY <1>0, <1>3, <1>9, PathKept
<1>11. Descend(n, t, i) = F
  BY <1>0, <1>1, <1>3 DEF Descend
<1>12. Node(n, l + 1, v) = Descend(n, Node(n, l, v), v[l])
  BY NodeFacts
<1> QED
  BY <1>3, <1>8, <1>10, <1>11, <1>12

\* The record mapf works on.
Stages == [mem : Memories, esp : Nat, ok : BOOLEAN]

\* A stage of mapf keeps the invariant and only adds tables.
Passed(s, r, S) ==
  /\ r \in Stages /\ Good(r.mem, stack, r.esp, S)
  /\ r.esp \in 0 .. s.esp
  /\ Grows(s.mem, r.mem, stack, s.esp, S)
  /\ r.ok => s.ok

LEMMA PassedTwice ==
  ASSUME NEW s \in Stages, NEW r, NEW q, NEW S, S \subseteq HeapPages, Passed(s, r, S), Passed(r, q, S)
  PROVE  Passed(s, q, S)
<1>1. /\ s.esp \in Nat /\ r.esp \in 0 .. s.esp /\ q.esp \in 0 .. r.esp
      /\ Grows(s.mem, r.mem, stack, s.esp, S) /\ Grows(r.mem, q.mem, stack, r.esp, S)
  BY DEF Stages, Passed
<1>2. Grows(s.mem, q.mem, stack, s.esp, S)
  BY <1>1, GrowsTwice
<1>3. q.esp \in 0 .. s.esp
  BY <1>1
<1> QED
  BY <1>2, <1>3 DEF Passed

LEMMA GrowsSelf ==
  ASSUME NEW m, NEW k, NEW e, NEW S
  PROVE  Grows(m, m, k, e, S)
BY DEF Grows

LEMMA StageEdits ==
  ASSUME NEW s \in Stages
  PROVE  /\ [s EXCEPT !.ok = FALSE] = [mem |-> s.mem, esp |-> s.esp, ok |-> FALSE]
         /\ s.ok => \A n : [s EXCEPT !.mem = n] = [mem |-> n, esp |-> s.esp, ok |-> TRUE]
<1>1. s.ok \in BOOLEAN
  BY DEF Stages
<1>2. ASSUME NEW b PROVE [s EXCEPT !.ok = b] = [mem |-> s.mem, esp |-> s.esp, ok |-> b]
  BY DEF Stages
<1>3. ASSUME NEW n PROVE [s EXCEPT !.mem = n] = [mem |-> n, esp |-> s.esp, ok |-> s.ok]
  BY DEF Stages
<1> QED
  BY <1>1, <1>2, <1>3

\* What Level does in each of its cases, r being its result at table t.
LevelResult(s, t, i, window, u, r) ==
  /\ ~s.ok \/ t = NoFrame => r = [mem |-> s.mem, esp |-> s.esp, ok |-> FALSE]
  /\ s.ok /\ t # NoFrame /\ s.mem[t][i].p =>
       r = [mem |-> SetEntry(s.mem, t, i, Flagged(s.mem[t][i], u)), esp |-> s.esp, ok |-> TRUE]
  /\ s.ok /\ t # NoFrame /\ ~s.mem[t][i].p /\ s.esp = 0 =>
       r = [mem |-> s.mem, esp |-> s.esp, ok |-> FALSE]
  /\ s.ok /\ t # NoFrame /\ ~s.mem[t][i].p /\ s.esp # 0 =>
       \A w : /\ w = Walk(SetEntry(s.mem, t, i, Entry(Top(s.esp), u)), cr3, window)
              /\ w # NoFrame
              => r = [mem |-> ZeroWindow(SetEntry(s.mem, t, i, Entry(Top(s.esp), u)), w),
                      esp |-> s.esp - 1, ok |-> TRUE]

LEMMA LevelCases ==
  ASSUME NEW s \in Stages, NEW table, NEW i, NEW window, NEW u
  PROVE  LevelResult(s, Walk(s.mem, cr3, table), i, window, u, Level(s, table, i, window, u))
<1> DEFINE t == Walk(s.mem, cr3, table)
           r == Level(s, table, i, window, u)
<1>2. [s EXCEPT !.ok = FALSE] = [mem |-> s.mem, esp |-> s.esp, ok |-> FALSE]
  BY StageEdits
<1> DEFINE M == SetEntry(s.mem, t, i, Entry(Top(s.esp), u))
           W == Walk(M, cr3, window)
           n == SetEntry(s.mem, t, i, Flagged(s.mem[t][i], u))
<1>4. r = IF ~s.ok \/ t = NoFrame THEN [s EXCEPT !.ok = FALSE]
          ELSE IF s.mem[t][i].p THEN [s EXCEPT !.mem = n]
          ELSE IF s.esp = 0 THEN [s EXCEPT !.ok = FALSE]
          ELSE IF W = NoFrame THEN [mem |-> M, esp |-> s.esp - 1, ok |-> FALSE]
          ELSE [mem |-> ZeroWindow(M, W), esp |-> s.esp - 1, ok |-> TRUE]
  BY DEF Level
<1> HIDE DEF M, W, n, r, t
<1>5. s.ok => [s EXCEPT !.mem = n] = [mem |-> n, esp |-> s.esp, ok |-> TRUE]
  BY StageEdits
<1>6. /\ ~s.ok \/ t = NoFrame => r = [mem |-> s.mem, esp |-> s.esp, ok |-> FALSE]
      /\ s.ok /\ t # NoFrame /\ s.mem[t][i].p => r = [mem |-> n, esp |-> s.esp, ok |-> TRUE]
      /\ s.ok /\ t # NoFrame /\ ~s.mem[t][i].p /\ s.esp = 0 =>
           r = [mem |-> s.mem, esp |-> s.esp, ok |-> FALSE]
      /\ s.ok /\ t # NoFrame /\ ~s.mem[t][i].p /\ s.esp # 0 /\ W # NoFrame =>
           r = [mem |-> ZeroWindow(M, W), esp |-> s.esp - 1, ok |-> TRUE]
  BY <1>2, <1>4, <1>5
<1> QED
  BY <1>6 DEF M, W, n, r, t, LevelResult

\* Outside the frames of the stack, which new tables take, entries change only
\* in that they lead somewhere with flag u, and the page tables' not at all.
Marked(m, n, k, e, u) ==
  \A f \in Frames : (\A i \in 0 .. e - 1 : f # k[i]) =>
    \A j \in Idx :
      \/ n[f][j] = m[f][j]
      \/ n[f][j].p /\ n[f][j].user = u /\ \A w \in NonRec : f # Node(m, 4, w)

LEMMA MarkedTwice ==
  ASSUME NEW m, NEW n, NEW o, NEW k, NEW e \in Nat, NEW d \in 0 .. e, NEW S, NEW u,
         Grows(m, n, k, e, S), Marked(m, n, k, e, u), Marked(n, o, k, d, u)
  PROVE  Marked(m, o, k, e, u)
<1> SUFFICES ASSUME NEW f \in Frames, \A i \in 0 .. e - 1 : f # k[i], NEW j \in Idx,
                    o[f][j] # m[f][j]
             PROVE  o[f][j].p /\ o[f][j].user = u /\ \A w \in NonRec : f # Node(m, 4, w)
  BY DEF Marked
<1>1. \A i \in 0 .. d - 1 : f # k[i]
  OBVIOUS
<1>2. \/ n[f][j] = m[f][j]
      \/ n[f][j].p /\ n[f][j].user = u /\ \A w \in NonRec : f # Node(m, 4, w)
  BY DEF Marked
<1>3. \/ o[f][j] = n[f][j]
      \/ o[f][j].p /\ o[f][j].user = u /\ \A w \in NonRec : f # Node(n, 4, w)
  BY <1>1 DEF Marked
<1>4. ASSUME NEW w \in NonRec, f = Node(m, 4, w) PROVE f = Node(n, 4, w)
  BY <1>4, ConstantFacts DEF Grows
<1>5. CASE o[f][j] = n[f][j]
  BY <1>2, <1>5
<1>6. CASE o[f][j] # n[f][j]
  BY <1>3, <1>4, <1>6
<1> QED
  BY <1>5, <1>6

\* Entry i of table t leads somewhere, with flag u.
Flags(m, t, i, u) == m[t][i].p /\ m[t][i].user = u

\* One of mapf's three blocks, at level l of the walk for v.
LEMMA LevelGood ==
  ASSUME NEW S, S \subseteq HeapPages, NEW s \in Stages,
         Good(s.mem, stack, s.esp, S), Stocked(stack, s.esp), Root(s.mem, S, cr3),
         NEW v \in NonRec, NEW l \in 1 .. 3, NEW u \in BOOLEAN,
         NEW table, NEW window, NEW t, t = Walk(s.mem, cr3, table), NEW i, i = v[l],
         s.ok => Node(s.mem, l, v) # NoFrame,
         s.ok => \/ t = Node(s.mem, l, v)
                 \/ l = 1 /\ (\E x \in S : t = Node(s.mem, 5, x)) /\ s.mem[t][i].p,
         \A n \in Memories :
           Copy(n, PML4) /\ Copy(n, cr3) => Walk(n, cr3, window) = Node(n, l + 1, v),
         NEW r, r = Level(s, table, i, window, u)
  PROVE  /\ Passed(s, r, S) /\ Marked(s.mem, r.mem, stack, s.esp, u)
         /\ r.ok => Node(r.mem, l + 1, v) # NoFrame /\ Flags(r.mem, t, i, u)
<1> DEFINE m == s.mem
           e == s.esp
           F == Top(e)
<1>0. /\ m \in Memories /\ e \in Nat /\ s.ok \in BOOLEAN /\ v \in Pages /\ i \in Idx
      /\ NoFrame \notin Frames /\ PML4 \in Frames /\ rec \in Idx
      /\ \A b \in 1 .. 5 : Node(m, b, v) \in Frames \cup {NoFrame}
      /\ Node(m, l + 1, v) = Descend(m, Node(m, l, v), i)
  BY PagePlaces, PageFacts, ConstantFacts, NodeTyped, NodeFacts DEF Stages
<1> DEFINE M == SetEntry(m, t, i, Entry(F, u))
           n1 == SetEntry(m, t, i, Flagged(m[t][i], u))
<1>1. /\ ~s.ok \/ t = NoFrame => r = [mem |-> m, esp |-> e, ok |-> FALSE]
      /\ s.ok /\ t # NoFrame /\ m[t][i].p => r = [mem |-> n1, esp |-> e, ok |-> TRUE]
      /\ s.ok /\ t # NoFrame /\ ~m[t][i].p /\ e = 0 => r = [mem |-> m, esp |-> e, ok |-> FALSE]
      /\ s.ok /\ t # NoFrame /\ ~m[t][i].p /\ e # 0 =>
           \A w : w = Walk(M, cr3, window) /\ w # NoFrame
                  => r = [mem |-> ZeroWindow(M, w), esp |-> e - 1, ok |-> TRUE]
  <2>1. LevelResult(s, t, i, window, u, r)
    BY LevelCases
  <2> QED
    BY <2>1 DEF LevelResult
<1>2. Good(m, stack, e, S) /\ Stocked(stack, e) /\ Root(m, S, cr3)
  OBVIOUS
<1>3. s.ok => /\ t \in Frames /\ Node(m, l, v) # NoFrame
              /\ \/ t = Node(m, l, v)
                 \/ l = 1 /\ (\E x \in S : t = Node(m, 5, x)) /\ m[t][i].p
  <2>1. \A x \in S : Node(m, 5, x) \in Frames
    BY <1>2, CopyPlace
  <2> QED
    BY <2>1, <1>0
<1>4. ASSUME r = [mem |-> m, esp |-> e, ok |-> FALSE]
      PROVE  Passed(s, r, S) /\ Marked(m, r.mem, stack, e, u) /\ ~r.ok
  <2>1. r \in Stages /\ r.mem = m /\ r.esp = e /\ ~r.ok
    BY <1>0, <1>4 DEF Stages
  <2> QED
    BY <2>1, <1>0, <1>2, GrowsSelf DEF Passed, Marked
<1>5. ASSUME s.ok, m[t][i].p
      PROVE  /\ Passed(s, r, S) /\ Marked(m, r.mem, stack, e, u)
             /\ Node(r.mem, l + 1, v) # NoFrame /\ Flags(r.mem, t, i, u)
  <2>1. t \in Frames /\ t # NoFrame
    BY <1>0, <1>3, <1>5
  <2>2. t = PML4 \/ (\E x \in S : t = Node(m, 5, x)) => i # rec
    <3>1. Node(m, 1, v) = PML4 /\ v[1] # rec
      BY NodeFacts DEF NonRec
    <3>2. CASE l = 1
      BY <3>1, <3>2
    <3>3. CASE l # 1
      <4>1. t = Node(m, l, v)
        BY <3>3, <1>3, <1>5
      <4>2. t # PML4
        BY <4>1, <3>1, <3>3, <1>0, <1>2, <2>1 DEF Good, Separate
      <4>3. \A x \in S : t # Node(m, 5, x)
        BY <4>1, <1>2, CopyPlace
      <4> QED
        BY <4>2, <4>3
    <3> QED
      BY <3>2, <3>3
  <2>3. /\ Good(n1, stack, e, S) /\ Grows(m, n1, stack, e, S)
        /\ \A w \in Pages : \A b \in 1 .. 5 : Node(n1, b, w) = Node(m, b, w)
    <3> HIDE DEF m, e
    <3> QED
      BY <2>1, <2>2, <1>0, <1>2, <1>5, FlagEdit, SMTT(30)
  <2>4. n1 \in Memories
    BY <2>3 DEF Good
  <2>5. r = [mem |-> n1, esp |-> e, ok |-> TRUE]
    BY <2>1, <1>1, <1>5
  <2>10. \A w \in NonRec : t # Node(m, 4, w)
    <3>1. CASE t = Node(m, l, v)
      BY <3>1, <2>1, <1>2 DEF Good, Separate
    <3>2. CASE \E x \in S : t = Node(m, 5, x)
      BY <3>2, <1>2, CopyPlace
    <3> QED
      BY <3>1, <3>2, <1>3, <1>5
  <2>11. Marked(m, n1, stack, e, u) /\ Flags(n1, t, i, u)
    <3> DEFINE g == Entry(m[t][i].to, u)
    <3>1. m[t][i].to \in Frames
      BY <2>1, <1>0, MemoryFacts
    <3>2. g \in Entries /\ g.p /\ g.user = u
      BY <3>1, EntryFacts
    <3>3. n1 = SetEntry(m, t, i, g)
      BY DEF Flagged
    <3> HIDE DEF g, n1, m, e
    <3>4. \A f \in Frames : \A j \in Idx :
            SetEntry(m, t, i, g)[f][j] = IF f = t /\ j = i THEN g ELSE m[f][j]
      <4>1. m \in Memories /\ t \in Frames /\ i \in Idx /\ g \in Entries
        BY <3>2, <2>1, <1>0
      <4> QED
        BY <4>1, SetEntryFacts
    <3>5. \A f \in Frames : \A j \in Idx : n1[f][j] = IF f = t /\ j = i THEN g ELSE m[f][j]
      BY <3>3, <3>4
    <3> QED
      BY <3>2, <3>5, <2>1, <2>10, <1>0 DEF Marked, Flags
  <2>6. Node(m, l + 1, v) # NoFrame
    <3>1. CASE t = Node(m, l, v)
      BY <3>1, <2>1, <1>0, <1>5, DescendFacts
    <3>2. CASE l = 1 /\ \E x \in S : t = Node(m, 5, x)
      <4>1. Copy(m, t)
        BY <3>2, <1>2, CopyPlace
      <4>2. m[PML4][i].p
        BY <4>1, <1>0, <1>5 DEF Copy
      <4>3. Node(m, l, v) = PML4
        BY <3>2, NodeFacts
      <4> QED
        BY <4>2, <4>3, <1>0, DescendFacts
    <3> QED
      BY <3>1, <3>2, <1>3, <1>5
  <2> HIDE DEF m, e, n1
  <2>7. r \in Stages /\ r.mem = n1 /\ r.esp = e
    BY <2>4, <2>5, <1>0 DEF Stages
  <2>8. Passed(s, r, S)
    BY <2>3, <2>7, <1>0, <1>5 DEF Passed, m, e
  <2>9. Node(r.mem, l + 1, v) = Node(m, l + 1, v)
    BY <2>3, <2>7, <1>0
  <2>12. Marked(m, r.mem, stack, e, u) /\ Flags(r.mem, t, i, u)
    BY <2>7, <2>11
  <2> QED
    BY <2>6, <2>8, <2>9, <2>12 DEF m, e
<1>6. ASSUME s.ok, ~m[t][i].p, e # 0
      PROVE  /\ Passed(s, r, S) /\ Marked(m, r.mem, stack, e, u)
             /\ Node(r.mem, l + 1, v) # NoFrame /\ Flags(r.mem, t, i, u)
  <2>1. t = Node(m, l, v) /\ t # NoFrame /\ t \in Frames
    BY <1>0, <1>3, <1>6
  <2>2. F \in Frames /\ e - 1 \in Nat /\ e \in Nat \ {0}
    BY <1>0, <1>2, <1>6 DEF Stocked, Top
  <2> HIDE DEF m, e, F
  <2>3. M \in Memories /\ Copy(M, PML4) /\ Copy(M, cr3) /\ Node(M, l + 1, v) = F
    BY <2>1, <2>2, <1>2, <1>6, TableSeen
  <2> DEFINE n == ZeroWindow(M, F)
  <2> HIDE DEF M
  <2>4. Walk(M, cr3, window) = F
    BY <2>3
  <2>5. r = [mem |-> n, esp |-> e - 1, ok |-> TRUE]
    BY <2>1, <2>2, <2>4, <1>0, <1>1, <1>6
  <2>6. /\ Good(n, stack, e - 1, S)
        /\ \A w \in NonRec : \A b \in 1 .. 5 :
             Node(n, b, w) = IF b = l + 1 /\ Agree(b, v, w) THEN F ELSE Node(m, b, w)
        /\ \A x \in S : \A j \in Idx : n[Node(m, 5, x)][j] = m[Node(m, 5, x)][j]
    <3>1. n = ZeroWindow(SetEntry(m, Node(m, l, v), v[l], Entry(stack[e - 1], u)), stack[e - 1])
      BY <2>1 DEF M, F, Top
    <3>2. ~m[Node(m, l, v)][v[l]].p /\ Node(m, l, v) # NoFrame
      BY <2>1, <1>6
    <3>3. e \in Nat \ {0}
      BY <2>2
    <3> HIDE DEF n
    <3>4. TableAdded(m, n, stack, e, S, v, l)
      BY <3>1, <3>2, <3>3, <1>2, TableKeepsGood
    <3> QED
      BY <3>4 DEF F, Top, TableAdded
  <2>7. Grows(m, n, stack, e, S)
    <3>1. ASSUME NEW w \in NonRec, NEW b \in 1 .. 5, Node(n, b, w) # Node(m, b, w)
          PROVE  /\ Node(m, b, w) = NoFrame /\ b < 5
                 /\ \E j \in 0 .. e - 1 : Node(n, b, w) = stack[j]
      <4>1. b = l + 1 /\ Agree(b, v, w) /\ Node(n, b, w) = F
        BY <3>1, <2>6
      <4>2. w \in Pages /\ Agree(l, v, w)
        BY <4>1, PagePlaces DEF Agree
      <4>3. Node(m, b, w) = Node(m, b, v) /\ Node(m, b, v) = NoFrame
        BY <4>1, <4>2, <2>1, <1>0, <1>6, NodeAgrees, DescendFacts
      <4>4. e - 1 \in 0 .. e - 1 /\ b < 5
        BY <4>1, <2>2
      <4> QED
        BY <4>1, <4>3, <4>4 DEF F, Top
    <3> QED
      BY <3>1, <2>6 DEF Grows
  <2>8. n \in Memories
    BY <2>6 DEF Good
  <2> HIDE DEF n
  <2>9. r \in Stages /\ r.mem = n /\ r.esp = e - 1
    BY <2>2, <2>5, <2>8 DEF Stages
  <2>10. Passed(s, r, S)
    BY <2>2, <2>6, <2>7, <2>9, <1>6 DEF Passed, m, e
  <2>11. Node(n, l + 1, v) = F
    BY <2>6, <1>0, AgreeFacts DEF Agree
  <2>12. Marked(m, n, stack, e, u) /\ Flags(n, t, i, u)
    <3> DEFINE g == Entry(F, u)
    <3>1. g \in Entries /\ g.p /\ g.user = u
      BY <2>2, EntryFacts
    <3>6. M = SetEntry(m, t, i, g)
      BY DEF M
    <3> HIDE DEF g
    <3>2. \A f \in Frames : \A j \in Idx : M[f][j] = IF f = t /\ j = i THEN g ELSE m[f][j]
      <4>1. m \in Memories /\ t \in Frames /\ i \in Idx /\ g \in Entries
        BY <3>1, <2>1, <1>0
      <4>2. \A f \in Frames : \A j \in Idx :
              SetEntry(m, t, i, g)[f][j] = IF f = t /\ j = i THEN g ELSE m[f][j]
        BY <4>1, SetEntryFacts
      <4> QED
        BY <4>2, <3>6
    <3>3. \A f \in Frames : \A j \in Idx : n[f][j] = IF f = F THEN None ELSE M[f][j]
      BY <2>2, <2>3, ZeroFacts DEF n
    <3>4. F = stack[e - 1] /\ e - 1 \in 0 .. e - 1
      BY <2>2 DEF F, Top
    <3>5. t # F /\ \A w \in NonRec : t # Node(m, 4, w)
      BY <3>4, <2>1, <1>2 DEF Good, Unused, Separate, m, e
    <3> QED
      BY <3>1, <3>2, <3>3, <3>4, <3>5, <2>1, <1>0 DEF Marked, Flags
  <2> QED
    BY <2>2, <2>9, <2>10, <2>11, <2>12, <1>0 DEF m, e
<1>7. CASE ~s.ok
  BY <1>1, <1>4, <1>7
<1>8. CASE s.ok /\ m[t][i].p
  BY <1>5, <1>8
<1>9. CASE s.ok /\ ~m[t][i].p /\ e = 0
  BY <1>1, <1>4, <1>9
<1>10. CASE s.ok /\ ~m[t][i].p /\ e # 0
  BY <1>6, <1>10
<1> QED
  BY <1>7, <1>8, <1>9, <1>10

\* From m to n page v may move as well.
Edited(m, n, k, e, S, v) ==
  /\ \A w \in NonRec : \A b \in 1 .. 5 :
       \/ b = 5 /\ w = v
       \/ Node(n, b, w) = Node(m, b, w)
       \/ Node(m, b, w) = NoFrame /\ b < 5 /\ \E i \in 0 .. e - 1 : Node(n, b, w) = k[i]
  /\ \A x \in S : \A i \in Idx : n[Node(m, 5, x)][i].p = m[Node(m, 5, x)][i].p

LEMMA GrowsEdited ==
  ASSUME NEW m, NEW n, NEW k, NEW e, NEW S, NEW v, Grows(m, n, k, e, S)
  PROVE  Edited(m, n, k, e, S, v)
BY DEF Grows, Edited

\* Tables are added, then page v is entered in the last of them.
LEMMA GrownLeaf ==
  ASSUME NEW m, NEW n, NEW o, NEW k, NEW e, NEW d, NEW S, S \subseteq HeapPages, NEW v, NEW c,
         Grows(m, n, k, e, S), LeafSet(n, o, k, d, S, v, c)
  PROVE  Edited(m, o, k, e, S, v)
<1>1. ASSUME NEW w \in NonRec, NEW b \in 1 .. 5
      PROVE  \/ b = 5 /\ w = v
             \/ Node(o, b, w) = Node(m, b, w)
             \/ Node(m, b, w) = NoFrame /\ b < 5 /\ \E i \in 0 .. e - 1 : Node(o, b, w) = k[i]
  BY DEF Grows, LeafSet
<1>2. ASSUME NEW x \in S, NEW i \in Idx
      PROVE  o[Node(m, 5, x)][i].p = m[Node(m, 5, x)][i].p
  <2>1. Node(n, 5, x) = Node(m, 5, x)
    BY PagePlaces DEF Grows
  <2>2. n[Node(m, 5, x)][i].p = m[Node(m, 5, x)][i].p
    BY DEF Grows
  <2>3. o[Node(n, 5, x)][i] = n[Node(n, 5, x)][i]
    BY DEF LeafSet
  <2> QED
    BY <2>1, <2>2, <2>3
<1> QED
  BY <1>1, <1>2 DEF Edited

\* What a stage of mapf starts from.
Ready(s, S) ==
  /\ s \in Stages /\ Good(s.mem, stack, s.esp, S) /\ Stocked(stack, s.esp)
  /\ Root(s.mem, S, cr3)

LEMMA PassedReady ==
  ASSUME NEW S, S \subseteq HeapPages, NEW s, Ready(s, S), NEW r, Passed(s, r, S)
  PROVE  Ready(r, S)
<1>1. r \in Stages /\ Good(r.mem, stack, r.esp, S) /\ r.esp \in 0 .. s.esp
  BY DEF Passed
<1>2. Stocked(stack, r.esp)
  BY <1>1, Poppable DEF Ready
<1>3. Root(r.mem, S, cr3)
  BY RootGrows DEF Ready, Passed
<1> QED
  BY <1>1, <1>2, <1>3 DEF Ready

LEMMA ReadyWalks ==
  ASSUME NEW S, S \subseteq HeapPages, NEW s, Ready(s, S), NEW v \in Pages
  PROVE  /\ Walk(s.mem, cr3, PDP_MAPPING(v[1])) = Node(s.mem, 2, v)
         /\ Walk(s.mem, cr3, PD_MAPPING(v[1], v[2])) = Node(s.mem, 3, v)
         /\ Walk(s.mem, cr3, PT_MAPPING(v[1], v[2], v[3])) = Node(s.mem, 4, v)
<1>1. s.mem \in Memories /\ Copy(s.mem, PML4) /\ cr3 \in Frames /\ Copy(s.mem, cr3)
  BY RootFacts DEF Ready
<1> QED
  BY <1>1, RootWalks

\* The page at which the kernel edits its PML4 leads the processor to it.
LEMMA CurrentWalk ==
  ASSUME NEW m, NEW k, NEW e, NEW S, Good(m, k, e, S), S \subseteq HeapPages,
         NEW c, NEW p, Current(m, c, p, S)
  PROVE  /\ Root(m, S, c) /\ Walk(m, c, p) = c
         /\ c # PML4 => \E x \in S : c = Node(m, 5, x)
<1>1. p \in Pages /\ p[1] = 0
  BY PagePlaces DEF Current
<1>2. c = Node(m, 5, p) /\ Node(m, 5, kernel_space) = PML4
  BY DEF Current, Good
<1>3. Root(m, S, c)
  BY <1>2 DEF Root, Current
<1>4. m \in Memories /\ Copy(m, PML4) /\ c \in Frames /\ Copy(m, c)
  BY <1>3, RootFacts
<1>5. Walk(m, c, p) = IF m[c][p[1]].p THEN Node(m, 5, p) ELSE NoFrame
  BY <1>1, <1>4, RootWalks
<1>6. Walk(m, c, p) = c
  BY <1>1, <1>2, <1>4, <1>5 DEF Copy
<1> QED
  BY <1>3, <1>6 DEF Root

LEMMA LeafCases ==
  ASSUME NEW s \in Stages, NEW table, NEW i, NEW c, NEW t, t = Walk(s.mem, cr3, table)
  PROVE  /\ ~s.ok \/ t = NoFrame =>
              Leaf(s, table, i, c) = [mem |-> s.mem, esp |-> s.esp, ok |-> FALSE]
         /\ s.ok /\ t # NoFrame =>
              Leaf(s, table, i, c) = [mem |-> SetEntry(s.mem, t, i, c), esp |-> s.esp, ok |-> TRUE]
<1> DEFINE n == SetEntry(s.mem, t, i, c)
<1>1. Leaf(s, table, i, c) = IF ~s.ok \/ t = NoFrame THEN [s EXCEPT !.ok = FALSE]
                             ELSE [s EXCEPT !.mem = n]
  BY DEF Leaf
<1> HIDE DEF n
<1>2. /\ [s EXCEPT !.ok = FALSE] = [mem |-> s.mem, esp |-> s.esp, ok |-> FALSE]
      /\ s.ok => [s EXCEPT !.mem = n] = [mem |-> n, esp |-> s.esp, ok |-> TRUE]
  BY StageEdits
<1>3. /\ ~s.ok \/ t = NoFrame =>
           Leaf(s, table, i, c) = [mem |-> s.mem, esp |-> s.esp, ok |-> FALSE]
      /\ s.ok /\ t # NoFrame => Leaf(s, table, i, c) = [mem |-> n, esp |-> s.esp, ok |-> TRUE]
  BY <1>1, <1>2
<1> QED
  BY <1>3 DEF n

\* mapf maps page v to frame f, or stops for want of frames.
MapsTo(s, r, S, v, f) ==
  /\ r \in Stages /\ Good(r.mem, stack, r.esp, S)
  /\ r.esp \in 0 .. s.esp
  /\ Edited(s.mem, r.mem, stack, s.esp, S, v)
  /\ Node(r.mem, 5, v) = IF r.ok THEN f ELSE Node(s.mem, 5, v)

\* A PML4 is not on the frame stack.
LEMMA RootUnused ==
  ASSUME NEW m, NEW k, NEW e, NEW S, Good(m, k, e, S), S \subseteq HeapPages,
         NEW c, Root(m, S, c)
  PROVE  \A i \in 0 .. e - 1 : c # k[i]
<1>1. \A i \in 0 .. e - 1 : Node(m, 1, kernel_space) # k[i]
  BY PagePlaces DEF Good, Unused
<1>2. \A x \in S : \A i \in 0 .. e - 1 : Node(m, 5, x) # k[i]
  BY PagePlaces DEF Good, Unused
<1>3. Node(m, 1, kernel_space) = PML4
  BY NodeFacts
<1> QED
  BY <1>1, <1>2, <1>3 DEF Root

\* mapf has added the tables for page v, or stopped, and the entries on the way
\* have flag u.
Tabled(s, r, S, v, u) ==
  /\ Ready(r, S) /\ Passed(s, r, S) /\ Marked(s.mem, r.mem, stack, s.esp, u)
  /\ r.ok => /\ Node(r.mem, 4, v) # NoFrame
             /\ Flags(r.mem, cr3, v[1], u)
             /\ Flags(r.mem, Node(r.mem, 2, v), v[2], u)
             /\ Flags(r.mem, Node(r.mem, 3, v), v[3], u)

\* The pages at which the processor finds the tables above page v.
Shown(v, pdp, pd, pt) ==
  \A n \in Memories :
    Copy(n, PML4) /\ Copy(n, cr3) =>
      /\ Walk(n, cr3, pdp) = Node(n, 2, v)
      /\ Walk(n, cr3, pd) = Node(n, 3, v)
      /\ Walk(n, cr3, pt) = Node(n, 4, v)

LEMMA MapStages ==
  ASSUME NEW S, S \subseteq HeapPages, NEW s, Ready(s, S), s.ok,
         Current(s.mem, cr3, current_pml4, S),
         NEW v \in NonRec, cr3 # PML4 => v[1] = 0, NEW u \in BOOLEAN,
         NEW pdp, NEW pd, NEW pt, Shown(v, pdp, pd, pt),
         NEW s1, s1 = Level(s, current_pml4, v[1], pdp, u),
         NEW s2, s2 = Level(s1, pdp, v[2], pd, u),
         NEW s3, s3 = Level(s2, pd, v[3], pt, u)
  PROVE  Tabled(s, s3, S, v, u) /\ Walk(s3.mem, cr3, pt) = Node(s3.mem, 4, v)
<1>0. /\ v \in Pages /\ s \in Stages /\ s.esp \in Nat /\ NoFrame \notin Frames /\ PML4 \in Frames
      /\ Good(s.mem, stack, s.esp, S) /\ v[1] \in Idx
  BY PagePlaces, PageFacts, ConstantFacts DEF Ready, Stages
<1>1. /\ Root(s.mem, S, cr3) /\ Walk(s.mem, cr3, current_pml4) = cr3
      /\ cr3 # PML4 => \E x \in S : cr3 = Node(s.mem, 5, x)
  BY <1>0, CurrentWalk
<1>2. \A n \in Memories :
        Copy(n, PML4) /\ Copy(n, cr3) =>
          Walk(n, cr3, pdp) = Node(n, 2, v) /\ Walk(n, cr3, pd) = Node(n, 3, v)
          /\ Walk(n, cr3, pt) = Node(n, 4, v)
  BY DEF Shown
<1>w. \A q : Ready(q, S) => /\ Walk(q.mem, cr3, pdp) = Node(q.mem, 2, v)
                            /\ Walk(q.mem, cr3, pd) = Node(q.mem, 3, v)
                            /\ Walk(q.mem, cr3, pt) = Node(q.mem, 4, v)
  <2> SUFFICES ASSUME NEW q, Ready(q, S)
               PROVE  /\ Walk(q.mem, cr3, pdp) = Node(q.mem, 2, v)
                      /\ Walk(q.mem, cr3, pd) = Node(q.mem, 3, v)
                      /\ Walk(q.mem, cr3, pt) = Node(q.mem, 4, v)
    OBVIOUS
  <2>1. q.mem \in Memories /\ Copy(q.mem, PML4) /\ Copy(q.mem, cr3)
    BY RootFacts DEF Ready
  <2> QED
    BY <2>1, <1>2
<1>3. /\ Passed(s, s1, S) /\ Marked(s.mem, s1.mem, stack, s.esp, u)
      /\ s1.ok => Node(s1.mem, 2, v) # NoFrame /\ Flags(s1.mem, cr3, v[1], u)
  <2>1. Node(s.mem, 1, v) = PML4
    BY NodeFacts
  <2>2. \/ cr3 = Node(s.mem, 1, v)
        \/ (\E x \in S : cr3 = Node(s.mem, 5, x)) /\ s.mem[cr3][v[1]].p
    <3>1. CASE cr3 = PML4
      BY <2>1, <3>1
    <3>2. CASE cr3 # PML4
      <4>1. Copy(s.mem, cr3)
        BY <1>0, <1>1, RootFacts
      <4> QED
        BY <4>1, <3>2, <1>1 DEF Copy
    <3> QED
      BY <3>1, <3>2
  <2>3. \A n \in Memories :
          Copy(n, PML4) /\ Copy(n, cr3) => Walk(n, cr3, pdp) = Node(n, 1 + 1, v)
    BY <1>2
  <2>4. Stocked(stack, s.esp)
    BY DEF Ready
  <2>5. Node(s.mem, 1, v) # NoFrame
    BY <2>1, <1>0
  <2>6. /\ Passed(s, s1, S) /\ Marked(s.mem, s1.mem, stack, s.esp, u)
        /\ s1.ok => Node(s1.mem, 1 + 1, v) # NoFrame /\ Flags(s1.mem, cr3, v[1], u)
    BY <2>2, <2>3, <2>4, <2>5, <1>0, <1>1, LevelGood
  <2> QED
    BY <2>6
<1>4. Ready(s1, S)
  BY <1>3, PassedReady
<1>5. /\ Passed(s1, s2, S) /\ Marked(s1.mem, s2.mem, stack, s1.esp, u)
      /\ s2.ok => Node(s2.mem, 3, v) # NoFrame /\ Flags(s2.mem, Node(s1.mem, 2, v), v[2], u)
  <2>1. Walk(s1.mem, cr3, pdp) = Node(s1.mem, 2, v)
    BY <1>4, <1>w
  <2>2. \A n \in Memories :
          Copy(n, PML4) /\ Copy(n, cr3) => Walk(n, cr3, pd) = Node(n, 2 + 1, v)
    BY <1>2
  <2>3. s1 \in Stages /\ Good(s1.mem, stack, s1.esp, S) /\ Stocked(stack, s1.esp) /\ Root(s1.mem, S, cr3)
    BY <1>4 DEF Ready
  <2>4. /\ Passed(s1, s2, S) /\ Marked(s1.mem, s2.mem, stack, s1.esp, u)
        /\ s2.ok => Node(s2.mem, 2 + 1, v) # NoFrame /\ Flags(s2.mem, Node(s1.mem, 2, v), v[2], u)
    BY <2>1, <2>2, <2>3, <1>3, LevelGood
  <2> QED
    BY <2>4
<1>6. Ready(s2, S)
  BY <1>4, <1>5, PassedReady
<1>7. /\ Passed(s2, s3, S) /\ Marked(s2.mem, s3.mem, stack, s2.esp, u)
      /\ s3.ok => Node(s3.mem, 4, v) # NoFrame /\ Flags(s3.mem, Node(s2.mem, 3, v), v[3], u)
  <2>1. Walk(s2.mem, cr3, pd) = Node(s2.mem, 3, v)
    BY <1>6, <1>w
  <2>2. \A n \in Memories :
          Copy(n, PML4) /\ Copy(n, cr3) => Walk(n, cr3, pt) = Node(n, 3 + 1, v)
    BY <1>2
  <2>3. s2 \in Stages /\ Good(s2.mem, stack, s2.esp, S) /\ Stocked(stack, s2.esp) /\ Root(s2.mem, S, cr3)
    BY <1>6 DEF Ready
  <2>4. /\ Passed(s2, s3, S) /\ Marked(s2.mem, s3.mem, stack, s2.esp, u)
        /\ s3.ok => Node(s3.mem, 3 + 1, v) # NoFrame /\ Flags(s3.mem, Node(s2.mem, 3, v), v[3], u)
    BY <2>1, <2>2, <2>3, <1>5, LevelGood
  <2> QED
    BY <2>4
<1>8. Ready(s3, S) /\ Passed(s, s3, S)
  <2>1. s1 \in Stages
    BY <1>4 DEF Ready
  <2>2. Passed(s, s2, S)
    BY <2>1, <1>0, <1>3, <1>5, PassedTwice
  <2> QED
    BY <2>2, <1>0, <1>6, <1>7, PassedReady, PassedTwice
<1>9. /\ s1.esp \in 0 .. s.esp /\ s2.esp \in 0 .. s1.esp /\ s3.esp \in 0 .. s2.esp
      /\ Good(s1.mem, stack, s1.esp, S) /\ Good(s2.mem, stack, s2.esp, S)
      /\ Grows(s.mem, s1.mem, stack, s.esp, S) /\ Grows(s1.mem, s2.mem, stack, s1.esp, S)
      /\ Grows(s2.mem, s3.mem, stack, s2.esp, S)
      /\ s3.ok => s2.ok /\ (s2.ok => s1.ok)
  BY <1>3, <1>5, <1>7 DEF Passed
<1>10. Marked(s.mem, s3.mem, stack, s.esp, u)
  <2>1. s1.esp \in Nat /\ s2.esp \in Nat /\ s2.esp \in 0 .. s.esp
    BY <1>0, <1>9
  <2>2. Passed(s, s2, S)
    BY <1>0, <1>3, <1>4, <1>5, PassedTwice DEF Ready
  <2>3. Marked(s.mem, s2.mem, stack, s.esp, u) /\ Grows(s.mem, s2.mem, stack, s.esp, S)
    BY <2>2, <1>0, <1>3, <1>5, <1>9, MarkedTwice, SMTT(30) DEF Passed
  <2> QED
    BY <2>1, <2>3, <1>0, <1>7, MarkedTwice
<1>11. ASSUME s3.ok PROVE Flags(s3.mem, cr3, v[1], u)
  <2>1. Flags(s1.mem, cr3, v[1], u) /\ v[1] \in Idx /\ cr3 \in Frames
    BY <1>0, <1>1, <1>3, <1>9, <1>11, RootFacts
  <2>2. Root(s1.mem, S, cr3) /\ Root(s2.mem, S, cr3)
    BY <1>4, <1>6 DEF Ready
  <2>3. \A i \in 0 .. s1.esp - 1 : cr3 # stack[i]
    BY <2>2, <1>9, RootUnused
  <2>4. \A i \in 0 .. s2.esp - 1 : cr3 # stack[i]
    BY <2>2, <1>9, RootUnused
  <2>5. Flags(s2.mem, cr3, v[1], u)
    BY <2>1, <2>3, <1>5, SMTT(30) DEF Marked, Flags
  <2> QED
    BY <2>1, <2>4, <2>5, <1>7 DEF Marked, Flags
<1>12. ASSUME s3.ok PROVE Flags(s3.mem, Node(s3.mem, 2, v), v[2], u)
  <2> DEFINE f == Node(s1.mem, 2, v)
  <2>1. f # NoFrame /\ f = Node(s2.mem, 2, v) /\ f = Node(s3.mem, 2, v)
    <3>1. f # NoFrame
      BY <1>3, <1>9, <1>12
    <3>2. Node(s2.mem, 2, v) = Node(s1.mem, 2, v)
      BY <1>9, <3>1, GrowsKeeps
    <3>3. Node(s3.mem, 2, v) = Node(s2.mem, 2, v)
      BY <1>9, <3>1, <3>2, GrowsKeeps
    <3> QED
      BY <3>1, <3>2, <3>3
  <2>2. f \in Frames
    BY <2>1, <1>0, <1>9, NodeTyped DEF Good
  <2>3. Flags(s2.mem, f, v[2], u) /\ v[2] \in Idx
    BY <1>0, <1>5, <1>9, <1>12, PageFacts
  <2>4. \A i \in 0 .. s2.esp - 1 : f # stack[i]
    BY <2>1, <1>9 DEF Good, Unused
  <2> HIDE DEF f
  <2>5. Flags(s3.mem, f, v[2], u)
    BY <2>2, <2>3, <2>4, <1>7 DEF Marked, Flags
  <2> QED
    BY <2>1, <2>5
<1>13. ASSUME s3.ok PROVE Flags(s3.mem, Node(s3.mem, 3, v), v[3], u)
  <2>2. Node(s2.mem, 3, v) # NoFrame /\ Grows(s2.mem, s3.mem, stack, s2.esp, S)
    BY <1>5, <1>9, <1>13
  <2>1. Node(s3.mem, 3, v) = Node(s2.mem, 3, v)
    BY <2>2 DEF Grows
  <2> QED
    BY <2>1, <1>7, <1>13
<1> QED
  BY <1>6, <1>7, <1>8, <1>10, <1>11, <1>12, <1>13, <1>w DEF Tabled

-----------------------------------------------------------------------------
(* What user code may use                                                  *)

\* Page w is mapped, with the USER flag in its own entry, and in all four that
\* lead to it from the PML4 or copy in frame d.
OpenLeaf(m, w) == Node(m, 5, w) # NoFrame /\ Flags(m, Node(m, 4, w), w[4], TRUE)
Opens(m, d, w) ==
  /\ Flags(m, d, w[1], TRUE)
  /\ Flags(m, Node(m, 2, w), w[2], TRUE) /\ Flags(m, Node(m, 3, w), w[3], TRUE)
  /\ OpenLeaf(m, w)

\* Mapping page v with flag u opens no page, or page v and closes none.
UserEdit(m, n, S, c, v, u) ==
  /\ \A w \in NonRec : OpenLeaf(n, w) => IF w = v THEN u ELSE OpenLeaf(m, w)
  /\ u => /\ Opens(n, c, v)
          /\ \A d : Root(m, S, d) =>
               \A w \in NonRec : Opens(m, d, w) => Opens(n, d, w)

\* What the walk to a page that is mapped meets.
LEMMA MappedPath ==
  ASSUME NEW m \in Memories, NEW w \in Pages, Node(m, 5, w) # NoFrame
  PROVE  \A b \in 1 .. 4 : /\ Node(m, b, w) # NoFrame /\ Node(m, b, w) \in Frames
                           /\ m[Node(m, b, w)][w[b]].p
<1>1. /\ \A b \in 1 .. 5 : Node(m, b, w) \in Frames \cup {NoFrame}
      /\ w[1] \in Idx /\ w[2] \in Idx /\ w[3] \in Idx /\ w[4] \in Idx
  BY NodeTyped, PageFacts
<1>2. ASSUME NEW b \in 1 .. 4, Node(m, b + 1, w) # NoFrame
      PROVE  Node(m, b, w) # NoFrame /\ m[Node(m, b, w)][w[b]].p
  <2>1. Node(m, b + 1, w) = Descend(m, Node(m, b, w), w[b])
    BY NodeFacts
  <2> QED
    BY <2>1, <1>2 DEF Descend
<1>3. Node(m, 4, w) # NoFrame /\ m[Node(m, 4, w)][w[4]].p
  BY <1>2
<1>4. Node(m, 3, w) # NoFrame /\ m[Node(m, 3, w)][w[3]].p
  BY <1>2, <1>3
<1>5. Node(m, 2, w) # NoFrame /\ m[Node(m, 2, w)][w[2]].p
  BY <1>2, <1>4
<1>6. Node(m, 1, w) # NoFrame /\ m[Node(m, 1, w)][w[1]].p
  BY <1>2, <1>5
<1> QED
  BY <1>1, <1>3, <1>4, <1>5, <1>6

LEMMA LeafFlags ==
  ASSUME NEW S, S \subseteq HeapPages, NEW s, Good(s.mem, stack, s.esp, S),
         NEW q, NEW v \in NonRec, NEW u \in BOOLEAN, Tabled(s, q, S, v, u), q.ok,
         NEW c \in Entries, c.p, c.user = u,
         NEW n, n = SetEntry(q.mem, Node(q.mem, 4, v), v[4], c),
         LeafSet(q.mem, n, stack, q.esp, S, v, c)
  PROVE  UserEdit(s.mem, n, S, cr3, v, u)
<1> DEFINE m == s.mem
           o == q.mem
           T == Node(o, 4, v)
           I == v[4]
<1>1. /\ Good(m, stack, s.esp, S) /\ Good(o, stack, q.esp, S) /\ m \in Memories /\ o \in Memories
      /\ Grows(m, o, stack, s.esp, S) /\ Marked(m, o, stack, s.esp, u) /\ Root(o, S, cr3)
      /\ NonRec \subseteq Pages /\ NoFrame \notin Frames
      /\ T # NoFrame /\ Flags(o, cr3, v[1], u)
      /\ Flags(o, Node(o, 2, v), v[2], u) /\ Flags(o, Node(o, 3, v), v[3], u)
  BY PagePlaces, ConstantFacts DEF Tabled, Ready, Passed, Good
<1>2. T \in Frames /\ \A w \in NonRec : \A b \in 1 .. 4 : w[b] \in Idx
  BY <1>1, NodeTyped, PageFacts
<1>3. \A f \in Frames : \A j \in Idx : n[f][j] = IF f = T /\ j = I THEN c ELSE o[f][j]
  <2> HIDE DEF o, T, I
  <2>1. v[4] \in Idx
    BY <1>2
  <2>2. I \in Idx /\ n = SetEntry(o, T, I, c)
    BY <2>1 DEF o, T, I
  <2>3. \A f \in Frames : \A j \in Idx :
          SetEntry(o, T, I, c)[f][j] = IF f = T /\ j = I THEN c ELSE o[f][j]
    <3>1. o \in Memories /\ T \in Frames /\ I \in Idx
      BY <2>2, <1>1, <1>2
    <3> QED
      BY <3>1, SetEntryFacts
  <2> QED
    BY <2>2, <2>3
<1>4. /\ \A w \in NonRec : \A b \in 1 .. 4 : Node(n, b, w) = Node(o, b, w)
      /\ \A w \in NonRec : w # v => Node(n, 5, w) = Node(o, 5, w)
      /\ Node(n, 5, v) # NoFrame
  <2>1. c.to \in Frames
    BY DEF Entries
  <2> HIDE DEF o
  <2> QED
    BY <2>1, <1>1 DEF LeafSet, o
<1> HIDE DEF m, o
<1>5. ASSUME NEW w \in NonRec, NEW b \in 1 .. 5, Node(m, b, w) # NoFrame
      PROVE  /\ Node(o, b, w) = Node(m, b, w)
             /\ \A i \in 0 .. s.esp - 1 : Node(m, b, w) # stack[i]
  BY <1>1, <1>5 DEF Grows, Good, Unused
<1>6. \A w \in NonRec : \A b \in 1 .. 3 : Node(o, b, w) # T
  BY <1>1 DEF Good, Separate
<1>7. ASSUME NEW d, Root(o, S, d) PROVE d # T
  <2>1. d = PML4 => d = Node(o, 1, v)
    BY NodeFacts
  <2> QED
    BY <2>1, <1>1, <1>6, <1>7, CopyPlace DEF Root
\* A page mapped before keeps its own entry.
<1>8. ASSUME NEW w \in NonRec, w # v, Node(m, 5, w) # NoFrame
      PROVE  /\ Node(n, 5, w) # NoFrame /\ Node(n, 4, w) = Node(m, 4, w)
             /\ n[Node(m, 4, w)][w[4]] = m[Node(m, 4, w)][w[4]]
  <2> DEFINE f == Node(m, 4, w)
  <2>1. f \in Frames /\ f # NoFrame /\ w[4] \in Idx
    BY <1>1, <1>2, <1>8, MappedPath
  <2>2. f = Node(o, 4, w) /\ f = Node(n, 4, w) /\ \A i \in 0 .. s.esp - 1 : f # stack[i]
    BY <2>1, <1>4, <1>5
  <2>3. Node(n, 5, w) # NoFrame
    BY <1>4, <1>5, <1>8
  <2>4. ~(f = T /\ w[4] = I)
    <3>1. SUFFICES ASSUME f = T, w[4] = I PROVE FALSE
      OBVIOUS
    <3>2. Agree(4, v, w)
      BY <3>1, <2>2, <1>1 DEF Good, Separate
    <3>3. v \in Pages /\ w \in Pages
      BY <1>1
    <3>4. v[1] = w[1] /\ v[2] = w[2] /\ v[3] = w[3] /\ v[4] = w[4]
      BY <3>1, <3>2, <3>3, AgreeFacts
    <3>5. v = w
      BY <3>3, <3>4, PageFacts
    <3> QED
      BY <3>5, <1>8
  <2> HIDE DEF f
  <2>5. n[f][w[4]] = o[f][w[4]]
    BY <2>1, <2>4, <1>3
  <2>6. o[f][w[4]] = m[f][w[4]]
    <3>1. f = Node(m, 4, w)
      BY DEF f
    <3> QED
      BY <3>1, <2>1, <2>2, <1>1 DEF Marked
  <2> QED
    BY <2>2, <2>3, <2>5, <2>6 DEF f
<1>9. Flags(n, T, I, TRUE) <=> u = TRUE
  <2>1. I \in Idx /\ n[T][I] = IF T = T /\ I = I THEN c ELSE o[T][I]
    BY <1>2, <1>3
  <2> HIDE DEF T, I
  <2>2. n[T][I] = c
    BY <2>1
  <2> QED
    BY <2>2 DEF Flags
<1>w. ASSUME NEW w \in NonRec
      PROVE  /\ w[1] \in Idx /\ w[2] \in Idx /\ w[3] \in Idx
             /\ Node(n, 2, w) = Node(o, 2, w) /\ Node(n, 3, w) = Node(o, 3, w)
             /\ Node(n, 4, w) = Node(o, 4, w)
             /\ Node(o, 2, w) # T /\ Node(o, 3, w) # T
  BY <1>1, <1>4, <1>6, PageFacts
<1>10. ASSUME NEW w \in NonRec, OpenLeaf(n, w)
       PROVE  IF w = v THEN u = TRUE ELSE OpenLeaf(m, w)
  <2>1. CASE w = v
    BY <2>1, <1>w, <1>9, <1>10 DEF OpenLeaf
  <2>2. CASE w # v
    <3>1. Node(m, 5, w) # NoFrame
      BY <2>2, <1>1, <1>4, <1>10 DEF OpenLeaf, Grows
    <3> QED
      BY <3>1, <2>2, <1>8, <1>10 DEF OpenLeaf, Flags
  <2> QED
    BY <2>1, <2>2
<1>f. ASSUME NEW f \in Frames, NEW j \in Idx, f # T, Flags(o, f, j, TRUE)
      PROVE  Flags(n, f, j, TRUE)
  <2>1. n[f][j] = o[f][j]
    BY <1>3, <1>f
  <2> HIDE DEF T
  <2> QED
    BY <2>1, <1>f DEF Flags
<1>g. ASSUME u = TRUE, NEW f \in Frames, NEW j \in Idx, Flags(m, f, j, TRUE),
             \A i \in 0 .. s.esp - 1 : f # stack[i]
      PROVE  Flags(o, f, j, TRUE)
  <2>1. o[f][j] = m[f][j] \/ (o[f][j].p /\ o[f][j].user = TRUE)
    BY <1>g, <1>1 DEF Marked
  <2> QED
    BY <2>1, <1>g DEF Flags
<1>11. ASSUME u = TRUE PROVE Opens(n, cr3, v)
  <2>0. /\ Flags(o, cr3, v[1], TRUE) /\ Flags(o, Node(o, 2, v), v[2], TRUE)
        /\ Flags(o, Node(o, 3, v), v[3], TRUE)
    BY <1>1, <1>11
  <2>1. cr3 \in Frames /\ cr3 # T
    BY <1>1, <1>7, RootFacts
  <2>2. Flags(n, cr3, v[1], TRUE)
    BY <2>0, <2>1, <1>w, <1>f
  <2>3. Node(o, 2, v) \in Frames /\ Node(o, 3, v) \in Frames
    <3>1. Node(o, 4, v) # NoFrame => Node(o, 3, v) # NoFrame /\ Node(o, 2, v) # NoFrame
      BY NodeFacts DEF Descend
    <3> QED
      BY <3>1, <1>1, NodeTyped
  <2>4. Flags(n, Node(o, 2, v), v[2], TRUE) /\ Flags(n, Node(o, 3, v), v[3], TRUE)
    BY <2>0, <2>3, <1>w, <1>f
  <2>5. OpenLeaf(n, v)
    BY <1>4, <1>w, <1>9, <1>11 DEF OpenLeaf
  <2> QED
    BY <2>2, <2>4, <2>5, <1>w DEF Opens
<1>12. ASSUME u = TRUE, NEW d, Root(m, S, d), NEW w \in NonRec, Opens(m, d, w)
       PROVE  Opens(n, d, w)
  <2>0. Node(m, 5, w) # NoFrame /\ w \in Pages
    BY <1>1, <1>12 DEF Opens, OpenLeaf
  <2>1. /\ d \in Frames /\ d # T /\ \A i \in 0 .. s.esp - 1 : d # stack[i]
    BY <1>1, <1>7, <1>12, RootGrows, RootFacts, RootUnused
  <2>2. Flags(n, d, w[1], TRUE)
    <3>1. Flags(m, d, w[1], TRUE) /\ w[1] \in Idx
      BY <1>w, <1>12 DEF Opens
    <3> QED
      BY <3>1, <2>1, <1>f, <1>g, <1>12
  <2>3. /\ Node(m, 2, w) \in Frames /\ Node(m, 3, w) \in Frames
        /\ Node(m, 2, w) # NoFrame /\ Node(m, 3, w) # NoFrame
    BY <2>0, <1>1, MappedPath
  <2>5. /\ Node(n, 2, w) = Node(m, 2, w) /\ Node(m, 2, w) # T
        /\ \A i \in 0 .. s.esp - 1 : Node(m, 2, w) # stack[i]
    BY <2>3, <1>w, <1>5
  <2>6. /\ Node(n, 3, w) = Node(m, 3, w) /\ Node(m, 3, w) # T
        /\ \A i \in 0 .. s.esp - 1 : Node(m, 3, w) # stack[i]
    BY <2>3, <1>w, <1>5
  <2>7. Flags(m, Node(m, 2, w), w[2], TRUE) /\ Flags(m, Node(m, 3, w), w[3], TRUE)
    BY <1>12 DEF Opens
  <2>8. Flags(n, Node(m, 2, w), w[2], TRUE)
    BY <2>3, <2>5, <2>7, <1>w, <1>f, <1>g, <1>12
  <2>9. Flags(n, Node(m, 3, w), w[3], TRUE)
    BY <2>3, <2>6, <2>7, <1>w, <1>f, <1>g, <1>12
  <2>4. OpenLeaf(n, w)
    <3>1. CASE w = v
      BY <3>1, <1>11, <1>12 DEF Opens
    <3>2. CASE w # v
      BY <3>2, <2>0, <1>8, <1>12 DEF OpenLeaf, Opens, Flags
    <3> QED
      BY <3>1, <3>2
  <2> QED
    BY <2>2, <2>4, <2>5, <2>6, <2>8, <2>9 DEF Opens
<1>13. /\ \A w \in NonRec : OpenLeaf(n, w) => IF w = v THEN u = TRUE ELSE OpenLeaf(m, w)
       /\ u = TRUE =>
            /\ Opens(n, cr3, v)
            /\ \A d : Root(m, S, d) => \A w \in NonRec : Opens(m, d, w) => Opens(n, d, w)
  BY <1>10, <1>11, <1>12
<1> QED
  BY <1>13 DEF m, UserEdit

\* The last store of mapf, after stage q.
Entered(q, r, v, c) ==
  /\ ~q.ok => r = [mem |-> q.mem, esp |-> q.esp, ok |-> FALSE]
  /\ q.ok => r = [mem |-> SetEntry(q.mem, Node(q.mem, 4, v), v[4], c),
                  esp |-> q.esp, ok |-> TRUE]

LEMMA MapLeaf ==
  ASSUME NEW S, S \subseteq HeapPages, NEW s, Ready(s, S), s.ok,
         Current(s.mem, cr3, current_pml4, S),
         NEW v \in NonRec, cr3 # PML4 => v[1] = 0, NEW u \in BOOLEAN, NEW f
  PROVE  \E q : Tabled(s, q, S, v, u) /\ Entered(q, mapf(s, f, v, u), v, Entry(f, u))
<1> DEFINE pdp == PDP_MAPPING(v[1])
           pd  == PD_MAPPING(v[1], v[2])
           pt  == PT_MAPPING(v[1], v[2], v[3])
           s1 == Level(s, current_pml4, v[1], pdp, u)
           s2 == Level(s1, pdp, v[2], pd, u)
           s3 == Level(s2, pd, v[3], pt, u)
           c  == Entry(f, u)
           r  == Leaf(s3, pt, v[4], c)
<1>0. v \in Pages /\ Good(s.mem, stack, s.esp, S) /\ mapf(s, f, v, u) = r
  BY PagePlaces DEF mapf, Ready
<1>1. Shown(v, pdp, pd, pt)
  <2>1. Root(s.mem, S, cr3)
    BY <1>0, CurrentWalk
  <2>2. cr3 \in Frames
    BY <2>1, <1>0, RootFacts
  <2> QED
    BY <2>2, <1>0, RootWalks DEF Shown
<1> HIDE DEF pdp, pd, pt, c
<1>2. Tabled(s, s3, S, v, u) /\ Walk(s3.mem, cr3, pt) = Node(s3.mem, 4, v)
  <2> HIDE DEF s1, s2, s3
  <2> QED
    BY <1>1, MapStages DEF s1, s2, s3
<1> HIDE DEF s3
<1>3. s3 \in Stages /\ (s3.ok => Node(s3.mem, 4, v) # NoFrame)
  BY <1>2 DEF Tabled, Ready
<1>4. Entered(s3, r, v, c)
  <2> DEFINE t == Walk(s3.mem, cr3, pt)
  <2>1. /\ ~s3.ok \/ t = NoFrame => r = [mem |-> s3.mem, esp |-> s3.esp, ok |-> FALSE]
        /\ s3.ok /\ t # NoFrame =>
             r = [mem |-> SetEntry(s3.mem, t, v[4], c), esp |-> s3.esp, ok |-> TRUE]
    BY <1>3, LeafCases, ZenonT(60)
  <2>2. t = Node(s3.mem, 4, v)
    BY <1>2
  <2> HIDE DEF t, r
  <2> QED
    BY <2>1, <2>2, <1>3 DEF Entered
<1> QED
  BY <1>0, <1>2, <1>4 DEF c

LEMMA MapGood ==
  ASSUME NEW S, S \subseteq HeapPages, NEW s, Ready(s, S), s.ok,
         Current(s.mem, cr3, current_pml4, S),
         NEW v \in NonRec \ (S \cup {kernel_space}), cr3 # PML4 => v[1] = 0,
         NEW u \in BOOLEAN, NEW f \in Frames,
         \A i \in 0 .. s.esp - 1 : stack[i] # f,
         v \in HeapPages => \A w \in NonRec : \A b \in 1 .. 5 : Node(s.mem, b, w) # f,
         NEW r, r = mapf(s, f, v, u)
  PROVE  MapsTo(s, r, S, v, f) /\ (r.ok => UserEdit(s.mem, r.mem, S, cr3, v, u))
<1> DEFINE c == Entry(f, u)
<1>0. /\ v \in Pages /\ s \in Stages /\ s.esp \in Nat /\ NoFrame \notin Frames
      /\ Good(s.mem, stack, s.esp, S)
  BY PagePlaces, ConstantFacts DEF Ready, Stages
<1>2. c \in Entries /\ c.p /\ c.to = f /\ c.user = u
  BY EntryFacts
<1>1. PICK q : Tabled(s, q, S, v, u) /\ Entered(q, r, v, c)
  BY MapLeaf
<1> HIDE DEF c
<1>9. /\ q \in Stages /\ Good(q.mem, stack, q.esp, S) /\ q.esp \in 0 .. s.esp
      /\ Grows(s.mem, q.mem, stack, s.esp, S) /\ Stocked(stack, q.esp)
      /\ Node(q.mem, 5, v) = Node(s.mem, 5, v)
      /\ q.ok => Node(q.mem, 4, v) # NoFrame
  BY <1>1 DEF Tabled, Passed, Ready, Grows
<1>11. CASE ~q.ok
  <2>1. r = [mem |-> q.mem, esp |-> q.esp, ok |-> FALSE]
    BY <1>1, <1>11 DEF Entered
  <2>2. r \in Stages /\ r.mem = q.mem /\ r.esp = q.esp /\ ~r.ok
    BY <2>1, <1>9 DEF Stages
  <2>3. Edited(s.mem, q.mem, stack, s.esp, S, v)
    BY <1>9, GrowsEdited
  <2> QED
    BY <2>2, <2>3, <1>0, <1>9 DEF MapsTo
<1>12. CASE q.ok
  <2> DEFINE n == SetEntry(q.mem, Node(q.mem, 4, v), v[4], c)
  <2>1. r = [mem |-> n, esp |-> q.esp, ok |-> TRUE]
    BY <1>1, <1>12 DEF Entered
  <2>3. \A i \in 0 .. q.esp - 1 : stack[i] # f
    BY <1>0, <1>9
  <2>4. v \in HeapPages => \A w \in NonRec : \A b \in 1 .. 5 : Node(q.mem, b, w) # f
    BY <1>9 DEF Grows
  <2>5. \A i \in 0 .. q.esp - 1 : stack[i] \in Frames
    BY <1>9 DEF Stocked
  <2>6. LeafSet(q.mem, n, stack, q.esp, S, v, c)
    BY <1>2, <2>3, <2>4, <2>5, <1>9, <1>12, LeafKeepsGood
  <2>10. UserEdit(s.mem, n, S, cr3, v, u)
    BY <1>0, <1>1, <1>2, <1>12, <2>6, LeafFlags
  <2> HIDE DEF n
  <2>7. Good(n, stack, q.esp, S) /\ n \in Memories /\ Node(n, 5, v) = f
    BY <1>2, <2>6 DEF LeafSet, Good
  <2>8. Edited(s.mem, n, stack, s.esp, S, v)
    BY <2>6, <1>9, GrownLeaf
  <2>9. r \in Stages /\ r.mem = n /\ r.esp = q.esp /\ r.ok
    BY <2>1, <2>7, <1>9 DEF Stages
  <2> QED
    BY <2>7, <2>8, <2>9, <2>10, <1>0, <1>9 DEF MapsTo
<1> QED
  BY <1>11, <1>12

-----------------------------------------------------------------------------
(* The inductive invariant                                                 *)

Typed ==
  /\ mem \in Memories
  /\ cr3 \in Frames \cup {NoFrame}
  /\ current_pml4 \in Pages
  /\ spaces \subseteq HeapPages \ UserPages
  /\ stale \subseteq Pages
  /\ phase \in {"mmap", "paging", "ready", "panic"}

\* Before init_paging nothing is mapped.
Unmapped == current_pml4 = kernel_space /\ spaces = {} /\ stale = {}

\* From then on, when mapf has run out of frames, too.
Paged ==
  /\ Good(mem, stack, esp, spaces)
  /\ Current(mem, cr3, current_pml4, spaces)
  /\ stale \cap (Windows \cup {current_pml4}) = {}

PagingInv ==
  /\ RegionsApart /\ BelowFourGB
  /\ PmmInv /\ Typed
  /\ phase \in {"mmap", "paging"} => Unmapped
  /\ phase \in {"ready", "panic"} => Paged

LEMMA InvStocked == PmmInv => Stocked(stack, esp) /\ \A i \in 0 .. esp - 1 : stack[i] # Device
<1> SUFFICES ASSUME PmmInv
             PROVE  Stocked(stack, esp) /\ \A i \in 0 .. esp - 1 : stack[i] # Device
  OBVIOUS
<1>1. stack_size \in Nat /\ esp \in 0 .. stack_size /\ stack \in [0 .. stack_size - 1 -> Frames]
  BY DEF PmmInv, StackTyped, Frames
<1>2. \A i \in 0 .. esp - 1 : i \in 0 .. stack_size - 1
  BY <1>1
<1>3. Stocked(stack, esp)
  BY <1>1, <1>2 DEF Stocked, PmmInv, FreeDistinct
<1>4. \A i \in 0 .. esp - 1 : stack[i] # Device
  BY LayoutAssumption DEF PmmInv, Collected
<1> QED
  BY <1>3, <1>4

\* The pages whose translation a step outdates.
LEMMA OutdatedFacts ==
  ASSUME Good(mem, stack, esp, spaces), Current(mem, cr3, current_pml4, spaces),
         spaces \subseteq HeapPages,
         NEW n, NEW e, Good(n, stack, e, spaces), Current(n, cr3, current_pml4, spaces),
         \A w \in NonRec : \A b \in 1 .. 4 : Node(n, b, w) \in {Node(mem, b, w)} \/ Node(mem, b, w) = NoFrame
  PROVE  Outdated(n) \cap (Windows \cup {current_pml4}) = {}
<1>1. /\ mem \in Memories /\ Copy(mem, PML4) /\ cr3 \in Frames /\ Copy(mem, cr3)
      /\ n \in Memories /\ Copy(n, PML4) /\ Copy(n, cr3)
  BY CurrentWalk, RootFacts
<1>2. Walk(mem, cr3, current_pml4) = Walk(n, cr3, current_pml4)
  BY CurrentWalk
<1>3. current_pml4 \notin Outdated(n)
  BY <1>2 DEF Outdated
<1>4. ASSUME NEW v \in NonRec
      PROVE  {PDP_MAPPING(v[1]), PD_MAPPING(v[1], v[2]), PT_MAPPING(v[1], v[2], v[3])}
               \cap Outdated(n) = {}
  <2>1. v \in Pages
    BY PagePlaces
  <2>2. /\ Walk(mem, cr3, PDP_MAPPING(v[1])) = Node(mem, 2, v)
        /\ Walk(mem, cr3, PD_MAPPING(v[1], v[2])) = Node(mem, 3, v)
        /\ Walk(mem, cr3, PT_MAPPING(v[1], v[2], v[3])) = Node(mem, 4, v)
        /\ Walk(n, cr3, PDP_MAPPING(v[1])) = Node(n, 2, v)
        /\ Walk(n, cr3, PD_MAPPING(v[1], v[2])) = Node(n, 3, v)
        /\ Walk(n, cr3, PT_MAPPING(v[1], v[2], v[3])) = Node(n, 4, v)
    BY <2>1, <1>1, RootWalks
  <2>3. \A b \in 2 .. 4 : Node(mem, b, v) \in {NoFrame, Node(n, b, v)}
    OBVIOUS
  <2>4. /\ Walk(mem, cr3, PDP_MAPPING(v[1])) \in {NoFrame, Walk(n, cr3, PDP_MAPPING(v[1]))}
        /\ Walk(mem, cr3, PD_MAPPING(v[1], v[2])) \in {NoFrame, Walk(n, cr3, PD_MAPPING(v[1], v[2]))}
        /\ Walk(mem, cr3, PT_MAPPING(v[1], v[2], v[3])) \in {NoFrame, Walk(n, cr3, PT_MAPPING(v[1], v[2], v[3]))}
    BY <2>2, <2>3
  <2> QED
    BY <2>4 DEF Outdated
<1>5. ASSUME NEW x \in Windows PROVE x \notin Outdated(n)
  <2>1. PICK v \in NonRec :
          x \in {PDP_MAPPING(v[1]), PD_MAPPING(v[1], v[2]), PT_MAPPING(v[1], v[2], v[3])}
    BY DEF Windows
  <2> QED
    BY <2>1, <1>4
<1> QED
  BY <1>3, <1>5

\* A mapf or an unmap that has done what it should keeps the invariant.
LEMMA MappedInv ==
  ASSUME PagingInv, phase = "ready",
         NEW s, s.mem = mem, s.esp \in 0 .. esp, NEW r, NEW v, NEW f,
         MapsTo(s, r, spaces, v, f), v \notin spaces \cup {kernel_space},
         Mapped(r)
  PROVE  PagingInv'
<1>1. /\ PmmInv /\ Typed /\ Paged /\ spaces \subseteq HeapPages
  BY DEF PagingInv, Typed
<1>2. /\ mem' = r.mem /\ stale' = stale \cup Outdated(r.mem) /\ esp' = r.esp
      /\ phase' \in {"ready", "panic"}
      /\ UNCHANGED <<stack, stack_size, region, addr, cr3, current_pml4, spaces>>
  BY DEF Mapped
<1>3. /\ r \in Stages /\ Good(r.mem, stack, r.esp, spaces) /\ r.esp \in 0 .. s.esp
      /\ Edited(mem, r.mem, stack, s.esp, spaces, v)
  BY DEF MapsTo
<1>4. esp' \in 0 .. esp
  <2>1. esp \in Nat
    BY <1>1 DEF PmmInv, StackTyped
  <2>2. \A a, b, c \in Int : a \in 0 .. b /\ b \in 0 .. c => a \in 0 .. c
    OBVIOUS
  <2> QED
    BY <2>1, <2>2, <1>2, <1>3
<1>5. PmmInv'
  BY <1>1, <1>2, <1>4, PoppedInv
<1>6. Typed'
  <2>1. Outdated(r.mem) \subseteq Pages
    BY DEF Outdated
  <2> QED
    BY <2>1, <1>1, <1>2, <1>3 DEF Typed, Stages
<1>7. Current(r.mem, cr3, current_pml4, spaces)
  <2>1. current_pml4 \in spaces \cup {kernel_space} /\ cr3 = Node(mem, 5, current_pml4)
    BY <1>1 DEF Paged, Current
  <2>2. current_pml4 \in NonRec /\ current_pml4 # v
    BY <2>1, <1>1, PagePlaces
  <2>3. Node(r.mem, 5, current_pml4) = Node(mem, 5, current_pml4)
    BY <2>2, <1>3 DEF Edited
  <2> QED
    BY <2>1, <2>3 DEF Current
<1>8. Outdated(r.mem) \cap (Windows \cup {current_pml4}) = {}
  <2>1. \A w \in NonRec : \A b \in 1 .. 4 :
          Node(r.mem, b, w) \in {Node(mem, b, w)} \/ Node(mem, b, w) = NoFrame
    BY <1>3 DEF Edited
  <2> QED
    BY <2>1, <1>1, <1>3, <1>7, OutdatedFacts DEF Paged
<1>9. Paged'
  BY <1>1, <1>2, <1>3, <1>7, <1>8 DEF Paged, Windows
<1> QED
  BY <1>2, <1>5, <1>6, <1>9 DEF PagingInv

-----------------------------------------------------------------------------
(* init_paging                                                             *)

LEMMA TableFacts ==
  /\ Len(PTs) \in Nat /\ Len(PTs) < R /\ DOMAIN PTs = 1 .. Len(PTs)
  /\ \A i \in 0 .. Len(PTs) - 1 : i + 1 \in DOMAIN PTs /\ PTs[i + 1] \in Frames
  /\ \A j \in DOMAIN PTs : \A i \in Idx :
       R * (j - 1) + i \in Frames /\ R * (j - 1) + i <= LowLimit
<1>1. Len(PTs) \in Nat /\ Len(PTs) < R /\ DOMAIN PTs = 1 .. Len(PTs)
  BY PagingAssumption, LenProperties
<1>2. \A i \in 0 .. Len(PTs) - 1 : i + 1 \in DOMAIN PTs /\ PTs[i + 1] \in Frames
  BY <1>1, PagingAssumption, ElementOfSeq DEF Frames
<1>3. ASSUME NEW j \in DOMAIN PTs, NEW i \in Idx
      PROVE  R * (j - 1) + i \in Nat /\ R * (j - 1) + i <= R * Len(PTs) - 1
  <2>1. /\ j \in Nat /\ j >= 1 /\ j <= Len(PTs) /\ i \in Nat /\ i <= R - 1 /\ R \in Nat
    BY <1>1, ConstantFacts DEF Idx
  <2>2. R * (j - 1) \in Nat /\ R * (j - 1) <= R * (Len(PTs) - 1)
    BY <2>1, <1>1
  <2>3. R * (Len(PTs) - 1) = R * Len(PTs) - R
    BY <2>1, <1>1
  <2>4. R * Len(PTs) \in Nat
    BY <2>1, <1>1
  <2> QED
    BY <2>1, <2>2, <2>3, <2>4, SMTT(30)
<1>4. R * Len(PTs) \in Nat /\ R * Len(PTs) <= NFrames /\ R * Len(PTs) - 1 <= LowLimit
  BY <1>1, ConstantFacts, LayoutAssumption
<1>5. LowLimit \in Nat /\ NFrames \in Nat
  BY PmmAssumption, ConstantFacts
<1>6. ASSUME NEW j \in DOMAIN PTs, NEW i \in Idx
      PROVE  R * (j - 1) + i \in Frames /\ R * (j - 1) + i <= LowLimit
  BY <1>3, <1>4, <1>5 DEF Frames
<1> QED
  BY <1>1, <1>2, <1>6

LEMMA LowFrame ==
  ASSUME NEW w \in Pages, w \in LowPages
  PROVE  w[3] + 1 \in DOMAIN PTs /\ R * w[3] + w[4] <= LowLimit
<1>1. w[3] \in Nat /\ w[4] \in Idx /\ w[3] < Len(PTs)
  BY PageFacts DEF LowPages, Idx
<1>2. w[3] + 1 \in DOMAIN PTs /\ w[3] + 1 - 1 = w[3]
  BY <1>1, TableFacts
<1>3. \A j \in DOMAIN PTs : \A i \in Idx : R * (j - 1) + i <= LowLimit
  BY TableFacts
<1>4. R * (w[3] + 1 - 1) + w[4] <= LowLimit
  BY <1>1, <1>2, <1>3
<1> QED
  BY <1>2, <1>4

\* Memory after init_paging, where it was m.
BootPDP == [Zeroed EXCEPT ![0] = Entry(PD, FALSE)]
IsPT(f) == \E j \in DOMAIN PTs : PTs[j] = f
WhichPT(f) == CHOOSE j \in DOMAIN PTs : PTs[j] = f
BootRow(m, f) ==
  CASE f = PML4 -> BootPml4
    [] f = PDP -> BootPDP
    [] f = PD -> BootPD
    [] IsPT(f) -> BootPT(WhichPT(f))
    [] OTHER -> m[f]
BootMem(m) == [f \in Frames |-> BootRow(m, f)]

LEMMA BootRows ==
  ASSUME NEW m \in Memories
  PROVE  /\ BootMem(m)[PML4] = BootPml4
         /\ BootMem(m)[PDP] = BootPDP
         /\ BootMem(m)[PD] = BootPD
         /\ \A j \in DOMAIN PTs : BootMem(m)[PTs[j]] = BootPT(j)
         /\ BootMem(m) \in Memories
<1>1. /\ PML4 # PDP /\ PML4 # PD /\ PDP # PD
      /\ PML4 \in Frames /\ PDP \in Frames /\ PD \in Frames
  BY LayoutAssumption, ConstantFacts
<1>0. \A f \in Frames : BootMem(m)[f] = BootRow(m, f)
  BY DEF BootMem
<1>2. /\ BootMem(m)[PML4] = BootPml4
      /\ BootMem(m)[PDP] = BootPDP
      /\ BootMem(m)[PD] = BootPD
  <2>0. \A f \in {PML4, PDP, PD} : ~IsPT(f)
    BY LayoutAssumption DEF IsPT
  <2>1. BootRow(m, PML4) = BootPml4
    BY <2>0, <1>1 DEF BootRow
  <2>2. BootRow(m, PDP) = BootPDP
    BY <2>0, <1>1 DEF BootRow
  <2>3. BootRow(m, PD) = BootPD
    BY <2>0, <1>1 DEF BootRow
  <2> QED
    BY <2>1, <2>2, <2>3, <1>0, <1>1
<1>3. ASSUME NEW j \in DOMAIN PTs PROVE BootMem(m)[PTs[j]] = BootPT(j) /\ PTs[j] \in Frames
  <2>1. PTs[j] \notin {PML4, PDP, PD} /\ \A k \in DOMAIN PTs : PTs[j] = PTs[k] => j = k
    BY LayoutAssumption
  <2>2. PTs[j] \in Frames
    BY PagingAssumption, ElementOfSeq, LenProperties DEF Frames
  <2>3. IsPT(PTs[j]) /\ WhichPT(PTs[j]) = j
    BY <2>1 DEF IsPT, WhichPT
  <2>4. BootRow(m, PTs[j]) = BootPT(j)
    BY <2>1, <2>3 DEF BootRow
  <2> QED
    BY <2>2, <2>4, <1>0
<1>4. BootMem(m) \in Memories
  <2>1. BootPml4 \in [Idx -> Entries]
    BY <1>1, EntryFacts DEF BootPml4
  <2>2. BootPDP \in [Idx -> Entries]
    BY <1>1, EntryFacts, ConstantFacts DEF Zeroed, BootPDP
  <2>3. BootPD \in [Idx -> Entries]
    <3> SUFFICES ASSUME NEW i \in Idx, i < Len(PTs) PROVE Entry(PTs[i + 1], FALSE) \in Entries
      BY <1>1, EntryFacts DEF BootPD
    <3>1. i \in 0 .. Len(PTs) - 1
      BY TableFacts DEF Idx
    <3> QED
      BY <3>1, TableFacts, EntryFacts
  <2>4. ASSUME NEW j \in DOMAIN PTs PROVE BootPT(j) \in [Idx -> Entries]
    BY TableFacts, EntryFacts DEF BootPT
  <2>5. ASSUME NEW f \in Frames PROVE BootMem(m)[f] \in [Idx -> Entries]
    <3>1. CASE f \in {PML4, PDP, PD}
      BY <3>1, <2>1, <2>2, <2>3, <1>2
    <3>2. CASE IsPT(f)
      BY <3>2, <2>4, <1>3 DEF IsPT
    <3>3. CASE f \notin {PML4, PDP, PD} /\ ~IsPT(f)
      <4>1. BootMem(m)[f] = m[f]
        BY <3>3, <1>0 DEF BootRow
      <4> QED
        BY <4>1, MemoryFacts
    <3> QED
      BY <3>1, <3>2, <3>3
  <2> QED
    BY <2>5 DEF BootMem, Memories
<1> QED
  BY <1>2, <1>3, <1>4

\* The walks through the static tables.
LEMMA BootNodes ==
  ASSUME NEW m \in Memories, NEW w \in NonRec, NEW n, n = BootMem(m)
  PROVE  /\ Node(n, 2, w) = IF w[1] = 0 THEN PDP ELSE NoFrame
         /\ Node(n, 3, w) = IF w[1] = 0 /\ w[2] = 0 THEN PD ELSE NoFrame
         /\ Node(n, 4, w) = IF w \in LowPages THEN PTs[w[3] + 1] ELSE NoFrame
         /\ Node(n, 5, w) = IF w \in LowPages THEN R * w[3] + w[4] ELSE NoFrame
         /\ w \in LowPages => w[3] + 1 \in DOMAIN PTs
<1>1. /\ w \in Pages /\ w[1] \in Idx /\ w[2] \in Idx /\ w[3] \in Idx /\ w[4] \in Idx /\ w[1] # rec
      /\ PML4 \in Frames /\ PDP \in Frames /\ PD \in Frames /\ NoFrame \notin Frames /\ rec # 0
  BY PagePlaces, PageFacts, ConstantFacts DEF NonRec
<1>2. /\ n[PML4] = BootPml4 /\ n[PDP] = BootPDP /\ n[PD] = BootPD
      /\ \A j \in DOMAIN PTs : n[PTs[j]] = BootPT(j)
  <2>1. /\ BootMem(m)[PML4] = BootPml4 /\ BootMem(m)[PDP] = BootPDP /\ BootMem(m)[PD] = BootPD
        /\ \A j \in DOMAIN PTs : BootMem(m)[PTs[j]] = BootPT(j)
    BY BootRows
  <2> QED
    BY <2>1
<1>3. ~None.p /\ \A f \in Frames : Entry(f, FALSE).p /\ Entry(f, FALSE).to = f
  BY <1>1, EntryFacts
<1>4. \A j \in Idx : Descend(n, NoFrame, j) = NoFrame
  BY DEF Descend
<1>5. Node(n, 2, w) = IF w[1] = 0 THEN PDP ELSE NoFrame
  <2>1. n[PML4][w[1]] = IF w[1] = 0 THEN Entry(PDP, FALSE) ELSE None
    BY <1>1, <1>2 DEF BootPml4
  <2>2. Descend(n, PML4, w[1]) = IF w[1] = 0 THEN PDP ELSE NoFrame
    BY <2>1, <1>1, <1>3 DEF Descend
  <2> QED
    BY <2>2, NodeFacts
<1>6. Node(n, 3, w) = IF w[1] = 0 /\ w[2] = 0 THEN PD ELSE NoFrame
  <2>1. n[PDP][w[2]] = IF w[2] = 0 THEN Entry(PD, FALSE) ELSE None
    BY <1>1, <1>2 DEF Zeroed, BootPDP
  <2>2. Descend(n, PDP, w[2]) = IF w[2] = 0 THEN PD ELSE NoFrame
    BY <2>1, <1>1, <1>3 DEF Descend
  <2> QED
    BY <2>2, <1>1, <1>4, <1>5, NodeFacts
<1>7. w \in LowPages <=> w[1] = 0 /\ w[2] = 0 /\ w[3] < Len(PTs)
  BY <1>1 DEF LowPages
<1>8. w[3] < Len(PTs) => w[3] + 1 \in DOMAIN PTs /\ PTs[w[3] + 1] \in Frames
  BY <1>1, TableFacts DEF Idx
<1>9. Node(n, 4, w) = IF w \in LowPages THEN PTs[w[3] + 1] ELSE NoFrame
  <2>1. n[PD][w[3]] = IF w[3] < Len(PTs) THEN Entry(PTs[w[3] + 1], FALSE) ELSE None
    BY <1>1, <1>2 DEF BootPD
  <2>2. Descend(n, PD, w[3]) = IF w[3] < Len(PTs) THEN PTs[w[3] + 1] ELSE NoFrame
    BY <2>1, <1>1, <1>3, <1>8 DEF Descend
  <2> QED
    BY <2>2, <1>1, <1>4, <1>6, <1>7, NodeFacts
<1>10. Node(n, 5, w) = IF w \in LowPages THEN R * w[3] + w[4] ELSE NoFrame
  <2>1. CASE w \in LowPages
    <3> DEFINE j == w[3] + 1
               f == R * (j - 1) + w[4]
    <3>1. j \in DOMAIN PTs /\ PTs[j] \in Frames
      BY <2>1, <1>7, <1>8
    <3>4. f = R * w[3] + w[4]
      BY <1>1 DEF Idx
    <3> HIDE DEF j
    <3>2. f \in Frames
      BY <3>1, <1>1, TableFacts
    <3>3. n[PTs[j]][w[4]] = Entry(f, FALSE)
      <4>1. n[PTs[j]] = BootPT(j)
        BY <3>1, <1>2
      <4> QED
        BY <4>1, <1>1 DEF BootPT
    <3> HIDE DEF f
    <3>5. Descend(n, PTs[j], w[4]) = f
      BY <3>1, <3>2, <3>3, <1>1, <1>3 DEF Descend
    <3> QED
      BY <3>4, <3>5, <2>1, <1>9, NodeFacts DEF j
  <2>2. CASE w \notin LowPages
    BY <2>2, <1>1, <1>4, <1>9, NodeFacts
  <2> QED
    BY <2>1, <2>2
<1> QED
  BY <1>5, <1>6, <1>7, <1>8, <1>9, <1>10

LEMMA BootGood ==
  ASSUME NEW m \in Memories, NEW k, NEW e \in Nat,
         \A i \in 0 .. e - 1 : k[i] \in Frames /\ k[i] > LowLimit
  PROVE  Good(BootMem(m), k, e, {}) /\ Current(BootMem(m), PML4, kernel_space, {})
<1> DEFINE n == BootMem(m)
<1>0. /\ n \in Memories /\ LowLimit \in Nat /\ NoFrame = -1 /\ R \in Nat /\ rec \in Idx
      /\ PML4 \in Frames /\ PDP \in Frames /\ PD \in Frames /\ NoFrame \notin Frames
      /\ kernel_space \in NonRec /\ NonRec \subseteq Pages /\ HeapPages \subseteq NonRec
  BY BootRows, PmmAssumption, ConstantFacts, PagePlaces DEF NoFrame
<1>1. ASSUME NEW w \in NonRec
      PROVE  /\ Node(n, 1, w) = PML4
             /\ Node(n, 2, w) = IF w[1] = 0 THEN PDP ELSE NoFrame
             /\ Node(n, 3, w) = IF w[1] = 0 /\ w[2] = 0 THEN PD ELSE NoFrame
             /\ Node(n, 4, w) = IF w \in LowPages THEN PTs[w[3] + 1] ELSE NoFrame
             /\ Node(n, 5, w) = IF w \in LowPages THEN R * w[3] + w[4] ELSE NoFrame
             /\ w \in LowPages => w[3] + 1 \in DOMAIN PTs
  BY BootNodes, NodeFacts
<1>2. n[PML4] = BootPml4
  BY BootRows
<1> HIDE DEF n
<1>3. /\ PML4 # PDP /\ PML4 # PD /\ PDP # PD
      /\ \A j \in DOMAIN PTs : PTs[j] \notin {PML4, PDP, PD}
      /\ \A i, j \in DOMAIN PTs : PTs[j] = PTs[i] => j = i
      /\ \A j \in DOMAIN PTs : PTs[j] \in Frames
  BY LayoutAssumption, PagingAssumption, ElementOfSeq, LenProperties DEF Frames
<1>4. Copy(n, PML4)
  <2>1. n[PML4][rec] = Entry(PML4, FALSE) /\ n[PML4][0] = Entry(PDP, FALSE)
    BY <1>0, <1>2, ConstantFacts DEF BootPml4
  <2>2. Entry(PDP, FALSE).p
    BY <1>0, EntryFacts
  <2> QED
    BY <2>1, <2>2, <1>0 DEF Copy
<1>5. ASSUME NEW v \in NonRec, NEW w \in NonRec, NEW i \in 1 .. 4, NEW j \in 1 .. 4,
             Node(n, i, v) # NoFrame, Node(n, i, v) = Node(n, j, w)
      PROVE  i = j /\ Agree(i, v, w)
  <2>0. v \in Pages /\ w \in Pages
    BY <1>0
  <2>1. CASE i = 1
    BY <2>1, <1>0, <1>1, <1>3, <1>5, <2>0, AgreeFacts
  <2>2. CASE i = 2
    BY <2>2, <1>0, <1>1, <1>3, <1>5, <2>0, AgreeFacts
  <2>3. CASE i = 3
    BY <2>3, <1>0, <1>1, <1>3, <1>5, <2>0, AgreeFacts
  <2>4. CASE i = 4
    <3>1. v \in LowPages /\ Node(n, 4, v) = PTs[v[3] + 1] /\ v[3] + 1 \in DOMAIN PTs
      BY <2>4, <1>1, <1>5
    <3>2. j = 4
      BY <3>1, <2>4, <1>0, <1>1, <1>3, <1>5
    <3>3. w \in LowPages /\ PTs[w[3] + 1] = PTs[v[3] + 1] /\ w[3] + 1 \in DOMAIN PTs
      BY <3>1, <3>2, <2>4, <1>1, <1>5
    <3>4. v[3] + 1 = w[3] + 1
      BY <3>1, <3>3, <1>3
    <3>5. v[3] \in Nat /\ w[3] \in Nat
      BY <2>0, PageFacts DEF Idx
    <3> QED
      BY <3>1, <3>2, <3>3, <3>4, <3>5, <2>0, <2>4, AgreeFacts, SMTT(30) DEF LowPages
  <2> QED
    BY <2>1, <2>2, <2>3, <2>4
<1>6. ASSUME NEW w \in NonRec, NEW b \in 1 .. 5 PROVE Node(n, b, w) <= LowLimit
  <2>1. PDP <= LowLimit /\ PD <= LowLimit /\ \A j \in DOMAIN PTs : PTs[j] <= LowLimit
    BY LayoutAssumption
  <2>2. PML4 <= LowLimit
    BY TableFacts, LayoutAssumption, <1>0 DEF Frames
  <2>3. w \in LowPages => R * w[3] + w[4] <= LowLimit
    BY <1>0, LowFrame
  <2>4. -1 <= LowLimit
    BY <1>0
  <2> QED
    BY <2>1, <2>2, <2>3, <2>4, <1>0, <1>1
<1>7. Unused(n, k, e)
  <2> SUFFICES ASSUME NEW i \in 0 .. e - 1, NEW w \in NonRec, NEW b \in 1 .. 5
               PROVE  Node(n, b, w) # k[i]
    BY DEF Unused
  <2>1. k[i] > LowLimit /\ k[i] \in Nat
    BY DEF Frames
  <2>2. Node(n, b, w) <= LowLimit
    BY <1>6
  <2> QED
    BY <2>1, <2>2, <1>0
<1>8. HeapPrivate(n)
  <2>1. \A x \in HeapPages : Node(n, 5, x) = NoFrame
    BY <1>0, <1>1, PagesAssumption
  <2> QED
    BY <2>1 DEF HeapPrivate
<1>9. Node(n, 5, kernel_space) = PML4
  <2>1. /\ PML4 \div R \in Nat /\ PML4 % R \in 0 .. R - 1
        /\ PML4 = R * (PML4 \div R) + (PML4 % R)
    BY ConstantFacts DEF Frames
  <2>2. kernel_space \in LowPages
    BY KernelLow
  <2>3. kernel_space[3] = PML4 \div R /\ kernel_space[4] = PML4 % R
    BY DEF kernel_space, Identity
  <2>4. Node(n, 5, kernel_space) = R * kernel_space[3] + kernel_space[4]
    BY <2>2, <1>0, <1>1
  <2> QED
    BY <2>1, <2>3, <2>4
<1>10. Good(n, k, e, {})
  BY <1>0, <1>4, <1>5, <1>7, <1>8, <1>9 DEF Good, Separate, Copies
<1> QED
  BY <1>9, <1>10 DEF n, Current

-----------------------------------------------------------------------------
(* The steps                                                               *)

\* A step that maps or unmaps page v and does what it should.
MapStep(v) ==
  \E s, r, f :
    /\ s.mem = mem /\ s.esp \in 0 .. esp
    /\ MapsTo(s, r, spaces, v, f) /\ f \in Free \cup {Device, NoFrame}
    /\ Mapped(r)

\* The step maps page v with flag u, and changes what user code may use so.
Opening(v, u) == phase' = "ready" => UserEdit(mem, mem', spaces, cr3, v, u)

\* Pages that no step maps: the kernel's PML4 and its copies.
Kept == spaces \cup {kernel_space}

LEMMA InvFacts ==
  ASSUME PagingInv, phase = "ready"
  PROVE  /\ PmmInv /\ Typed /\ Paged /\ spaces \subseteq HeapPages /\ esp \in Nat
         /\ Stocked(stack, esp) /\ \A i \in 0 .. esp - 1 : stack[i] # Device
         /\ Root(mem, spaces, cr3) /\ Walk(mem, cr3, current_pml4) = cr3
         /\ mem \in Memories /\ Copy(mem, PML4) /\ cr3 \in Frames /\ Copy(mem, cr3)
         /\ spaces = {} => cr3 = PML4
<1>1. PmmInv /\ Typed /\ Paged /\ spaces \subseteq HeapPages
  BY DEF PagingInv, Typed
<1>2. esp \in Nat /\ Stocked(stack, esp) /\ \A i \in 0 .. esp - 1 : stack[i] # Device
  BY <1>1, InvStocked DEF PmmInv, StackTyped
<1>3. Root(mem, spaces, cr3) /\ Walk(mem, cr3, current_pml4) = cr3
  BY <1>1, CurrentWalk DEF Paged
<1>4. mem \in Memories /\ Copy(mem, PML4) /\ cr3 \in Frames /\ Copy(mem, cr3)
  BY <1>1, <1>3, RootFacts DEF Paged
<1>5. spaces = {} => cr3 = PML4
  BY <1>3 DEF Root
<1> QED
  BY <1>1, <1>2, <1>3, <1>4, <1>5

\* A mapf that finds no frame for the page itself.
LEMMA NoFrameLeft ==
  ASSUME PagingInv, phase = "ready", NEW v,
         Mapped([mem |-> mem, esp |-> esp, ok |-> FALSE])
  PROVE  MapStep(v) /\ phase' = "panic"
<1> DEFINE s == [mem |-> mem, esp |-> esp, ok |-> FALSE]
<1>1. s.mem = mem /\ s.esp = esp /\ ~s.ok /\ Mapped(s) /\ s \in Stages /\ esp \in 0 .. esp
  BY InvFacts DEF Stages
<1> HIDE DEF s
<1>2. MapsTo(s, s, spaces, v, NoFrame)
  BY <1>1, InvFacts, GrowsSelf, GrowsEdited DEF MapsTo, Paged
<1>3. phase' = "panic"
  BY <1>1 DEF Mapped
<1> QED
  BY <1>1, <1>2, <1>3 DEF MapStep

LEMMA FreshStep ==
  ASSUME PagingInv, phase = "ready", NEW v \in NonRec \ Kept, v[1] = 0,
         NEW u \in BOOLEAN, MapFresh(v, u)
  PROVE  MapStep(v) /\ Opening(v, u)
<1>1. CASE esp = 0
  BY <1>1, NoFrameLeft DEF MapFresh, Opening
<1>2. CASE esp # 0
  <2> DEFINE s == [mem |-> mem, esp |-> esp - 1, ok |-> TRUE]
             f == stack[esp - 1]
             r == mapf(s, f, v, u)
  <2>1. Mapped(r)
    BY <1>2 DEF MapFresh, Top
  <2>2. esp - 1 \in Nat /\ esp - 1 \in 0 .. esp - 1 /\ esp - 1 \in 0 .. esp
    BY <1>2, InvFacts
  <2>3. s \in Stages /\ s.mem = mem /\ s.esp = esp - 1 /\ s.ok
    BY <2>2, InvFacts DEF Stages
  <2>4. f \in Frames /\ f \in Free
    BY <2>2, InvFacts DEF Stocked, Free
  <2>5. \A i \in 0 .. esp - 1 - 1 : stack[i] # f
    <3> SUFFICES ASSUME NEW i \in 0 .. esp - 1 - 1 PROVE stack[i] # stack[esp - 1]
      OBVIOUS
    <3>1. i \in 0 .. esp - 1 /\ i # esp - 1
      BY <2>2
    <3> QED
      BY <3>1, <2>2, InvFacts DEF Stocked
  <2>6. \A w \in NonRec : \A b \in 1 .. 5 : Node(mem, b, w) # f
    BY <2>2, InvFacts DEF Paged, Good, Unused
  <2>7. Ready(s, spaces) /\ Current(s.mem, cr3, current_pml4, spaces)
    <3>1. Good(mem, stack, esp - 1, spaces) /\ Stocked(stack, esp - 1)
      BY <2>2, InvFacts, Poppable DEF Paged
    <3> HIDE DEF s
    <3> QED
      BY <3>1, <2>3, InvFacts DEF Ready, Paged
  <2> HIDE DEF s, f
  <2>8. MapsTo(s, r, spaces, v, f) /\ (r.ok => UserEdit(s.mem, r.mem, spaces, cr3, v, u))
    <3>1. \A i \in 0 .. s.esp - 1 : stack[i] # f
      BY <2>3, <2>5
    <3>2. \A w \in NonRec : \A b \in 1 .. 5 : Node(s.mem, b, w) # f
      BY <2>3, <2>6
    <3> HIDE DEF r
    <3>3. r = mapf(s, f, v, u)
      BY DEF r
    <3> QED
      BY <3>1, <3>2, <3>3, <2>3, <2>4, <2>7, InvFacts, MapGood DEF Kept
  <2> HIDE DEF r
  <2>9. mem' = r.mem /\ (phase' = "ready" => r.ok)
    BY <2>1 DEF Mapped
  <2>10. Opening(v, u)
    BY <2>3, <2>8, <2>9 DEF Opening
  <2> QED
    BY <2>1, <2>2, <2>3, <2>4, <2>8, <2>10 DEF MapStep
<1> QED
  BY <1>1, <1>2

LEMMA FramebufferStep ==
  ASSUME PagingInv, NEW v \in DevicePages, map_framebuffer(v)
  PROVE  phase = "ready" /\ v \in NonRec \ Kept /\ MapStep(v) /\ Opening(v, TRUE)
<1> DEFINE s == [mem |-> mem, esp |-> esp, ok |-> TRUE]
           r == mapf(s, Device, v, TRUE)
<1>1. phase = "ready" /\ spaces = {} /\ Mapped(r)
  BY DEF map_framebuffer
<1>2. v \in NonRec /\ v \notin Kept /\ v \notin HeapPages /\ v \notin spaces \cup {kernel_space}
  BY <1>1, PagePlaces DEF Kept
<1>3. s \in Stages /\ s.mem = mem /\ s.esp = esp /\ s.ok /\ esp \in 0 .. esp
  BY <1>1, InvFacts DEF Stages
<1> HIDE DEF s
<1>4. Ready(s, spaces) /\ Current(s.mem, cr3, current_pml4, spaces)
  BY <1>1, <1>3, InvFacts DEF Ready, Paged
<1>5. MapsTo(s, r, spaces, v, Device) /\ (r.ok => UserEdit(s.mem, r.mem, spaces, cr3, v, TRUE))
  <2>1. \A i \in 0 .. s.esp - 1 : stack[i] # Device
    BY <1>1, <1>3, InvFacts
  <2>2. cr3 = PML4 /\ Device \in Frames /\ spaces \subseteq HeapPages
    BY <1>1, InvFacts, ConstantFacts
  <2>3. TRUE \in BOOLEAN /\ r = mapf(s, Device, v, TRUE)
    OBVIOUS
  <2> HIDE DEF r
  <2> QED
    BY <2>1, <2>2, <2>3, <1>2, <1>3, <1>4, MapGood
<1> HIDE DEF r
<1>6. mem' = r.mem /\ (phase' = "ready" => r.ok)
  BY <1>1 DEF Mapped
<1> QED
  BY <1>1, <1>2, <1>3, <1>5, <1>6 DEF MapStep, Opening

LEMMA UnmapStep ==
  ASSUME PagingInv, NEW v \in UserPages, unmap(v)
  PROVE  phase = "ready" /\ v \in NonRec \ Kept /\ MapStep(v)
<1> DEFINE s == [mem |-> mem, esp |-> esp, ok |-> TRUE]
           pt == PT_MAPPING(v[1], v[2], v[3])
           r == Leaf(s, pt, v[4], None)
<1>1. phase = "ready" /\ Mapped(r)
  BY DEF unmap
<1>2. v \in NonRec /\ v \notin Kept /\ v \notin spaces \cup {kernel_space} /\ v \in Pages
  BY <1>1, InvFacts, PagePlaces DEF Kept, Typed
<1>3. s \in Stages /\ s.mem = mem /\ s.esp = esp /\ s.ok /\ esp \in 0 .. esp
  BY <1>1, InvFacts DEF Stages
<1> HIDE DEF s
<1>4. Ready(s, spaces)
  BY <1>1, <1>3, InvFacts DEF Ready, Paged
<1>5. Walk(s.mem, cr3, pt) = Node(mem, 4, v)
  BY <1>1, <1>2, <1>3, <1>4, InvFacts, ReadyWalks
<1> HIDE DEF pt
<1>6. MapsTo(s, r, spaces, v, NoFrame)
  <2>1. CASE Node(mem, 4, v) = NoFrame
    <3>1. r = [mem |-> s.mem, esp |-> s.esp, ok |-> FALSE]
      BY <2>1, <1>3, <1>5, LeafCases
    <3> HIDE DEF r
    <3>2. r \in Stages /\ r.mem = mem /\ r.esp = esp /\ ~r.ok
      BY <3>1, <1>1, <1>3, InvFacts DEF Stages
    <3> QED
      BY <3>2, <1>1, <1>3, InvFacts, GrowsSelf, GrowsEdited DEF MapsTo, Paged
  <2>2. CASE Node(mem, 4, v) # NoFrame
    <3> DEFINE n == SetEntry(mem, Node(mem, 4, v), v[4], None)
    <3>1. r = [mem |-> n, esp |-> s.esp, ok |-> TRUE]
      BY <2>2, <1>3, <1>5, LeafCases
    <3>2. None \in Entries /\ ~None.p
      BY ConstantFacts, EntryFacts
    <3>3. LeafSet(mem, n, stack, esp, spaces, v, None)
      <4>1. Good(mem, stack, esp, spaces) /\ spaces \subseteq HeapPages
        BY <1>1, InvFacts DEF Paged
      <4>2. \A i \in 0 .. esp - 1 : stack[i] \in Frames
        BY <1>1, InvFacts DEF Stocked
      <4> QED
        BY <4>1, <4>2, <3>2, <2>2, <1>2, LeafKeepsGood
    <3> HIDE DEF n, r
    <3>4. Good(n, stack, esp, spaces) /\ n \in Memories /\ Node(n, 5, v) = NoFrame
      BY <3>2, <3>3, <1>2 DEF LeafSet, Good
    <3>5. Edited(mem, n, stack, esp, spaces, v)
      BY <3>3, <1>1, InvFacts, GrowsSelf, GrownLeaf
    <3>6. r \in Stages /\ r.mem = n /\ r.esp = esp /\ r.ok
      BY <3>1, <3>4, <1>1, <1>3, InvFacts DEF Stages
    <3> QED
      BY <3>4, <3>5, <3>6, <1>3 DEF MapsTo
  <2> QED
    BY <2>1, <2>2
<1> HIDE DEF r
<1> QED
  BY <1>1, <1>2, <1>3, <1>6 DEF MapStep

\* Below 4 GB the mask takes nothing away.
LEMMA MaskedFrame ==
  ASSUME PagingInv, NEW f \in Frames PROVE Masked(f) = f
<1>1. f \in Nat /\ NFrames \in Nat /\ LowFrames \in Nat /\ f < LowFrames
  BY PagingAssumption DEF PagingInv, BelowFourGB, Frames
<1> QED
  BY <1>1 DEF Masked

\* The kernel's software walk finds what the processor finds.
LEMMA ToPhysical ==
  ASSUME PagingInv, phase = "ready", NEW v \in NonRec
  PROVE  to_physical(v) = OrZero(Walk(mem, cr3, v))
<1> DEFINE a == Node(mem, 2, v)
           b == Node(mem, 3, v)
           c == Node(mem, 4, v)
           d == Node(mem, 5, v)
<1>1. /\ mem \in Memories /\ Copy(mem, PML4) /\ cr3 \in Frames /\ Copy(mem, cr3)
      /\ Walk(mem, cr3, current_pml4) = cr3 /\ v \in Pages /\ NoFrame \notin Frames
      /\ PML4 \in Frames
  BY InvFacts, PagePlaces, ConstantFacts
<1>2. v[1] \in Idx /\ v[2] \in Idx /\ v[3] \in Idx /\ v[4] \in Idx
  BY <1>1, PageFacts
<1>3. /\ Walk(mem, cr3, PDP_MAPPING(v[1])) = a
      /\ Walk(mem, cr3, PD_MAPPING(v[1], v[2])) = b
      /\ Walk(mem, cr3, PT_MAPPING(v[1], v[2], v[3])) = c
      /\ Walk(mem, cr3, v) = IF mem[cr3][v[1]].p THEN d ELSE NoFrame
  BY <1>1, RootWalks
<1>4. /\ a = Descend(mem, PML4, v[1]) /\ b = Descend(mem, a, v[2])
      /\ c = Descend(mem, b, v[3]) /\ d = Descend(mem, c, v[4])
      /\ {a, b, c, d} \subseteq Frames \cup {NoFrame}
  BY <1>1, NodeFacts, NodeTyped
<1> HIDE DEF a, b, c, d
<1>5. mem[cr3][v[1]].p => a # NoFrame
  <2>1. mem[cr3][v[1]].p => mem[PML4][v[1]].p
    BY <1>1, <1>2 DEF Copy
  <2> QED
    BY <2>1, <1>1, <1>2, <1>4, DescendFacts
<1>6. /\ PresentAt(PDP_MAPPING(v[1]), v[2]) <=> b # NoFrame
      /\ PresentAt(PD_MAPPING(v[1], v[2]), v[3]) <=> c # NoFrame
      /\ PresentAt(PT_MAPPING(v[1], v[2], v[3]), v[4]) <=> d # NoFrame
  <2>1. \A f \in Frames \cup {NoFrame} : \A i \in Idx :
          f # NoFrame /\ mem[f][i].p <=> Descend(mem, f, i) # NoFrame
    BY <1>1, DescendFacts
  <2> QED
    BY <2>1, <1>2, <1>3, <1>4 DEF PresentAt
<1>7. PresentAt(current_pml4, v[1]) <=> mem[cr3][v[1]].p
  BY <1>1, SMTT(30) DEF PresentAt
<1>8. /\ b # NoFrame => a # NoFrame
      /\ c # NoFrame => b # NoFrame
      /\ d # NoFrame => c # NoFrame /\ mem[c][v[4]].to = d
  BY <1>4 DEF Descend
<1>9. to_physical(v) = IF mem[cr3][v[1]].p /\ b # NoFrame /\ c # NoFrame /\ d # NoFrame
                       THEN Masked(mem[c][v[4]].to) ELSE 0
  BY <1>3, <1>6, <1>7 DEF to_physical, HasTables
<1>10. \A f \in Frames : Masked(f) = f
  BY MaskedFrame
<1> QED
  BY <1>1, <1>3, <1>4, <1>8, <1>9, <1>10 DEF OrZero

\* A PML4 of an address space, seen by the processor from any other.
LEMMA SpaceWalks ==
  ASSUME PagingInv, phase = "ready", NEW x \in HeapPages \cup {kernel_space},
         NEW c \in {PML4, cr3}
  PROVE  Walk(mem, c, x) = Node(mem, 5, x)
<1>1. /\ mem \in Memories /\ Copy(mem, PML4) /\ c \in Frames /\ Copy(mem, c)
  BY InvFacts, ConstantFacts
<1>2. x \in Pages /\ x[1] = 0
  BY PagePlaces
<1> QED
  BY <1>1, <1>2, RootWalks DEF Copy

LEMMA CopySpaceStep ==
  ASSUME PagingInv, NEW v \in HeapPages, copy_address_space(v)
  PROVE  /\ mem' \in Memories /\ Good(mem', stack, esp, spaces')
         /\ \A w \in NonRec : \A b \in 1 .. 5 : Node(mem', b, w) = Node(mem, b, w)
         /\ mem'[PML4] = mem[PML4] /\ mem'[cr3] = mem[cr3]
         /\ Node(mem, 5, v) \in Frames /\ Node(mem, 5, v) # NoFrame
         /\ mem'[Node(mem, 5, v)] = mem[PML4]
         /\ \A g \in Frames : g # Node(mem, 5, v) => mem'[g] = mem[g]
<1> DEFINE f == Node(mem, 5, v)
<1>1. /\ phase = "ready" /\ v \in HeapPages \ (UserPages \cup spaces)
      /\ Walk(mem, cr3, v) # NoFrame
      /\ mem' = [mem EXCEPT ![Walk(mem, cr3, v)] = mem[Walk(mem, cr3, kernel_space)]]
      /\ spaces' = spaces \cup {v}
      /\ UNCHANGED <<pmmVars, phase, cr3, current_pml4, stale>>
  BY DEF copy_address_space
<1>2. /\ PmmInv /\ Typed /\ Paged /\ spaces \subseteq HeapPages /\ mem \in Memories
  BY <1>1, InvFacts
<1>3. Walk(mem, cr3, v) = f /\ Walk(mem, cr3, kernel_space) = PML4 /\ f # NoFrame
  <2>1. Node(mem, 5, kernel_space) = PML4
    BY <1>2 DEF Paged, Good
  <2> QED
    BY <2>1, <1>1, SpaceWalks
<1>4. f \in Frames /\ PML4 \in Frames
  BY <1>2, <1>3, NodeTyped, PagePlaces, ConstantFacts
<1>5. /\ mem' \in Memories /\ mem'[f] = mem[PML4]
      /\ \A g \in Frames : g # f => mem'[g] = mem[g]
  <2>1. mem' = [mem EXCEPT ![f] = mem[PML4]]
    BY <1>1, <1>3
  <2> HIDE DEF f
  <2>2. mem[PML4] \in [Idx -> Entries]
    BY <1>2, <1>4, MemoryFacts
  <2> QED
    BY <2>1, <2>2, <1>2, <1>4 DEF Memories
<1>6. /\ Good(mem', stack, esp, spaces')
      /\ \A w \in NonRec : \A b \in 1 .. 5 : Node(mem', b, w) = Node(mem, b, w)
  <2>1. Good(mem, stack, esp, spaces)
    BY <1>2 DEF Paged
  <2>2. ASSUME NEW n \in Memories, n[f] = mem[PML4], \A g \in Frames : g # f => n[g] = mem[g]
        PROVE  /\ Good(n, stack, esp, spaces \cup {v})
               /\ \A w \in NonRec : \A b \in 1 .. 5 : Node(n, b, w) = Node(mem, b, w)
    <3>1. v \in HeapPages \ spaces /\ spaces \subseteq HeapPages /\ Node(mem, 5, v) # NoFrame
      BY <1>1, <1>2, <1>3
    <3> QED
      BY <2>1, <2>2, <3>1, CopyKeepsGood
  <2>3. spaces' = spaces \cup {v}
    BY <1>1
  <2> HIDE DEF f
  <2> QED
    BY <2>2, <2>3, <1>5
<1>7. PML4 # f /\ cr3 # f
  <2>1. \A w \in NonRec : Node(mem, 1, w) # f
    BY <1>1, <1>2, <1>3 DEF Paged, Good, HeapPrivate
  <2>2. PML4 # f
    BY <2>1, NodeFacts, PagePlaces
  <2>3. ASSUME NEW x \in spaces PROVE Node(mem, 5, x) # f
    BY <1>1, <1>2, <1>3 DEF Paged, Good, HeapPrivate
  <2>4. cr3 = PML4 \/ \E x \in spaces : cr3 = Node(mem, 5, x)
    BY <1>1, InvFacts DEF Root
  <2> QED
    BY <2>2, <2>3, <2>4
<1> QED
  BY <1>1, <1>3, <1>4, <1>5, <1>6, <1>7, InvFacts

LEMMA CopySpaceInv ==
  ASSUME PagingInv, NEW v \in HeapPages, copy_address_space(v)
  PROVE  PagingInv'
<1>1. /\ phase = "ready" /\ v \in HeapPages \ (UserPages \cup spaces)
      /\ spaces' = spaces \cup {v}
      /\ UNCHANGED <<pmmVars, phase, cr3, current_pml4, stale>>
  BY DEF copy_address_space
<1>2. /\ PmmInv /\ Typed /\ Paged /\ spaces \subseteq HeapPages
  BY <1>1, InvFacts
<1>5. mem' \in Memories
  BY CopySpaceStep
<1>6. /\ Good(mem', stack, esp, spaces')
      /\ \A w \in NonRec : \A b \in 1 .. 5 : Node(mem', b, w) = Node(mem, b, w)
  BY CopySpaceStep
<1>7. /\ stack' = stack /\ esp' = esp /\ phase' = phase /\ cr3' = cr3
      /\ current_pml4' = current_pml4 /\ stale' = stale /\ UNCHANGED pmmVars
  BY <1>1 DEF pmmVars
<1>8. Current(mem', cr3, current_pml4, spaces')
  <2>1. current_pml4 \in spaces \cup {kernel_space} /\ cr3 = Node(mem, 5, current_pml4)
    BY <1>2 DEF Paged, Current
  <2>2. current_pml4 \in NonRec
    BY <2>1, <1>2, PagePlaces
  <2>3. spaces \subseteq spaces'
    BY <1>1
  <2>4. Node(mem', 5, current_pml4) = Node(mem, 5, current_pml4)
    BY <2>2, <1>6
  <2> QED
    BY <2>1, <2>3, <2>4 DEF Current
<1>9. Paged'
  BY <1>2, <1>6, <1>7, <1>8 DEF Paged, Windows
<1>10. Typed'
  BY <1>1, <1>2, <1>5, <1>7 DEF Typed
<1>11. PmmInv'
  BY <1>2, <1>7 DEF PmmInv, StackTyped, Collected, Filling, FreeDistinct, pmmVars
<1> QED
  BY <1>1, <1>9, <1>10, <1>11 DEF PagingInv

LEMMA SetSpaceInv ==
  ASSUME PagingInv, NEW x \in HeapPages \cup {kernel_space}, set_address_space(x)
  PROVE  PagingInv'
<1>1. /\ phase = "ready" /\ x \in spaces \cup {kernel_space}
      /\ cr3' = to_physical(x) /\ current_pml4' = x /\ stale' = {}
      /\ UNCHANGED <<pmmVars, phase, mem, spaces>>
  BY DEF set_address_space
<1>2. PmmInv /\ Typed /\ Paged /\ mem \in Memories
  BY <1>1, InvFacts
<1>3. x \in NonRec /\ x \in Pages
  BY PagePlaces
<1>4. cr3' = Node(mem, 5, x)
  <2>1. Node(mem, 5, x) # NoFrame
    <3>1. Copy(mem, PML4) /\ Node(mem, 5, kernel_space) = PML4 /\ Copies(mem, spaces)
      BY <1>2, <1>1 DEF Paged, Good
    <3> QED
      BY <1>1, <3>1 DEF Copy, Copies
  <2>2. Walk(mem, cr3, x) = Node(mem, 5, x)
    BY <1>1, SpaceWalks
  <2>3. to_physical(x) = OrZero(Walk(mem, cr3, x))
    BY <1>1, <1>3, ToPhysical
  <2> QED
    BY <1>1, <2>1, <2>2, <2>3 DEF OrZero
<1>5. cr3' \in Frames \cup {NoFrame}
  BY <1>2, <1>3, <1>4, NodeTyped
<1>6. /\ stack' = stack /\ esp' = esp /\ mem' = mem /\ spaces' = spaces /\ phase' = phase
      /\ UNCHANGED pmmVars
  BY <1>1 DEF pmmVars
<1>7. Paged'
  BY <1>1, <1>2, <1>4, <1>6 DEF Paged, Current, Windows
<1>8. Typed'
  BY <1>1, <1>2, <1>3, <1>5, <1>6 DEF Typed
<1>9. PmmInv'
  BY <1>2, <1>6 DEF PmmInv, StackTyped, Collected, Filling, FreeDistinct, pmmVars
<1> QED
  BY <1>1, <1>7, <1>8, <1>9 DEF PagingInv

LEMMA InitPagingInv ==
  ASSUME PagingInv, init_paging
  PROVE  PagingInv'
<1>1. /\ phase = "paging" /\ PmmInv /\ Typed /\ Unmapped /\ mem \in Memories
  BY DEF PagingInv, init_paging, Typed
<1>2. /\ cr3' = PML4 /\ phase' = "ready" /\ stack' = stack /\ esp' = esp
      /\ UNCHANGED <<stack_size, current_pml4, spaces, stale>>
  BY DEF init_paging, pmmVars
<1>3. mem' = BootMem(mem)
  <2>1. DOMAIN mem = Frames
    BY <1>1 DEF Memories
  <2> QED
    BY <2>1 DEF init_paging, BootMem, BootRow, BootPDP, IsPT, WhichPT
<1>4. esp \in Nat /\ \A i \in 0 .. esp - 1 : stack[i] \in Frames /\ stack[i] > LowLimit
  <2>1. esp \in Nat
    BY <1>1 DEF PmmInv, StackTyped
  <2>2. ASSUME NEW i \in 0 .. esp - 1 PROVE stack[i] \in Frames /\ stack[i] > LowLimit
    <3>1. PICK r \in DOMAIN MemoryMap : Usable(r) /\ stack[i] \in RegionFrames(r)
      BY <1>1 DEF PmmInv, Collected
    <3> QED
      BY <3>1, RegionFacts DEF Frames
  <2> QED
    BY <2>1, <2>2
<1>5. Good(mem', stack, esp, {}) /\ Current(mem', PML4, kernel_space, {}) /\ mem' \in Memories
  <2>1. /\ Good(BootMem(mem), stack, esp, {}) /\ Current(BootMem(mem), PML4, kernel_space, {})
        /\ BootMem(mem) \in Memories
    BY <1>1, <1>4, BootGood DEF Good
  <2> QED
    BY <2>1, <1>3
<1>6. Paged'
  BY <1>1, <1>2, <1>5 DEF Paged, Unmapped
<1>7. Typed'
  BY <1>1, <1>2, <1>5, ConstantFacts DEF Typed
<1>8. PmmInv'
  <2>1. esp' \in 0 .. esp
    BY <1>2, <1>4
  <2> QED
    BY <2>1, <1>1, <1>2, PoppedInv
<1> QED
  BY <1>2, <1>6, <1>7, <1>8 DEF PagingInv

LEMMA FillInv ==
  ASSUME PagingInv, Fill, UNCHANGED pagingVars
  PROVE  PagingInv'
<1>1. PmmInv /\ Typed /\ phase = "mmap" /\ Unmapped
  BY DEF PagingInv, Fill, MarkFrame, NextRegion, MapDone
<1>2. PmmInv'
  BY <1>1, MarkFrameInv, NextRegionInv, MapDoneInv DEF Fill, PagingInv
<1>3. phase' \in {"mmap", "paging"}
  BY <1>1 DEF Fill, MarkFrame, NextRegion, MapDone
<1> QED
  BY <1>1, <1>2, <1>3 DEF PagingInv, Typed, Unmapped, pagingVars

LEMMA InitInv == RegionsApart /\ BelowFourGB /\ Init => PagingInv
<1> SUFFICES ASSUME RegionsApart, BelowFourGB, Init PROVE PagingInv
  OBVIOUS
<1>1. PmmInv /\ phase = "mmap"
  BY PmmInitInv DEF Init, PmmInit
<1>2. mem \in Memories
  <2>1. Junk \in [Idx -> Entries]
    <3>1. 0 \in Frames
      BY ConstantFacts DEF Frames
    <3> QED
      BY <3>1, EntryFacts DEF Junk
  <2> QED
    BY <2>1 DEF Init, Memories, Frames
<1>3. Typed
  BY <1>1, <1>2, PagePlaces DEF Init, Typed
<1>4. Unmapped
  BY DEF Init, Unmapped
<1> QED
  BY <1>1, <1>3, <1>4 DEF PagingInv

\* What a step may be when paging is on: it maps or unmaps one page, copies the
\* PML4 or loads CR3.
LEMMA ReadySteps ==
  ASSUME PagingInv, phase = "ready", Next
  PROVE  \/ \E v \in NonRec \ Kept : MapStep(v)
         \/ \E v \in HeapPages : copy_address_space(v)
         \/ \E x \in HeapPages \cup {kernel_space} : set_address_space(x)
<1>1. ~Fill /\ ~init_paging
  BY DEF Fill, MarkFrame, NextRegion, MapDone, init_paging
<1>2. /\ spaces \subseteq HeapPages \ UserPages
      /\ kernel_space \notin HeapPages \cup UserPages
      /\ HeapPages \cup UserPages \subseteq NonRec
      /\ \A v \in HeapPages \cup UserPages : v[1] = 0
  BY PagePlaces DEF PagingInv, Typed
<1>3. ASSUME NEW v \in HeapPages \cup UserPages, v \notin spaces, NEW u \in BOOLEAN, kalloc_f(v, u)
      PROVE  v \in NonRec \ Kept /\ MapStep(v)
  <2>1. v \in NonRec \ Kept /\ v[1] = 0
    BY <1>2, <1>3 DEF Kept
  <2>2. MapFresh(v, u)
    BY <1>3 DEF kalloc_f
  <2> QED
    BY <2>1, <2>2, FreshStep
<1>4. ASSUME NEW v \in HeapPages \ spaces, kalloc_f(v, FALSE)
      PROVE  \E w \in NonRec \ Kept : MapStep(w)
  BY <1>3, <1>4
<1>5. ASSUME NEW v \in UserPages, kalloc_f(v, TRUE)
      PROVE  \E w \in NonRec \ Kept : MapStep(w)
  BY <1>2, <1>3, <1>5
<1>6. ASSUME NEW v \in UserPages, unmap(v)
      PROVE  \E w \in NonRec \ Kept : MapStep(w)
  BY <1>6, UnmapStep
<1>7. ASSUME NEW v \in DevicePages, map_framebuffer(v)
      PROVE  \E w \in NonRec \ Kept : MapStep(w)
  BY <1>7, FramebufferStep
<1> QED
  BY <1>1, <1>4, <1>5, <1>6, <1>7 DEF Next

LEMMA StepInv == PagingInv /\ [Next]_vars => PagingInv'
<1> SUFFICES ASSUME PagingInv, [Next]_vars PROVE PagingInv'
  OBVIOUS
<1>1. CASE Fill /\ UNCHANGED pagingVars
  BY <1>1, FillInv
<1>2. CASE init_paging
  BY <1>2, InitPagingInv
<1>3. CASE phase = "ready" /\ Next
  <2>1. ASSUME NEW v \in NonRec \ Kept, MapStep(v) PROVE PagingInv'
    <3>1. PICK s, r, f : /\ s.mem = mem /\ s.esp \in 0 .. esp
                         /\ MapsTo(s, r, spaces, v, f) /\ Mapped(r)
      BY <2>1 DEF MapStep
    <3> QED
      BY <3>1, <1>3, MappedInv DEF Kept
  <2> QED
    BY <2>1, <1>3, ReadySteps, CopySpaceInv, SetSpaceInv
<1>4. CASE UNCHANGED vars
  BY <1>4 DEF vars, pagingVars, PagingInv, PmmInv, StackTyped, Collected, Filling,
              FreeDistinct, Typed, Unmapped, Paged, Windows
<1>5. Next => (Fill /\ UNCHANGED pagingVars) \/ init_paging \/ (phase = "ready" /\ Next)
  BY DEF Next, kalloc_f, unmap, map_framebuffer, copy_address_space, set_address_space
<1> QED
  BY <1>1, <1>2, <1>3, <1>4, <1>5

\* The tables stay a tree of frames of their own, shared by the address spaces.
THEOREM Paging_Inv == RegionsApart /\ BelowFourGB /\ Spec => []PagingInv
<1>1. RegionsApart /\ BelowFourGB /\ Init => PagingInv
  BY InitInv
<1>2. PagingInv /\ [Next]_vars => PagingInv'
  BY StepInv
<1> QED
  BY <1>1, <1>2, PTL DEF Spec

-----------------------------------------------------------------------------
(* The frames of the tables                                                *)

\* An entry of a table a walk meets is met by a walk.
LEMMA ChildNode ==
  ASSUME NEW m, NEW l \in 1 .. 4, NEW v \in NonRec, NEW j \in Idx, l = 1 => j # rec
  PROVE  \E w \in NonRec : /\ Agree(l, v, w) /\ w[l] = j
                           /\ Node(m, l, w) = Node(m, l, v)
                           /\ Node(m, l + 1, w) = Descend(m, Node(m, l, v), j)
<1>1. v \in Pages /\ v[1] \in Idx /\ v[2] \in Idx /\ v[3] \in Idx /\ v[4] \in Idx /\ v[1] # rec
  BY PageFacts DEF NonRec
<1>2. ASSUME NEW w \in Pages, w[1] # rec, Agree(l, v, w), w[l] = j
      PROVE  /\ w \in NonRec /\ Node(m, l, w) = Node(m, l, v)
             /\ Node(m, l + 1, w) = Descend(m, Node(m, l, v), j)
  <2>1. Node(m, l, w) = Node(m, l, v)
    BY <1>1, <1>2, NodeAgrees
  <2>2. Node(m, l + 1, w) = Descend(m, Node(m, l, w), w[l])
    BY NodeFacts
  <2> QED
    BY <2>1, <2>2, <1>2 DEF NonRec
<1>3. CASE l = 1
  <2> DEFINE w == <<j, v[2], v[3], v[4]>>
  <2>1. w \in Pages /\ w[1] = j
    BY <1>1 DEF Pages
  <2>2. Agree(l, v, w)
    BY <1>1, <1>3, <2>1, AgreeFacts
  <2> QED
    BY <2>1, <2>2, <1>2, <1>3
<1>4. CASE l = 2
  <2> DEFINE w == <<v[1], j, v[3], v[4]>>
  <2>1. w \in Pages /\ w[1] = v[1] /\ w[2] = j
    BY <1>1 DEF Pages
  <2>2. Agree(l, v, w)
    BY <1>1, <1>4, <2>1, AgreeFacts
  <2> QED
    BY <2>1, <2>2, <1>1, <1>2, <1>4
<1>5. CASE l = 3
  <2> DEFINE w == <<v[1], v[2], j, v[4]>>
  <2>1. w \in Pages /\ w[1] = v[1] /\ w[2] = v[2] /\ w[3] = j
    BY <1>1 DEF Pages
  <2>2. Agree(l, v, w)
    BY <1>1, <1>5, <2>1, AgreeFacts
  <2> QED
    BY <2>1, <2>2, <1>1, <1>2, <1>5
<1>6. CASE l = 4
  <2> DEFINE w == <<v[1], v[2], v[3], j>>
  <2>1. w \in Pages /\ w[1] = v[1] /\ w[2] = v[2] /\ w[3] = v[3] /\ w[4] = j
    BY <1>1 DEF Pages
  <2>2. Agree(l, v, w)
    BY <1>1, <1>6, <2>1, AgreeFacts
  <2> QED
    BY <2>1, <2>2, <1>1, <1>2, <1>6
<1> QED
  BY <1>3, <1>4, <1>5, <1>6

\* The frames walks meet at level l.
NodesAt(l) == {Node(mem, l, v) : v \in NonRec} \ {NoFrame}

LEMMA BelowNodes ==
  ASSUME mem \in Memories, NEW l \in 2 .. 4
  PROVE  Below(NodesAt(l)) = NodesAt(l + 1)
<1>1. ASSUME NEW v \in NonRec, Node(mem, l + 1, v) # NoFrame
      PROVE  Node(mem, l + 1, v) \in Below(NodesAt(l))
  <2> DEFINE t == Node(mem, l, v)
             j == v[l]
  <2>1. v \in Pages /\ t \in Frames \cup {NoFrame} /\ j \in Idx
    BY PagePlaces, PageFacts, NodeTyped
  <2>2. Node(mem, l + 1, v) = Descend(mem, t, j)
    BY NodeFacts
  <2>3. t # NoFrame => t \in NodesAt(l)
    BY DEF NodesAt
  <2> HIDE DEF t, j
  <2>4. t # NoFrame /\ mem[t][j].p /\ Descend(mem, t, j) = mem[t][j].to
    BY <2>1, <2>2, <1>1, DescendFacts
  <2>5. <<t, j>> \in NodesAt(l) \X Idx
    BY <2>1, <2>3, <2>4
  <2> QED
    BY <2>2, <2>4, <2>5 DEF Below
<1>2. ASSUME NEW x \in NodesAt(l) \X Idx, mem[x[1]][x[2]].p
      PROVE  mem[x[1]][x[2]].to \in NodesAt(l + 1)
  <2> DEFINE t == x[1]
             j == x[2]
  <2>1. PICK v \in NonRec : t = Node(mem, l, v) /\ t # NoFrame
    BY DEF NodesAt
  <2>2. j \in Idx /\ mem[t][j].p
    BY <1>2
  <2>3. t \in Frames
    BY <2>1, PagePlaces, NodeTyped
  <2> HIDE DEF t, j
  <2>4. mem[t][j].to = Descend(mem, t, j) /\ Descend(mem, t, j) # NoFrame
    BY <2>2, <2>3, DescendFacts, ConstantFacts
  <2>5. PICK w \in NonRec : Node(mem, l + 1, w) = Descend(mem, t, j)
    BY <2>1, <2>2, ChildNode
  <2>6. Descend(mem, t, j) \in NodesAt(l + 1)
    BY <2>4, <2>5 DEF NodesAt
  <2> QED
    BY <2>4, <2>6 DEF t, j
<1>3. NodesAt(l + 1) \subseteq Below(NodesAt(l))
  BY <1>1 DEF NodesAt
<1>4. Below(NodesAt(l)) \subseteq NodesAt(l + 1)
  BY <1>2 DEF Below
<1> QED
  BY <1>3, <1>4

LEMMA LevelNodes ==
  ASSUME mem \in Memories
  PROVE  /\ {PML4} = NodesAt(1) /\ Level2 = NodesAt(2) /\ Level3 = NodesAt(3)
         /\ Level4 = NodesAt(4) /\ Below(Level4) = NodesAt(5)
<1>1. {PML4} = NodesAt(1)
  BY NodeFacts, PagePlaces, ConstantFacts DEF NodesAt
<1>2. Level2 = NodesAt(2)
  <2>1. ASSUME NEW i \in Idx, i # rec, mem[PML4][i].p
        PROVE  mem[PML4][i].to \in NodesAt(2)
    <3>1. mem[PML4][i].to = Descend(mem, PML4, i) /\ Descend(mem, PML4, i) # NoFrame
      BY <2>1, DescendFacts, ConstantFacts
    <3>2. PICK w \in NonRec : Node(mem, 1 + 1, w) = Descend(mem, Node(mem, 1, kernel_space), i)
      BY <2>1, ChildNode, PagePlaces
    <3>3. Node(mem, 2, w) = Descend(mem, PML4, i)
      BY <3>2, NodeFacts
    <3> QED
      BY <3>1, <3>3 DEF NodesAt
  <2>2. ASSUME NEW v \in NonRec, Node(mem, 2, v) # NoFrame
        PROVE  Node(mem, 2, v) \in Level2
    <3>1. v[1] \in Idx /\ v[1] # rec
      BY PageFacts DEF NonRec
    <3>2. Node(mem, 2, v) = Descend(mem, PML4, v[1])
      BY NodeFacts
    <3>3. mem[PML4][v[1]].p /\ Node(mem, 2, v) = mem[PML4][v[1]].to
      BY <3>1, <3>2, <2>2, DescendFacts, ConstantFacts
    <3> QED
      BY <3>1, <3>3 DEF Level2
  <2>3. Level2 \subseteq NodesAt(2)
    BY <2>1 DEF Level2
  <2>4. NodesAt(2) \subseteq Level2
    BY <2>2 DEF NodesAt
  <2> QED
    BY <2>3, <2>4
<1>3. Level3 = NodesAt(3)
  BY <1>2, BelowNodes DEF Level3
<1>4. Level4 = NodesAt(4)
  BY <1>3, BelowNodes DEF Level4
<1>5. Below(Level4) = NodesAt(5)
  BY <1>4, BelowNodes
<1> QED
  BY <1>1, <1>2, <1>3, <1>4, <1>5

LEMMA UnusedFrames == PagingInv /\ phase = "ready" => FreeUnused
<1> SUFFICES ASSUME PagingInv, phase = "ready", NEW f \in Free
             PROVE  f \notin Tables \cup Below(Level4) \cup {SpaceFrame(x) : x \in spaces}
  BY DEF FreeUnused
<1>1. mem \in Memories /\ Unused(mem, stack, esp) /\ spaces \subseteq NonRec
  BY InvFacts, PagePlaces DEF Paged, Good
<1>2. ASSUME NEW v \in NonRec, NEW l \in 1 .. 5 PROVE f # Node(mem, l, v)
  BY <1>1 DEF Unused, Free
<1>3. \A l \in 1 .. 5 : f \notin NodesAt(l)
  BY <1>2 DEF NodesAt
<1>4. f \notin Tables \cup Below(Level4)
  BY <1>1, <1>3, LevelNodes DEF Tables
<1>5. ASSUME NEW x \in spaces PROVE f # SpaceFrame(x)
  <2>1. SpaceFrame(x) = Node(mem, 5, x)
    BY NodeFacts DEF SpaceFrame
  <2> QED
    BY <2>1, <1>1, <1>2
<1> QED
  BY <1>4, <1>5

\* The one entry that leads to the table a walk meets at level l + 1.
LEMMA OneParent ==
  ASSUME PagingInv, phase = "ready", NEW l \in 1 .. 3, NEW v \in NonRec,
         Node(mem, l + 1, v) # NoFrame
  PROVE  {x \in Parents(Node(mem, l + 1, v)) : x[1] \notin Level4} = {<<Node(mem, l, v), v[l]>>}
<1> DEFINE t == Node(mem, l + 1, v)
           q == Node(mem, l, v)
           j == v[l]
<1>1. /\ mem \in Memories /\ Separate(mem) /\ v \in Pages /\ NonRec \subseteq Pages
      /\ NoFrame \notin Frames /\ PML4 \in Frames
  BY InvFacts, PagePlaces, ConstantFacts DEF Paged, Good
<1>2. /\ q \in Frames \cup {NoFrame} /\ j \in Idx /\ t = Descend(mem, q, j) /\ t # NoFrame
      /\ l = 1 => j # rec
  BY <1>1, NodeTyped, PageFacts, NodeFacts DEF NonRec
<1>3. q # NoFrame /\ q \in Frames /\ mem[q][j].p /\ mem[q][j].to = t
  <2> HIDE DEF q, j, t
  <2> QED
    BY <1>1, <1>2, DescendFacts
<1>4. l + 1 \in 1 .. 4 /\ l \in 1 .. 4 /\ l + 1 \in 1 .. 5
  OBVIOUS
<1>5. q \in NodesAt(l)
  BY <1>3 DEF NodesAt
<1>6. q \notin Level4
  <2>1. \A w \in NonRec : q # Node(mem, 4, w)
    BY <1>1, <1>3 DEF Separate
  <2> QED
    BY <2>1, <1>1, LevelNodes DEF NodesAt
<1>7. q \in Tables
  BY <1>1, <1>5, LevelNodes DEF Tables
<1>8. <<q, j>> # <<PML4, rec>>
  <2>1. q = PML4 => l = 1
    BY <1>1, <1>3, NodeFacts, PagePlaces DEF Separate
  <2> QED
    BY <2>1, <1>2
<1>9. ASSUME NEW a, NEW i \in Idx, a \in Tables, a \notin Level4, a # PML4 \/ i # rec,
             mem[a][i].p, mem[a][i].to = t
      PROVE  a = q /\ i = j
  <2>1. PICK k \in 1 .. 3, u \in NonRec : a = Node(mem, k, u) /\ a # NoFrame
    <3>1. a \in NodesAt(1) \/ a \in NodesAt(2) \/ a \in NodesAt(3)
      BY <1>1, <1>9, LevelNodes DEF Tables
    <3> QED
      BY <3>1 DEF NodesAt
  <2>2. a \in Frames
    BY <2>1, <1>1, NodeTyped
  <2>3. Descend(mem, a, i) = t
    <3> HIDE DEF t
    <3> QED
      BY <2>1, <2>2, <1>9 DEF Descend
  <2>4. k = 1 => i # rec
    BY <2>1, <1>9, NodeFacts
  <2>5. PICK w \in NonRec : /\ w[k] = i /\ Node(mem, k, w) = Node(mem, k, u)
                            /\ Node(mem, k + 1, w) = Descend(mem, Node(mem, k, u), i)
    BY <2>4, ChildNode
  <2>6. Node(mem, k + 1, w) = t
    BY <2>1, <2>3, <2>5
  <2>7. k + 1 = l + 1 /\ Agree(k + 1, w, v)
    <3>1. k + 1 \in 1 .. 4 /\ Node(mem, k + 1, w) # NoFrame
      BY <2>6, <1>2
    <3> QED
      BY <3>1, <2>6, <1>1, <1>4 DEF Separate
  <2>8. k = l
    BY <2>7
  <2>9. Agree(l, w, v) /\ w[l] = v[l]
    BY <2>7, <2>8, <1>1, AgreeFacts
  <2>10. Node(mem, l, w) = Node(mem, l, v)
    BY <2>9, <1>1, <1>4, NodeAgrees
  <2> QED
    BY <2>1, <2>5, <2>8, <2>9, <2>10
<1> HIDE DEF t, q, j
<1>10. <<q, j>> \in {x \in Parents(t) : x[1] \notin Level4}
  BY <1>2, <1>3, <1>6, <1>7, <1>8 DEF Parents
<1>11. ASSUME NEW x \in Parents(t), x[1] \notin Level4 PROVE x = <<q, j>>
  <2>1. /\ x = <<x[1], x[2]>> /\ x[1] \in Tables /\ x[2] \in Idx /\ x # <<PML4, rec>>
        /\ mem[x[1]][x[2]].p /\ mem[x[1]][x[2]].to = t
    BY DEF Parents
  <2>2. x[1] # PML4 \/ x[2] # rec
    BY <2>1
  <2>3. x[1] = q /\ x[2] = j
    BY <2>1, <2>2, <1>9, <1>11
  <2> QED
    BY <2>1, <2>3
<1>12. {x \in Parents(t) : x[1] \notin Level4} = {<<q, j>>}
  BY <1>10, <1>11
<1> QED
  BY <1>12 DEF t, q, j

LEMMA PrivateTables == PagingInv /\ phase = "ready" => TablesPrivate
<1> SUFFICES ASSUME PagingInv, phase = "ready", NEW t \in Level2 \cup Level3 \cup Level4
             PROVE  Cardinality({x \in Parents(t) : x[1] \notin Level4}) = 1
  BY DEF TablesPrivate
<1>1. mem \in Memories
  BY InvFacts
<1>2. PICK l \in 1 .. 3, v \in NonRec : t = Node(mem, l + 1, v) /\ t # NoFrame
  <2>1. t \in NodesAt(1 + 1) \/ t \in NodesAt(2 + 1) \/ t \in NodesAt(3 + 1)
    BY <1>1, LevelNodes
  <2> QED
    BY <2>1 DEF NodesAt
<1>3. {x \in Parents(t) : x[1] \notin Level4} = {<<Node(mem, l, v), v[l]>>}
  BY <1>2, OneParent
<1> QED
  BY <1>3, FS_Singleton

-----------------------------------------------------------------------------
(* The properties                                                          *)

LEMMA InvFramesOnce == PagingInv => FramesOnce
<1> SUFFICES ASSUME PagingInv PROVE FramesOnce
  OBVIOUS
<1>1. PmmInv /\ Typed
  BY DEF PagingInv
<1>2. TypeOK
  <2>1. cr3 \in -1 .. NFrames - 1
    BY <1>1, ConstantFacts DEF Typed, Frames, NoFrame
  <2>2. mem \in [0 .. NFrames - 1 ->
                  [Idx -> [p : BOOLEAN, to : 0 .. NFrames - 1, user : BOOLEAN]]]
    BY <1>1 DEF Typed, Memories, Entries, Frames
  <2> QED
    BY <2>1, <2>2, <1>1 DEF TypeOK, Typed, PmmInv, StackTyped
<1>3. FreeDistinct /\ FreeAbove
  BY <1>1, FramesAbove DEF PmmInv
<1> QED
  BY <1>2, <1>3, UnusedFrames, PrivateTables DEF FramesOnce

\* Every frame has one use, for every memory map, layout of the static tables
\* and order of calls: falloc never hands out a frame that is a table, is
\* mapped or was handed out before, and each table has one parent, so mapf,
\* unmap and copy_address_space never edit a table for two subtrees.
THEOREM Paging_FramesOnce == RegionsApart /\ BelowFourGB /\ Spec => []FramesOnce
BY Paging_Inv, InvFramesOnce, PTL

LEMMA InvSpaces == PagingInv => SpacesShareKernel
<1> SUFFICES ASSUME PagingInv, phase = "ready", NEW x \in spaces
             PROVE  /\ mem[SpaceFrame(x)][rec] = Entry(PML4, FALSE)
                    /\ \A i \in Idx \ {rec} :
                         mem[SpaceFrame(x)][i].p =>
                           mem[PML4][i].p /\ mem[PML4][i].to = mem[SpaceFrame(x)][i].to
  BY DEF SpacesShareKernel
<1>1. Copy(mem, Node(mem, 5, x))
  BY InvFacts DEF Paged, Good, Copies
<1>2. SpaceFrame(x) = Node(mem, 5, x)
  BY NodeFacts DEF SpaceFrame
<1> QED
  BY <1>1, <1>2 DEF Copy

\* Whatever the kernel maps and whichever address space it maps it in, every
\* copy that copy_address_space made still leads to the kernel's own tables.
THEOREM Paging_SpacesShareKernel == RegionsApart /\ BelowFourGB /\ Spec => []SpacesShareKernel
BY Paging_Inv, InvSpaces, PTL

LEMMA InvWindow == PagingInv => WindowAgrees
<1> SUFFICES ASSUME PagingInv, phase = "ready" PROVE WindowAgrees
  BY DEF WindowAgrees
<1>1. cr3 = Walk(mem, cr3, current_pml4)
  BY InvFacts
<1>2. \A v \in NonRec : to_physical(v) = OrZero(Walk(mem, cr3, v))
  BY ToPhysical
<1>3. stale \cap (Windows \cup {current_pml4}) = {}
  BY InvFacts DEF Paged
<1> QED
  BY <1>1, <1>2, <1>3 DEF WindowAgrees

\* The kernel edits the PML4 the processor uses and reads the translations the
\* processor makes, and no window it edits a table through is outdated in the
\* TLB, though mapf invalidates nothing.
THEOREM Paging_WindowAgrees == RegionsApart /\ BelowFourGB /\ Spec => []WindowAgrees
BY Paging_Inv, InvWindow, PTL

\* The pages a step may move, in a PML4 or copy of frame root.
LEMMA MapMoves ==
  ASSUME PagingInv, phase = "ready", phase' = "ready", NEW w \in NonRec \ Kept, MapStep(w),
         NEW root \in {PML4, cr3}, NEW v \in Remapped(root)
  PROVE  v = w /\ Walk(mem', root, w) \in Free \cup {Device, NoFrame}
<1>1. PICK s, r, f : /\ s.mem = mem /\ s.esp \in 0 .. esp
                     /\ MapsTo(s, r, spaces, w, f) /\ f \in Free \cup {Device, NoFrame}
                     /\ Mapped(r)
  BY DEF MapStep
<1>2. /\ mem \in Memories /\ Copy(mem, PML4) /\ root \in Frames /\ Copy(mem, root)
      /\ spaces \subseteq HeapPages /\ PML4 \in Frames /\ NonRec \subseteq Pages
      /\ root # PML4 => \E x \in spaces : root = Node(mem, 5, x)
  BY InvFacts, PagePlaces, ConstantFacts DEF Root
<1>3. mem' = r.mem /\ r.ok
  BY <1>1 DEF Mapped
<1> DEFINE n == r.mem
<1>4. /\ Good(n, stack, r.esp, spaces) /\ Edited(mem, n, stack, s.esp, spaces, w)
      /\ Node(n, 5, w) = f
  BY <1>1, <1>3 DEF MapsTo
<1> HIDE DEF n
<1>5. Root(n, spaces, root)
  <2>1. ASSUME NEW x \in spaces PROVE Node(n, 5, x) = Node(mem, 5, x)
    <3>1. x \in NonRec /\ x # w
      BY <1>2, PagePlaces DEF Kept
    <3> QED
      BY <3>1, <1>4 DEF Edited
  <2> QED
    BY <2>1, <1>2 DEF Root
<1>6. n \in Memories /\ Copy(n, PML4) /\ Copy(n, root)
  BY <1>2, <1>4, <1>5, RootFacts
<1>7. ASSUME NEW u \in NonRec
      PROVE  /\ Walk(mem, root, u) = IF mem[root][u[1]].p THEN Node(mem, 5, u) ELSE NoFrame
             /\ Walk(n, root, u) = IF n[root][u[1]].p THEN Node(n, 5, u) ELSE NoFrame
  BY <1>2, <1>6, RootWalks
<1>8. ASSUME NEW u \in NonRec, u # w PROVE Walk(n, root, u) = Walk(mem, root, u)
  <2>1. Node(n, 5, u) = Node(mem, 5, u)
    BY <1>4, <1>8 DEF Edited
  <2>2. CASE root = PML4
    BY <2>1, <2>2, NodeFacts
  <2>3. CASE root # PML4
    <3>1. u[1] \in Idx
      BY <1>2, PageFacts
    <3>2. n[root][u[1]].p = mem[root][u[1]].p
      BY <3>1, <2>3, <1>2, <1>4 DEF Edited
    <3> QED
      BY <3>2, <2>1, <1>7
  <2> QED
    BY <2>2, <2>3
<1>9. v \in NonRec /\ Walk(mem, root, v) # Walk(mem', root, v)
  BY DEF Remapped
<1>10. v = w
  <2>1. Walk(mem', root, v) = Walk(n, root, v)
    BY <1>3 DEF n
  <2> QED
    BY <2>1, <1>8, <1>9
<1>11. Walk(n, root, w) \in Free \cup {Device, NoFrame}
  BY <1>1, <1>4, <1>7
<1> QED
  BY <1>3, <1>10, <1>11 DEF n

LEMMA NothingMoves ==
  ASSUME PagingInv, phase = "ready", NEW root \in {PML4, cr3},
         \/ \E v \in HeapPages : copy_address_space(v)
         \/ \E x \in HeapPages \cup {kernel_space} : set_address_space(x)
         \/ UNCHANGED vars
  PROVE  Remapped(root) = {}
<1>1. CASE \E v \in HeapPages : copy_address_space(v)
  <2>1. PICK v \in HeapPages : copy_address_space(v)
    BY <1>1
  <2>2. /\ mem' \in Memories /\ Good(mem', stack, esp, spaces')
        /\ \A w \in NonRec : \A b \in 1 .. 5 : Node(mem', b, w) = Node(mem, b, w)
        /\ mem'[root] = mem[root]
    BY <2>1, CopySpaceStep
  <2>3. /\ mem \in Memories /\ Copy(mem, PML4) /\ root \in Frames /\ Copy(mem, root)
        /\ PML4 \in Frames /\ NonRec \subseteq Pages
    BY InvFacts, PagePlaces, ConstantFacts
  <2>4. Copy(mem', PML4)
    BY <2>2 DEF Good
  <2>5. Copy(mem', root)
    <3>1. mem'[PML4] = mem[PML4]
      BY <2>1, CopySpaceStep
    <3> QED
      BY <3>1, <2>2, <2>3 DEF Copy
  <2>6. ASSUME NEW w \in NonRec PROVE Walk(mem', root, w) = Walk(mem, root, w)
    <3>1. /\ Walk(mem, root, w) = IF mem[root][w[1]].p THEN Node(mem, 5, w) ELSE NoFrame
          /\ Walk(mem', root, w) = IF mem'[root][w[1]].p THEN Node(mem', 5, w) ELSE NoFrame
      BY <2>2, <2>3, <2>4, <2>5, RootWalks
    <3>2. Node(mem', 5, w) = Node(mem, 5, w)
      BY <2>2
    <3> QED
      BY <3>1, <3>2, <2>2
  <2> QED
    BY <2>6 DEF Remapped
<1>2. CASE mem' = mem
  BY <1>2 DEF Remapped
<1> QED
  BY <1>1, <1>2 DEF set_address_space, vars, pagingVars

\* A step that maps or unmaps changes one page's translation, in the kernel's
\* tables and in the space the processor uses, whatever tables it had to add on
\* the way, and gives the page a frame nothing used; copying and switching
\* address spaces move no page.
THEOREM Paging_MapsOnePage == RegionsApart /\ BelowFourGB /\ Spec => MapsOnePage
<1> DEFINE Moves == phase = "ready" /\ phase' = "ready" =>
                      \A root \in {PML4, cr3} : \A v \in Remapped(root) :
                        /\ Remapped(root) = {v}
                        /\ Walk(mem, root, v)' \in Free \cup {Device, NoFrame}
<1>1. PagingInv /\ [Next]_vars => [Moves]_vars
  <2> SUFFICES ASSUME PagingInv, [Next]_vars, phase = "ready", phase' = "ready",
                      NEW root \in {PML4, cr3}, NEW v \in Remapped(root)
               PROVE  /\ Remapped(root) = {v}
                      /\ Walk(mem', root, v) \in Free \cup {Device, NoFrame}
    OBVIOUS
  <2>1. PICK w \in NonRec \ Kept : MapStep(w)
    BY ReadySteps, NothingMoves
  <2>2. \A u \in Remapped(root) :
          u = w /\ Walk(mem', root, w) \in Free \cup {Device, NoFrame}
    BY <2>1, MapMoves
  <2>3. Remapped(root) = {v}
    BY <2>2
  <2> QED
    BY <2>2, <2>3
<1>2. RegionsApart /\ BelowFourGB /\ Spec => [][Moves]_vars
  BY <1>1, Paging_Inv, PTL DEF Spec
<1> QED
  BY <1>2 DEF MapsOnePage

-----------------------------------------------------------------------------
(* The kernel's order of calls, and what user code reaches at its end       *)

\* The pages given to user code so far.
Given ==
  CASE at = "init_heap" -> {}
    [] at = "framebuffer" -> DevicePages \ left
    [] at = "load_elf64" -> DevicePages \cup ((UserPages \ StackPages) \ left)
    [] at \in {"copy_space", "set_space_1"} -> DevicePages \cup (UserPages \ StackPages)
    [] at = "map_stack" -> DevicePages \cup (UserPages \ left)
    [] OTHER -> DevicePages \cup UserPages

Order ==
  /\ at \in {"init_heap", "framebuffer", "load_elf64", "copy_space", "set_space_1",
             "map_stack", "set_space_2", "set_space_3", "user"}
  /\ at = "init_heap" => left \subseteq HeapPages
  /\ at = "framebuffer" => left \subseteq DevicePages
  /\ at = "load_elf64" => left \subseteq UserPages \ StackPages
  /\ at = "map_stack" => left \subseteq StackPages
  /\ at \in {"init_heap", "framebuffer", "load_elf64", "copy_space"} => spaces = {}
  /\ phase \in {"mmap", "paging"} => at = "init_heap"
  /\ at = "user" => phase = "ready" /\ stale = {}

\* The pages whose own entry has the flag are those given, and the flag is on
\* all the entries that lead to them, from each PML4.
UserOpen ==
  /\ \A w \in NonRec : OpenLeaf(mem, w) => w \in Given
  /\ \A d : Root(mem, spaces, d) => \A w \in Given : Opens(mem, d, w)

BootInv == PagingInv /\ Order /\ (phase = "ready" => UserOpen)

\* A step that maps page v for user code.
LEMMA GiveStep ==
  ASSUME PagingInv, phase = "ready", UserOpen, phase' = "ready",
         NEW v \in NonRec \ Kept, MapStep(v), Opening(v, TRUE),
         Given' = Given \cup {v}, Given \subseteq NonRec,
         spaces = {} \/ \E u \in Given : u[1] = v[1]
  PROVE  UserOpen'
<1>1. PICK s, r, f : /\ s.mem = mem /\ MapsTo(s, r, spaces, v, f) /\ Mapped(r)
  BY DEF MapStep
<1>2. mem' = r.mem /\ spaces' = spaces /\ Edited(mem, r.mem, stack, s.esp, spaces, v)
  BY <1>1 DEF Mapped, MapsTo
<1>3. UserEdit(mem, mem', spaces, cr3, v, TRUE)
  BY DEF Opening
<1>4. ASSUME NEW d, Root(mem', spaces, d) PROVE Root(mem, spaces, d)
  <2>1. ASSUME NEW x \in spaces PROVE Node(mem', 5, x) = Node(mem, 5, x)
    <3>1. x \in NonRec /\ x # v
      BY InvFacts, PagePlaces DEF Kept
    <3> QED
      BY <3>1, <1>2 DEF Edited
  <2> QED
    BY <2>1, <1>4 DEF Root
<1>5. ASSUME NEW w \in NonRec, OpenLeaf(mem', w) PROVE w \in Given'
  BY <1>3, <1>5 DEF UserEdit, UserOpen
<1>6. ASSUME NEW d, Root(mem', spaces, d), NEW w \in Given' PROVE Opens(mem', d, w)
  <2>1. Root(mem, spaces, d)
    BY <1>4, <1>6
  <2>2. CASE w \in Given
    BY <2>1, <2>2, <1>3 DEF UserEdit, UserOpen
  <2>3. CASE w \notin Given
    <3>1. w = v /\ Opens(mem', cr3, v)
      BY <2>3, <1>3, <1>6 DEF UserEdit
    <3>2. CASE spaces = {}
      <4>1. d = cr3
        BY <2>1, <3>2, InvFacts DEF Root
      <4> QED
        BY <3>1, <4>1
    <3>3. CASE \E u \in Given : u[1] = v[1]
      <4>1. PICK u \in Given : u[1] = v[1]
        BY <3>3
      <4>2. Opens(mem', d, u)
        BY <2>1, <1>3 DEF UserEdit, UserOpen
      <4> QED
        BY <3>1, <4>1, <4>2 DEF Opens
    <3> QED
      BY <3>2, <3>3
  <2> QED
    BY <2>2, <2>3
<1> QED
  BY <1>2, <1>5, <1>6 DEF UserOpen

\* A step that maps a page for the kernel, before any is given.
LEMMA KernelStep ==
  ASSUME PagingInv, phase = "ready", UserOpen, phase' = "ready",
         NEW v \in NonRec \ Kept, Opening(v, FALSE), Given = {}, Given' = {}
  PROVE  UserOpen'
<1>1. UserEdit(mem, mem', spaces, cr3, v, FALSE)
  BY DEF Opening
<1>2. \A w \in NonRec : ~OpenLeaf(mem', w)
  BY <1>1 DEF UserEdit, UserOpen
<1> QED
  BY <1>2 DEF UserOpen

\* copy_address_space gives the copy the flags of the PML4.
LEMMA CopyOpen ==
  ASSUME PagingInv, phase = "ready", UserOpen, NEW v \in HeapPages, copy_address_space(v),
         Given' = Given, Given \subseteq NonRec
  PROVE  UserOpen'
<1> DEFINE f == Node(mem, 5, v)
<1>1. /\ \A w \in NonRec : \A b \in 1 .. 5 : Node(mem', b, w) = Node(mem, b, w)
      /\ f \in Frames /\ f # NoFrame /\ mem'[f] = mem[PML4]
      /\ \A g \in Frames : g # f => mem'[g] = mem[g]
      /\ spaces' = spaces \cup {v} /\ v \notin spaces
  BY CopySpaceStep DEF copy_address_space
<1>2. /\ mem \in Memories /\ spaces \subseteq HeapPages /\ HeapPages \subseteq NonRec
      /\ NonRec \subseteq Pages /\ PML4 \in Frames
      /\ \A w \in NonRec : \A b \in 1 .. 4 : Node(mem, b, w) # f
      /\ \A y \in HeapPages : Node(mem, 5, y) = f => y = v
  BY <1>1, InvFacts, PagePlaces, ConstantFacts DEF Paged, Good, HeapPrivate
<1> HIDE DEF f
<1>3. ASSUME NEW w \in NonRec
      PROVE  /\ Node(mem', 2, w) = Node(mem, 2, w) /\ Node(mem', 3, w) = Node(mem, 3, w)
             /\ Node(mem', 4, w) = Node(mem, 4, w) /\ Node(mem', 5, w) = Node(mem, 5, w)
             /\ Node(mem, 1, w) # f
             /\ Node(mem, 2, w) # f /\ Node(mem, 3, w) # f /\ Node(mem, 4, w) # f
  BY <1>1, <1>2
<1>4. ASSUME NEW g \in Frames, g # f, NEW j PROVE Flags(mem', g, j, TRUE) <=> Flags(mem, g, j, TRUE)
  <2>1. mem'[g] = mem[g]
    BY <1>1, <1>4
  <2> QED
    BY <2>1 DEF Flags
<1>5. ASSUME NEW w \in NonRec, Node(mem, 5, w) # NoFrame
      PROVE  Node(mem, 2, w) \in Frames /\ Node(mem, 3, w) \in Frames /\ Node(mem, 4, w) \in Frames
  BY <1>2, <1>5, MappedPath
<1>6. ASSUME NEW w \in NonRec PROVE OpenLeaf(mem', w) <=> OpenLeaf(mem, w)
  BY <1>3, <1>4, <1>5 DEF OpenLeaf
<1>7. ASSUME NEW d, NEW g, NEW w \in NonRec, Opens(mem, g, w),
             Flags(mem', d, w[1], TRUE)
      PROVE  Opens(mem', d, w)
  <2>1. Node(mem, 5, w) # NoFrame /\ OpenLeaf(mem', w)
    BY <1>6, <1>7 DEF Opens, OpenLeaf
  <2> QED
    BY <2>1, <1>3, <1>4, <1>5, <1>7 DEF Opens
<1>8. PML4 # f
  BY <1>3, NodeFacts, PagePlaces
<1>9. ASSUME NEW d, Root(mem', spaces', d), NEW w \in Given PROVE Opens(mem', d, w)
  <2>1. CASE d = f
    <3>1. Root(mem, spaces, PML4)
      BY DEF Root
    <3>2. Opens(mem, PML4, w)
      BY <3>1 DEF UserOpen
    <3>3. Flags(mem', d, w[1], TRUE)
      BY <2>1, <3>2, <1>1 DEF Opens, Flags
    <3> QED
      BY <3>2, <3>3, <1>7
  <2>2. CASE d # f
    <3>1. Root(mem, spaces, d)
      <4>1. \A x \in spaces' : d = Node(mem', 5, x) => x \in spaces /\ d = Node(mem, 5, x)
        BY <2>2, <1>1, <1>2, <1>3 DEF f
      <4> QED
        BY <4>1, <1>9 DEF Root
    <3>2. d \in Frames
      BY <3>1, InvFacts, RootFacts DEF Paged
    <3>3. Opens(mem, d, w)
      BY <3>1 DEF UserOpen
    <3>4. Flags(mem', d, w[1], TRUE)
      BY <3>2, <3>3, <2>2, <1>4 DEF Opens
    <3> QED
      BY <3>3, <3>4, <1>7
  <2> QED
    BY <2>1, <2>2
<1> QED
  BY <1>6, <1>9 DEF UserOpen

\* A loop over pages is done with v, and goes on or leads to the next.
LEMMA GivenPlaces == Order => Given \subseteq NonRec
BY PagePlaces, AddressSpaceAssumption DEF Order, Given

\* What the steps of the loops have in common.
LEMMA LoopStep ==
  ASSUME PagingInv, phase = "ready", NEW v \in NonRec \ Kept, MapStep(v)
  PROVE  spaces' = spaces /\ phase' \in {"ready", "panic"}
BY DEF MapStep, Mapped

LEMMA InitHeapStep ==
  ASSUME BootInv, init_heap
  PROVE  Order' /\ (phase' = "ready" => UserOpen')
<1>1. PICK v \in left : /\ at = "init_heap" /\ kalloc_f(v, FALSE)
                        /\ Finish(v, "framebuffer", DevicePages)
  BY DEF init_heap
<1>2. PagingInv /\ Order /\ phase = "ready" /\ UserOpen /\ spaces = {} /\ left \subseteq HeapPages
  BY <1>1 DEF BootInv, Order, kalloc_f
<1>3. v \in NonRec \ Kept /\ v[1] = 0
  BY <1>2, PagePlaces DEF Kept
<1>4. MapStep(v) /\ Opening(v, FALSE)
  BY <1>1, <1>2, <1>3, FreshStep DEF kalloc_f
<1>5. spaces' = {} /\ phase' \in {"ready", "panic"}
  BY <1>2, <1>3, <1>4, LoopStep
<1>6. \/ at' = "framebuffer" /\ left' = DevicePages
      \/ at' = "init_heap" /\ left' = left \ {v}
  BY <1>1 DEF Finish
<1>7. Order'
  BY <1>2, <1>5, <1>6 DEF Order
<1>8. Given = {} /\ Given' = {}
  BY <1>1, <1>6 DEF Given
<1> QED
  BY <1>2, <1>3, <1>4, <1>7, <1>8, KernelStep

LEMMA FramebufferLoop ==
  ASSUME BootInv, framebuffer
  PROVE  Order' /\ (phase' = "ready" => UserOpen')
<1>1. PICK v \in left : /\ at = "framebuffer" /\ map_framebuffer(v)
                        /\ Finish(v, "load_elf64", UserPages \ StackPages)
  BY DEF framebuffer
<1>2. PagingInv /\ Order /\ phase = "ready" /\ UserOpen /\ spaces = {} /\ left \subseteq DevicePages
  BY <1>1 DEF BootInv, Order, map_framebuffer
<1>3. v \in NonRec \ Kept /\ MapStep(v) /\ Opening(v, TRUE)
  BY <1>1, <1>2, FramebufferStep
<1>4. spaces' = {} /\ phase' \in {"ready", "panic"}
  BY <1>2, <1>3, LoopStep
<1>5. \/ left = {v} /\ at' = "load_elf64" /\ left' = UserPages \ StackPages
      \/ at' = "framebuffer" /\ left' = left \ {v}
  BY <1>1 DEF Finish
<1>6. Order'
  BY <1>2, <1>4, <1>5 DEF Order
<1>7. Given' = Given \cup {v}
  <2>1. Given = DevicePages \ left
    BY <1>1 DEF Given
  <2>2. Given' = DevicePages \/ Given' = DevicePages \ (left \ {v})
    BY <1>5 DEF Given
  <2>3. Given' = DevicePages => left = {v} \/ Given' = DevicePages \ (left \ {v})
    BY <1>5 DEF Given
  <2> QED
    BY <2>1, <2>2, <2>3, <1>1, <1>2
<1> QED
  BY <1>2, <1>3, <1>6, <1>7, GivenPlaces, GiveStep

\* load_elf64 and map_stack.
LEMMA UserLoop ==
  ASSUME BootInv, NEW v \in left, left \subseteq UserPages, kalloc_f(v, TRUE),
         Given' = Given \cup {v}, spaces = {} \/ UserPages \ StackPages \subseteq Given
  PROVE  /\ spaces' = spaces /\ phase' \in {"ready", "panic"} /\ phase = "ready"
         /\ phase' = "ready" => UserOpen'
<1>1. PagingInv /\ Order /\ phase = "ready" /\ UserOpen
  BY DEF BootInv, kalloc_f
<1>2. v \in NonRec \ Kept /\ v[1] = 0
  BY <1>1, PagePlaces DEF Kept, PagingInv, Typed
<1>3. MapStep(v) /\ Opening(v, TRUE)
  BY <1>1, <1>2, FreshStep DEF kalloc_f
<1>4. spaces' = spaces /\ phase' \in {"ready", "panic"}
  BY <1>1, <1>2, <1>3, LoopStep
<1>5. spaces = {} \/ \E u \in Given : u[1] = v[1]
  <2>1. PICK u : u \in UserPages \ StackPages
    BY AddressSpaceAssumption
  <2> QED
    BY <2>1, <1>2, PagePlaces
<1> QED
  BY <1>1, <1>2, <1>3, <1>4, <1>5, GivenPlaces, GiveStep

LEMMA LoadLoop ==
  ASSUME BootInv, load_elf64
  PROVE  Order' /\ (phase' = "ready" => UserOpen')
<1>1. PICK v \in left : /\ at = "load_elf64" /\ kalloc_f(v, TRUE)
                        /\ Finish(v, "copy_space", {})
  BY DEF load_elf64
<1>2. Order /\ spaces = {} /\ left \subseteq UserPages \ StackPages
  BY <1>1 DEF BootInv, Order
<1>3. \/ left = {v} /\ at' = "copy_space" /\ left' = {}
      \/ at' = "load_elf64" /\ left' = left \ {v}
  BY <1>1 DEF Finish
<1>4. Given' = Given \cup {v}
  <2>1. Given = DevicePages \cup ((UserPages \ StackPages) \ left)
    BY <1>1 DEF Given
  <2>2. \/ left = {v} /\ Given' = DevicePages \cup (UserPages \ StackPages)
        \/ Given' = DevicePages \cup ((UserPages \ StackPages) \ (left \ {v}))
    BY <1>3 DEF Given
  <2> QED
    BY <2>1, <2>2, <1>1, <1>2
<1>5. /\ spaces' = spaces /\ phase' \in {"ready", "panic"}
      /\ phase' = "ready" => UserOpen'
  BY <1>1, <1>2, <1>4, UserLoop
<1> QED
  BY <1>2, <1>3, <1>5 DEF Order

LEMMA StackLoop ==
  ASSUME BootInv, map_stack
  PROVE  Order' /\ (phase' = "ready" => UserOpen')
<1>1. PICK v \in left : /\ at = "map_stack" /\ kalloc_f(v, TRUE)
                        /\ Finish(v, "set_space_2", {})
  BY DEF map_stack
<1>2. Order /\ left \subseteq StackPages /\ StackPages \subseteq UserPages
  BY <1>1, AddressSpaceAssumption DEF BootInv, Order
<1>3. \/ left = {v} /\ at' = "set_space_2" /\ left' = {}
      \/ at' = "map_stack" /\ left' = left \ {v}
  BY <1>1 DEF Finish
<1>4. Given = DevicePages \cup (UserPages \ left)
  BY <1>1 DEF Given
<1>5. Given' = Given \cup {v}
  <2>1. \/ left = {v} /\ Given' = DevicePages \cup UserPages
        \/ Given' = DevicePages \cup (UserPages \ (left \ {v}))
    BY <1>3 DEF Given
  <2> QED
    BY <2>1, <1>4, <1>1, <1>2
<1>6. UserPages \ StackPages \subseteq Given
  BY <1>4, <1>2
<1>7. /\ spaces' = spaces /\ phase' \in {"ready", "panic"}
      /\ phase' = "ready" => UserOpen'
  BY <1>1, <1>2, <1>5, <1>6, UserLoop
<1> QED
  BY <1>2, <1>3, <1>7 DEF Order

LEMMA ExecStep ==
  ASSUME BootInv, exec
  PROVE  Order' /\ (phase' = "ready" => UserOpen')
<1>1. PagingInv /\ Order
  BY DEF BootInv
<1>2. CASE at = "copy_space" /\ (\E v \in HeapPages : copy_address_space(v))
           /\ Reach("set_space_1", {})
  <2>1. PICK v \in HeapPages : copy_address_space(v)
    BY <1>2
  <2>2. phase = "ready" /\ phase' = "ready" /\ UserOpen
    BY <2>1 DEF copy_address_space, BootInv
  <2>3. Given' = Given
    BY <1>2 DEF Given, Reach
  <2>4. Order'
    BY <1>1, <1>2, <2>2 DEF Order, Reach
  <2> QED
    BY <1>1, <2>1, <2>2, <2>3, <2>4, GivenPlaces, CopyOpen
<1>3. ASSUME NEW x, set_address_space(x), Given' = Given PROVE phase' = "ready" /\ UserOpen'
  <2>1. phase = "ready" /\ phase' = "ready" /\ mem' = mem /\ spaces' = spaces
    BY <1>3 DEF set_address_space
  <2>2. UserOpen
    BY <2>1 DEF BootInv
  <2> QED
    BY <2>1, <2>2, <1>3 DEF UserOpen
<1>4. CASE at = "set_space_1" /\ (\E x \in spaces : set_address_space(x))
           /\ Reach("map_stack", StackPages)
  <2>1. Given' = Given
    <3>1. StackPages \subseteq UserPages
      BY AddressSpaceAssumption
    <3> QED
      BY <1>4, <3>1 DEF Given, Reach
  <2>2. phase' = "ready" /\ UserOpen'
    BY <1>3, <1>4, <2>1
  <2> QED
    BY <1>1, <1>4, <2>2 DEF Order, Reach
<1>5. CASE at = "set_space_2" /\ set_address_space(kernel_space) /\ Reach("set_space_3", {})
  <2>1. Given' = Given
    BY <1>5 DEF Given, Reach
  <2>2. phase' = "ready" /\ UserOpen'
    BY <1>3, <1>5, <2>1
  <2> QED
    BY <1>1, <1>5, <2>2 DEF Order, Reach
<1>6. CASE at = "set_space_3" /\ (\E x \in spaces : set_address_space(x)) /\ Reach("user", {})
  <2>1. Given' = Given
    BY <1>6 DEF Given, Reach
  <2>2. phase' = "ready" /\ UserOpen'
    BY <1>3, <1>6, <2>1
  <2>3. stale' = {}
    BY <1>6 DEF set_address_space
  <2> QED
    BY <1>1, <1>6, <2>2, <2>3 DEF Order, Reach
<1> QED
  BY <1>2, <1>4, <1>5, <1>6 DEF exec

\* The static tables open no page.
LEMMA BootClosed ==
  ASSUME NEW m \in Memories, NEW w \in NonRec
  PROVE  ~OpenLeaf(BootMem(m), w)
<1> DEFINE n == BootMem(m)
<1> SUFFICES ASSUME OpenLeaf(n, w) PROVE FALSE
  OBVIOUS
<1>1. /\ Node(n, 4, w) = IF w \in LowPages THEN PTs[w[3] + 1] ELSE NoFrame
      /\ Node(n, 5, w) = IF w \in LowPages THEN R * w[3] + w[4] ELSE NoFrame
      /\ w \in LowPages => w[3] + 1 \in DOMAIN PTs
  BY BootNodes
<1>2. w \in LowPages
  BY <1>1 DEF OpenLeaf
<1> DEFINE j == w[3] + 1
           f == R * (j - 1) + w[4]
<1>3. j \in DOMAIN PTs /\ Node(n, 4, w) = PTs[j] /\ n[PTs[j]] = BootPT(j)
  BY <1>1, <1>2, BootRows
<1>4. w[4] \in Idx
  BY PagePlaces, PageFacts
<1> HIDE DEF n, j
<1>5. n[PTs[j]][w[4]] = Entry(f, FALSE) /\ f \in Frames
  BY <1>3, <1>4, TableFacts DEF BootPT
<1> HIDE DEF f
<1>6. n[PTs[j]][w[4]].user = FALSE
  BY <1>5, EntryFacts
<1> QED
  BY <1>3, <1>6 DEF OpenLeaf, Flags

LEMMA EarlyStep ==
  ASSUME BootInv, Early
  PROVE  Order' /\ (phase' = "ready" => UserOpen')
<1>1. PagingInv /\ Order /\ at' = at /\ left' = left
  BY DEF BootInv, Early
<1>2. CASE Fill /\ UNCHANGED pagingVars
  <2>1. phase = "mmap" /\ phase' \in {"mmap", "paging"} /\ spaces' = spaces
    BY <1>2 DEF Fill, MarkFrame, NextRegion, MapDone, pagingVars
  <2> QED
    BY <1>1, <2>1 DEF Order
<1>3. CASE init_paging
  <2>1. phase = "paging" /\ phase' = "ready" /\ spaces' = spaces /\ mem \in Memories
    BY <1>1, <1>3 DEF init_paging, PagingInv, Typed
  <2>2. mem' = BootMem(mem)
    <3>1. DOMAIN mem = Frames
      BY <2>1 DEF Memories
    <3> QED
      BY <1>3, <3>1 DEF init_paging, BootMem, BootRow, BootPDP, IsPT, WhichPT
  <2>3. \A w \in NonRec : ~OpenLeaf(mem', w)
    BY <2>1, <2>2, BootClosed
  <2>4. Given' = {}
    BY <1>1, <2>1 DEF Order, Given
  <2>5. UserOpen'
    BY <2>3, <2>4 DEF UserOpen
  <2> QED
    BY <1>1, <2>1, <2>5 DEF Order
<1> QED
  BY <1>2, <1>3 DEF Early

\* The kernel's order is one of those that Spec allows.
LEMMA OrderedInit == RegionsApart /\ BelowFourGB /\ BootInit => Init /\ BootInv
<1> SUFFICES ASSUME RegionsApart, BelowFourGB, BootInit PROVE Init /\ BootInv
  OBVIOUS
<1>1. Init /\ phase = "mmap" /\ at = "init_heap" /\ left = HeapPages /\ spaces = {}
  BY DEF BootInit, Init, PmmInit
<1>2. Order
  BY <1>1 DEF Order
<1> QED
  BY <1>1, <1>2, InitInv DEF BootInv

LEMMA OrderedNext == BootInv /\ BootNext => Next
<1> SUFFICES ASSUME BootInv, BootNext PROVE Next
  OBVIOUS
<1>1. Order /\ StackPages \subseteq UserPages /\ PagingInv
  BY AddressSpaceAssumption DEF BootInv
<1>2. CASE Early
  BY <1>2 DEF Early, Next
<1>3. CASE init_heap
  BY <1>1, <1>3 DEF init_heap, Order, Next
<1>4. CASE framebuffer
  BY <1>1, <1>4 DEF framebuffer, Order, Next
<1>5. CASE load_elf64
  BY <1>1, <1>5 DEF load_elf64, Order, Next
<1>6. CASE map_stack
  BY <1>1, <1>6 DEF map_stack, Order, Next
<1>7. CASE exec
  <2>1. spaces \subseteq HeapPages
    BY <1>1 DEF PagingInv, Typed
  <2> QED
    BY <2>1, <1>7 DEF exec, Next
<1> QED
  BY <1>2, <1>3, <1>4, <1>5, <1>6, <1>7 DEF BootNext

LEMMA OrderedStep ==
  BootInv /\ [BootNext]_bootVars => [Next]_vars /\ BootInv'
<1> SUFFICES ASSUME BootInv, [BootNext]_bootVars PROVE [Next]_vars /\ BootInv'
  OBVIOUS
<1>1. [Next]_vars
  BY OrderedNext DEF bootVars, vars
<1>2. PagingInv'
  BY <1>1, StepInv DEF BootInv
<1>3. CASE BootNext
  <2>1. Order' /\ (phase' = "ready" => UserOpen')
    BY <1>3, EarlyStep, InitHeapStep, FramebufferLoop, LoadLoop, StackLoop, ExecStep DEF BootNext
  <2> QED
    BY <1>1, <1>2, <2>1 DEF BootInv
<1>4. CASE UNCHANGED bootVars
  <2>1. /\ mem' = mem /\ spaces' = spaces /\ phase' = phase /\ stale' = stale
        /\ at' = at /\ left' = left
    BY <1>4 DEF bootVars, vars, pagingVars
  <2>2. Order' /\ (phase' = "ready" => UserOpen')
    BY <2>1 DEF BootInv, Order, UserOpen, Given
  <2> QED
    BY <1>1, <1>2, <2>2 DEF BootInv
<1> QED
  BY <1>3, <1>4

\* Whatever holds of the calls of paging.c in any order holds of them in the
\* kernel's order: kernel_main and exec never make a call that Spec forbids.
THEOREM Paging_BootOrder == RegionsApart /\ BelowFourGB /\ BootSpec => Spec
<1>1. RegionsApart /\ BelowFourGB /\ BootInit => Init /\ BootInv
  BY OrderedInit
<1>2. BootInv /\ [BootNext]_bootVars => [Next]_vars /\ BootInv'
  BY OrderedStep
<1> QED
  BY <1>1, <1>2, PTL DEF BootSpec, Spec

\* At each call of kernel_main and exec, the pages with the USER flag are those
\* given to user code so far, with the flag on the whole path to them in the
\* kernel's PML4 and in each copy.
THEOREM Paging_BootInv == RegionsApart /\ BelowFourGB /\ BootSpec => []BootInv
<1>1. RegionsApart /\ BelowFourGB /\ BootInit => BootInv
  BY OrderedInit
<1>2. BootInv /\ [BootNext]_bootVars => BootInv'
  BY OrderedStep
<1> QED
  BY <1>1, <1>2, PTL DEF BootSpec

\* What the flags open, from the address space in use.
LEMMA Reaching ==
  ASSUME PagingInv, phase = "ready", UserOpen, Given \subseteq NonRec
  PROVE  Reachable = Given
<1>1. /\ mem \in Memories /\ Copy(mem, PML4) /\ cr3 \in Frames /\ Copy(mem, cr3)
      /\ Root(mem, spaces, cr3) /\ NoFrame \notin Frames /\ rec \in Idx
      /\ PML4 \in Frames /\ NonRec \subseteq Pages
  BY InvFacts, ConstantFacts, PagePlaces
<1>2. \A i : Allowed(NoFrame, i) = NoFrame
  BY DEF Allowed
<1>5. ASSUME NEW w
      PROVE  /\ Node(mem, 2, w) = Descend(mem, PML4, w[1])
             /\ Node(mem, 3, w) = Descend(mem, Node(mem, 2, w), w[2])
             /\ Node(mem, 4, w) = Descend(mem, Node(mem, 3, w), w[3])
             /\ Node(mem, 5, w) = Descend(mem, Node(mem, 4, w), w[4])
  BY NodeFacts
<1>3. ASSUME NEW w \in Given PROVE w \in Reachable
  <2>1. w \in NonRec /\ w \in Pages
    BY <1>1
  <2>2. Opens(mem, cr3, w)
    BY <1>1 DEF UserOpen
  <2>3. Node(mem, 5, w) # NoFrame
    BY <2>2 DEF Opens, OpenLeaf
  <2>4. /\ Node(mem, 1, w) # NoFrame /\ Node(mem, 2, w) # NoFrame
        /\ Node(mem, 3, w) # NoFrame /\ Node(mem, 4, w) # NoFrame
    BY <2>1, <2>3, <1>1, MappedPath
  <2>5. \A f, i : f # NoFrame /\ Flags(mem, f, i, TRUE) => Allowed(f, i) = Descend(mem, f, i)
    BY DEF Allowed, Descend, Flags
  <2>6. Allowed(cr3, w[1]) = Node(mem, 2, w)
    <3>1. Flags(mem, cr3, w[1], TRUE) /\ cr3 # NoFrame
      BY <2>2, <1>1 DEF Opens
    <3>2. mem[cr3][w[1]].p /\ w[1] \in Idx
      BY <3>1, <2>1, PageFacts DEF Flags
    <3>3. Descend(mem, cr3, w[1]) = Descend(mem, PML4, w[1])
      BY <3>1, <3>2, <1>1 DEF Copy, Descend
    <3> QED
      BY <3>1, <3>3, <2>5, <1>5
  <2>7. ASSUME NEW f, NEW i, NEW g, f # NoFrame, Flags(mem, f, i, TRUE), g = Descend(mem, f, i)
        PROVE  Allowed(f, i) = g
    BY <2>5, <2>7
  <2>8. Allowed(Node(mem, 2, w), w[2]) = Node(mem, 3, w)
    <3>1. Flags(mem, Node(mem, 2, w), w[2], TRUE) /\ Node(mem, 2, w) # NoFrame
      BY <2>2, <2>4 DEF Opens
    <3> QED
      BY <3>1, <2>7, <1>5
  <2>9. Allowed(Node(mem, 3, w), w[3]) = Node(mem, 4, w)
    <3>1. Flags(mem, Node(mem, 3, w), w[3], TRUE) /\ Node(mem, 3, w) # NoFrame
      BY <2>2, <2>4 DEF Opens
    <3> QED
      BY <3>1, <2>7, <1>5
  <2>10. Allowed(Node(mem, 4, w), w[4]) = Node(mem, 5, w)
    <3>1. Flags(mem, Node(mem, 4, w), w[4], TRUE) /\ Node(mem, 4, w) # NoFrame
      BY <2>2, <2>4 DEF Opens, OpenLeaf
    <3> QED
      BY <3>1, <2>7, <1>5
  <2> QED
    BY <2>1, <2>3, <2>6, <2>8, <2>9, <2>10 DEF Reachable
<1>4. ASSUME NEW w \in Reachable PROVE w \in Given
  <2>1. /\ w \in Pages
        /\ Allowed(Allowed(Allowed(Allowed(cr3, w[1]), w[2]), w[3]), w[4]) # NoFrame
    BY DEF Reachable
  <2> DEFINE a == Allowed(cr3, w[1])
             b == Allowed(a, w[2])
             c == Allowed(b, w[3])
  <2>2. a # NoFrame /\ b # NoFrame /\ c # NoFrame /\ Allowed(c, w[4]) # NoFrame
    BY <2>1, <1>2
  <2>3. \A f, i : Allowed(f, i) # NoFrame =>
          f # NoFrame /\ Flags(mem, f, i, TRUE) /\ Allowed(f, i) = Descend(mem, f, i)
    <3> SUFFICES ASSUME NEW f, NEW i, Allowed(f, i) # NoFrame
                 PROVE f # NoFrame /\ mem[f][i].p /\ mem[f][i].user = TRUE
                       /\ Allowed(f, i) = Descend(mem, f, i)
      BY DEF Flags
    <3> QED
      BY DEF Allowed, Descend
  <2>4. Flags(mem, cr3, w[1], TRUE) /\ a = Descend(mem, cr3, w[1])
    BY <2>2, <2>3
  <2>5. w[1] # rec
    <3>1. mem[cr3][rec].user = FALSE
      BY <1>1, EntryFacts DEF Copy
    <3> QED
      BY <2>4, <3>1 DEF Flags
  <2>6. w \in NonRec
    BY <2>1, <2>5 DEF NonRec
  <2>7. a = Node(mem, 2, w)
    <3>1. mem[cr3][w[1]].p /\ w[1] \in Idx
      BY <2>4, <2>1, PageFacts DEF Flags
    <3>2. Descend(mem, cr3, w[1]) = Descend(mem, PML4, w[1])
      BY <3>1, <1>1 DEF Copy, Descend
    <3> QED
      BY <3>2, <2>4, <1>5
  <2> HIDE DEF a, b, c
  <2>12. ASSUME NEW f, NEW i, NEW g, Allowed(f, i) # NoFrame, g = Descend(mem, f, i)
         PROVE  Allowed(f, i) = g /\ Flags(mem, f, i, TRUE)
    BY <2>3, <2>12
  <2>8. b = Node(mem, 3, w)
    <3>1. b = Allowed(Node(mem, 2, w), w[2]) /\ b # NoFrame
      BY <2>2, <2>7 DEF b
    <3>2. Node(mem, 3, w) = Descend(mem, Node(mem, 2, w), w[2])
      BY <1>5
    <3> QED
      BY <3>1, <3>2, <2>12
  <2>9. c = Node(mem, 4, w)
    <3>1. c = Allowed(Node(mem, 3, w), w[3]) /\ c # NoFrame
      BY <2>2, <2>8 DEF c
    <3>2. Node(mem, 4, w) = Descend(mem, Node(mem, 3, w), w[3])
      BY <1>5
    <3> QED
      BY <3>1, <3>2, <2>12
  <2>10. Allowed(c, w[4]) = Node(mem, 5, w) /\ Flags(mem, c, w[4], TRUE)
    <3>1. Allowed(c, w[4]) # NoFrame
      BY <2>2
    <3>2. Node(mem, 5, w) = Descend(mem, c, w[4])
      BY <2>9, <1>5
    <3> QED
      BY <3>1, <3>2, <2>12
  <2>11. OpenLeaf(mem, w)
    BY <2>2, <2>9, <2>10 DEF OpenLeaf
  <2> QED
    BY <2>6, <2>11 DEF UserOpen
<1> QED
  BY <1>3, <1>4

\* When user code starts it reaches its pages, its stack and the framebuffer,
\* and nothing else, whatever tables its pages share with the kernel's: mapf
\* gave each table above a page the flags of that page, and exec loaded CR3
\* after the last one.
THEOREM Paging_UserReaches == RegionsApart /\ BelowFourGB /\ BootSpec => []UserReaches
<1>1. BootInv => UserReaches
  <2> SUFFICES ASSUME BootInv, at = "user"
               PROVE  stale = {} /\ Reachable = UserPages \cup DevicePages
    BY DEF UserReaches
  <2>1. PagingInv /\ Order /\ phase = "ready" /\ UserOpen /\ stale = {}
    BY DEF BootInv, Order
  <2>2. Given = UserPages \cup DevicePages
    BY DEF Given
  <2> QED
    BY <2>1, <2>2, GivenPlaces, Reaching
<1> QED
  BY <1>1, Paging_BootInv, PTL

=============================================================================
