------------------------------- MODULE Paging -------------------------------
(***************************************************************************)
(* Virtual memory, src/kernel/src/mem/paging.c: four-level tables edited   *)
(* through the recursive last slot of the PML4, tables and pages taken     *)
(* from the frame stack of Pmm, and address spaces that are copies of the  *)
(* kernel's PML4.                                                          *)
(*                                                                         *)
(* A page is the four indices of its virtual address; a frame is its       *)
(* number (FrameSize is 1 here).  mem is physical memory seen as tables of *)
(* entries.  The kernel reads and writes tables at virtual addresses, so   *)
(* each access is translated by Walk, the processor's own walk from CR3.   *)
(* The only flag kept is USER: every caller maps writable pages.  Of what  *)
(* the processor caches, the model keeps the pages whose translation may   *)
(* be outdated: nothing invalidates an entry (invl_page and flush_tlb have *)
(* no caller) but a load of CR3, which drops all of them, heap.c's GLOBAL  *)
(* pages too, as nothing sets CR4.PGE.                                     *)
(***************************************************************************)
EXTENDS Pmm, FiniteSets

CONSTANTS R,           \* entries per table (512)
          NFrames,     \* frames of physical memory, numbered from 0
          LowFrames,   \* those of its first 4 GB (2^20)
          PML4, PDP, PD, PTs,  \* frames of the static tables; PTs a sequence
          Device,      \* frame of the framebuffer
          HeapPages,   \* pages init_heap maps; address spaces live there
          UserPages,   \* pages exec and load_elf64 map for user code
          DevicePages  \* pages kernel_main maps to the framebuffer

ASSUME PagingAssumption ==
  /\ R \in Nat \ {0, 1}
  /\ NFrames \in Nat /\ LowFrames \in Nat \ {0}
  /\ {PML4, PDP, PD, Device} \subseteq 0 .. NFrames - 1
  /\ PTs \in Seq(0 .. NFrames - 1) /\ Len(PTs) < R

\* The addresses go past the usable regions, and what is behind one answers
\* like memory.  The static tables are frames of their own
\* among the low ones, which init_paging maps to themselves and kernel_main
\* never hands out; nor is the framebuffer in a usable region or right behind.
ASSUME LayoutAssumption ==
  /\ \A r \in DOMAIN MemoryMap : Usable(r) => MemoryMap[r].end < NFrames
  /\ PML4 # PDP /\ PML4 # PD /\ PDP # PD
  /\ \A j \in DOMAIN PTs :
       /\ PTs[j] \notin {PML4, PDP, PD}
       /\ \A k \in DOMAIN PTs : PTs[j] = PTs[k] => j = k
  /\ PML4 < R * Len(PTs) /\ R * Len(PTs) <= NFrames
  /\ R * Len(PTs) - 1 <= LowLimit
  /\ \A f \in {PDP, PD} \cup {PTs[j] : j \in DOMAIN PTs} : f <= LowLimit
  /\ \A r \in DOMAIN MemoryMap : Usable(r) => Device \notin RegionFrames(r)

VARIABLES mem,           \* frame -> index -> entry
          cr3,           \* frame of the PML4 the processor uses
          current_pml4,  \* page at which the kernel edits the PML4
          spaces,        \* pages that hold copies of the PML4
          stale          \* pages the TLB may still translate as before

pagingVars == <<mem, cr3, current_pml4, spaces, stale>>
vars == <<stack, esp, stack_size, region, addr, phase, pagingVars>>

Idx == 0 .. R - 1
rec == R - 1
Pages == Idx \X Idx \X Idx \X Idx

NoFrame == -1
None == [p |-> FALSE, to |-> 0, user |-> FALSE]
Entry(f, u) == [p |-> TRUE, to |-> f, user |-> u]
Zeroed == [i \in Idx |-> None]

\* What a frame may hold before the kernel writes it: anything; here entries
\* that would be taken for present ones.
Junk == [i \in Idx |-> Entry(0, TRUE)]

\* One level of the processor's walk, and the walk.
Descend(m, f, i) == IF f = NoFrame \/ ~m[f][i].p THEN NoFrame ELSE m[f][i].to
Walk(m, root, v) ==
  Descend(m, Descend(m, Descend(m, Descend(m, root, v[1]), v[2]), v[3]), v[4])

\* The pages at which a table shows through the recursive slot.
PDP_MAPPING(i)      == <<rec, rec, rec, i>>
PD_MAPPING(i, j)    == <<rec, rec, i, j>>
PT_MAPPING(i, j, k) == <<rec, i, j, k>>

\* init_paging maps the low pages to themselves.
Identity(f) == <<0, 0, f \div R, f % R>>

LowPages == {v \in Pages : v[1] = 0 /\ v[2] = 0 /\ v[3] < Len(PTs)}

\* get_kernel_address_space(): the address of the static pml4.
kernel_space == Identity(PML4)

\* The heap (0xB00000), the user stack (0x1000000) and the executables lie in
\* the first slot of the PML4, which is there from the start; the heap above
\* the low pages and clear of the framebuffer.  None of the pages that are
\* mapped is that of the kernel's PML4, or in the recursive window.
ASSUME PagesAssumption ==
  /\ HeapPages \cup UserPages \subseteq {v \in Pages : v[1] = 0}
  /\ DevicePages \subseteq {v \in Pages : v[1] # rec}
  /\ HeapPages \cap (LowPages \cup DevicePages) = {}
  /\ kernel_space \notin UserPages \cup DevicePages

-----------------------------------------------------------------------------
Init ==
  /\ PmmInit
  /\ mem = [f \in 0 .. NFrames - 1 |-> Junk]
  /\ cr3 = NoFrame
  /\ current_pml4 = kernel_space
  /\ spaces = {}
  /\ stale = {}

\* The static tables: the recursive slot, and the low pages one to one.
BootPml4 == [i \in Idx |-> CASE i = rec -> Entry(PML4, FALSE)
                             [] i = 0 -> Entry(PDP, FALSE)
                             [] OTHER -> None]
BootPD == [i \in Idx |-> IF i < Len(PTs) THEN Entry(PTs[i + 1], FALSE) ELSE None]
BootPT(j) == [i \in Idx |-> Entry(R * (j - 1) + i, FALSE)]

init_paging ==
  /\ phase = "paging"
  /\ mem' = [f \in DOMAIN mem |->
               CASE f = PML4 -> BootPml4
                 [] f = PDP -> [Zeroed EXCEPT ![0] = Entry(PD, FALSE)]
                 [] f = PD -> BootPD
                 [] \E j \in DOMAIN PTs : PTs[j] = f ->
                      BootPT(CHOOSE j \in DOMAIN PTs : PTs[j] = f)
                 [] OTHER -> mem[f]]
  /\ cr3' = PML4
  /\ phase' = "ready"
  /\ UNCHANGED <<pmmVars, current_pml4, spaces, stale>>

-----------------------------------------------------------------------------
(* mapf.  Its effect is computed on records [mem, esp, ok]: the tables and *)
(* the frame stack so far, and whether no access has faulted.              *)

\* The tables with entry i of the table in frame t set to e.
SetEntry(m, t, i, e) == [m EXCEPT ![t] = [@ EXCEPT ![i] = e]]

\* memset of the new table, through its window.
KeepWindow(m, w) == m
ZeroWindow(m, w) == [m EXCEPT ![w] = Zeroed]

\* An entry that is there takes the flags of the new mapping.
AsBefore(e, u) == e
Flagged(e, u) == Entry(e.to, u)

\* One of the three if/else blocks: follow entry i of the table at page
\* table, taking a frame for the next level and clearing it through window
\* if there is none, and giving the entry the flags of this mapping.
Level(s, table, i, window, u) ==
  LET t == Walk(s.mem, cr3, table) IN
  IF ~s.ok \/ t = NoFrame THEN [s EXCEPT !.ok = FALSE]
  ELSE IF s.mem[t][i].p
  THEN [s EXCEPT !.mem = SetEntry(s.mem, t, i, Flagged(s.mem[t][i], u))]
  ELSE IF s.esp = 0 THEN [s EXCEPT !.ok = FALSE]
  ELSE LET m == SetEntry(s.mem, t, i, Entry(Top(s.esp), u))
           w == Walk(m, cr3, window)
       IN IF w = NoFrame
          THEN [mem |-> m, esp |-> s.esp - 1, ok |-> FALSE]
          ELSE [mem |-> ZeroWindow(m, w), esp |-> s.esp - 1, ok |-> TRUE]

\* The last store: the page table's entry.
Leaf(s, table, i, e) ==
  LET t == Walk(s.mem, cr3, table) IN
  IF ~s.ok \/ t = NoFrame THEN [s EXCEPT !.ok = FALSE]
  ELSE [s EXCEPT !.mem = SetEntry(s.mem, t, i, e)]

mapf(s, physical, v, u) ==
  LET pdp == PDP_MAPPING(v[1])
      pd  == PD_MAPPING(v[1], v[2])
      pt  == PT_MAPPING(v[1], v[2], v[3])
      s1 == Level(s, current_pml4, v[1], pdp, u)
      s2 == Level(s1, pdp, v[2], pd, u)
      s3 == Level(s2, pd, v[3], pt, u)
  IN Leaf(s3, pt, v[4], Entry(physical, u))

\* The pages the TLB may hold that the tables m translate differently.
Outdated(m) ==
  {v \in Pages : Walk(mem, cr3, v) \notin {NoFrame, Walk(m, cr3, v)}}

\* The state after a mapf that started from s; a fault ends in panic.
Mapped(s) ==
  /\ mem' = s.mem
  /\ stale' = stale \cup Outdated(s.mem)
  /\ esp' = s.esp
  /\ phase' = IF s.ok THEN phase ELSE "panic"
  /\ UNCHANGED <<stack, stack_size, region, addr, cr3, current_pml4, spaces>>

\* mapf(falloc(), v, flags): the page's own frame is popped first.
MapUnpopped(v, u) ==
  IF esp = 0
  THEN Mapped([mem |-> mem, esp |-> esp, ok |-> FALSE])
  ELSE Mapped(mapf([mem |-> mem, esp |-> esp, ok |-> TRUE], Top(esp), v, u))
MapFresh(v, u) ==
  IF esp = 0
  THEN Mapped([mem |-> mem, esp |-> esp, ok |-> FALSE])
  ELSE Mapped(mapf([mem |-> mem, esp |-> esp - 1, ok |-> TRUE], Top(esp), v, u))

\* One iteration of kalloc_f, which the heap and user code ask for.
kalloc_f(v, u) ==
  /\ phase = "ready"
  /\ MapFresh(v, u)

\* kernel_main maps the framebuffer, before there is a process.  (Later, from
\* inside an address space whose copy lacks the slot, mapf would clear the
\* kernel's table for it: PDP_MAPPING leads to the kernel's PML4.)
map_framebuffer(v) ==
  /\ phase = "ready" /\ spaces = {}
  /\ v \in DevicePages
  /\ Mapped(mapf([mem |-> mem, esp |-> esp, ok |-> TRUE], Device, v, TRUE))

-----------------------------------------------------------------------------
(* to_physical, unmap, copy_address_space, set_address_space               *)

\* Entry i of the table seen at page table is present.
PresentAt(table, i) ==
  LET t == Walk(mem, cr3, table) IN t # NoFrame /\ mem[t][i].p

\* The software walk: the three tables above a page are there.
HasTables(v) ==
  /\ PresentAt(current_pml4, v[1])
  /\ PresentAt(PDP_MAPPING(v[1]), v[2])
  /\ PresentAt(PD_MAPPING(v[1], v[2]), v[3])

\* The entry's frame, of which & 0xFFFFF000 leaves the low 32 bits of the
\* address; 0x0 for a page that is not there.
Masked(f) == f % LowFrames
to_physical(v) ==
  LET pt == PT_MAPPING(v[1], v[2], v[3]) IN
  IF HasTables(v) /\ PresentAt(pt, v[4])
  THEN Masked(mem[Walk(mem, cr3, pt)][v[4]].to)
  ELSE 0

\* Its frame is not given back.
unmap(v) ==
  /\ phase = "ready"
  /\ HasTables(v)
  /\ Mapped(Leaf([mem |-> mem, esp |-> esp, ok |-> TRUE],
                 PT_MAPPING(v[1], v[2], v[3]), v[4], None))

\* kvalloc(4096, 4096) yields a heap page of its own, below the user stack
\* that exec maps over the heap; the kernel's PML4 is copied into it.
CopyOwnWindow(v) ==
  /\ phase = "ready"
  /\ v \in HeapPages \ (UserPages \cup spaces)
  /\ Walk(mem, cr3, v) # NoFrame
  /\ LET f == Walk(mem, cr3, v) IN
     mem' = [mem EXCEPT ![f] = [mem[Walk(mem, cr3, kernel_space)]
                                  EXCEPT ![rec] = Entry(f, FALSE)]]
  /\ spaces' = spaces \cup {v}
  /\ UNCHANGED <<pmmVars, phase, cr3, current_pml4, stale>>
copy_address_space(v) ==
  /\ phase = "ready"
  /\ v \in HeapPages \ (UserPages \cup spaces)
  /\ Walk(mem, cr3, v) # NoFrame
  /\ mem' = [mem EXCEPT ![Walk(mem, cr3, v)] =
                          mem[Walk(mem, cr3, kernel_space)]]
  /\ spaces' = spaces \cup {v}
  /\ UNCHANGED <<pmmVars, phase, cr3, current_pml4, stale>>

SetCr3Only(x) ==
  /\ phase = "ready"
  /\ x \in spaces \cup {kernel_space}
  /\ cr3' = to_physical(x)
  /\ stale' = {}
  /\ UNCHANGED <<pmmVars, phase, mem, spaces, current_pml4>>
set_address_space(x) ==
  /\ phase = "ready"
  /\ x \in spaces \cup {kernel_space}
  /\ cr3' = to_physical(x)
  /\ current_pml4' = x
  /\ stale' = {}
  /\ UNCHANGED <<pmmVars, phase, mem, spaces>>

Next == \/ Fill /\ UNCHANGED pagingVars
        \/ init_paging
        \/ \E v \in HeapPages \ spaces : kalloc_f(v, FALSE)
        \/ \E v \in UserPages : kalloc_f(v, TRUE)
        \/ \E v \in UserPages : unmap(v)
        \/ \E v \in DevicePages : map_framebuffer(v)
        \/ \E v \in HeapPages : copy_address_space(v)
        \/ \E x \in HeapPages \cup {kernel_space} : set_address_space(x)

Spec == Init /\ [][Next]_vars

-----------------------------------------------------------------------------
(* Properties                                                              *)

TypeOK ==
  /\ stack \in [0 .. stack_size - 1 -> 0 .. NFrames - 1]
  /\ esp \in 0 .. stack_size
  /\ phase \in {"mmap", "paging", "ready", "panic"}
  /\ mem \in [0 .. NFrames - 1 ->
               [Idx -> [p : BOOLEAN, to : 0 .. NFrames - 1, user : BOOLEAN]]]
  /\ cr3 \in -1 .. NFrames - 1
  /\ current_pml4 \in Pages
  /\ spaces \subseteq HeapPages
  /\ stale \subseteq Pages

NonRec == {v \in Pages : v[1] # rec}

\* The frames of the PML4s: the kernel's and its copies'.
SpaceFrame(x) == Walk(mem, PML4, x)

\* The tables of the level below those in T, in the kernel's hierarchy.
Below(T) == {mem[x[1]][x[2]].to : x \in {y \in T \X Idx : mem[y[1]][y[2]].p}}

Level2 == {mem[PML4][i].to : i \in {j \in Idx : j # rec /\ mem[PML4][j].p}}
Level3 == Below(Level2)
Level4 == Below(Level3)
Tables == {PML4} \cup Level2 \cup Level3 \cup Level4

\* A frame that falloc may still return is neither a table nor mapped
\* anywhere: no page and no table is ever handed out twice.
FreeUnused ==
  Free \cap (Tables \cup Below(Level4) \cup {SpaceFrame(x) : x \in spaces}) = {}

\* The entries of the kernel's tables that point to a frame f.
Parents(f) ==
  {x \in (Tables \X Idx) : x # <<PML4, rec>> /\ mem[x[1]][x[2]].p
                           /\ mem[x[1]][x[2]].to = f}

\* Every table has one parent, so editing it changes one subtree only.
TablesPrivate ==
  \A t \in Level2 \cup Level3 \cup Level4 :
    Cardinality({x \in Parents(t) : x[1] \notin Level4}) = 1

\* Typed; and every frame has one use: on the frame stack, where it stands
\* once, as one table, or as memory that is mapped.  What falloc pops, mapf's
\* tables and the static ones of init_paging never meet.  This is so where
\* RegionsApart and BelowFourGB hold, and says nothing of what the frame
\* behind a region is (FreeUsable).
FramesOnce ==
  /\ TypeOK /\ FreeDistinct /\ FreeAbove
  /\ phase = "ready" => FreeUnused /\ TablesPrivate

\* Every address space sees the kernel's own tables in each slot it has, and
\* its recursive slot leads to the kernel's PML4: what is mapped through one
\* space is mapped in all of them.
SpacesShareKernel ==
  phase = "ready" =>
    \A x \in spaces :
      LET s == mem[SpaceFrame(x)] IN
      /\ s[rec] = Entry(PML4, FALSE)
      /\ \A i \in Idx \ {rec} :
           s[i].p => mem[PML4][i].p /\ mem[PML4][i].to = s[i].to

\* The pages at which the kernel reads and edits tables.
Windows ==
  UNION {{PDP_MAPPING(v[1]), PD_MAPPING(v[1], v[2]), PT_MAPPING(v[1], v[2], v[3])} :
           v \in NonRec}

\* No frame has an address of more than 32 bits.  Nothing in the code sees to
\* it; the machines the repository starts have 1 GB (launch.sh) or 32 MB (bochs).
BelowFourGB == NFrames <= LowFrames

\* The kernel's walk through the recursive window finds what the processor
\* finds, or 0 where that finds nothing, whichever address space is in use;
\* the processor uses the PML4 the kernel edits; and no window of mapf, unmap
\* or to_physical is a page whose translation the TLB may hold from before.
\* With memory above 4 GB it is not so: to_physical and CR3 lose a frame's
\* high bits.
OrZero(f) == IF f = NoFrame THEN 0 ELSE f
WindowAgrees ==
  phase = "ready" =>
    /\ cr3 = Walk(mem, cr3, current_pml4)
    /\ \A v \in NonRec : to_physical(v) = OrZero(Walk(mem, cr3, v))
    /\ stale \cap (Windows \cup {current_pml4}) = {}

\* The pages a step translates differently, in the PML4 of frame root.
Remapped(root) ==
  {v \in NonRec : Walk(mem, root, v) # Walk(mem, root, v)'}

\* Mapping a page changes that page and no other, in the current space and
\* in the kernel's, and what it maps the page to was not in use before.
MapsOnePage ==
  [][ phase = "ready" /\ phase' = "ready" =>
        \A root \in {PML4, cr3} : \A v \in Remapped(root) :
          /\ Remapped(root) = {v}
          /\ Walk(mem, root, v)' \in Free \cup {Device, NoFrame} ]_vars
=============================================================================
