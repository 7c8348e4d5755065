------------------------------- MODULE Heap -------------------------------
(***************************************************************************)
(* The kernel heap, src/kernel/src/mem/heap.c: a bump pointer heap_top and *)
(* an address-ordered doubly linked free list threaded through the block   *)
(* headers.  Addresses are numbers, a header lives at the address of its   *)
(* block and the payload follows it.  hdr is the memory that holds headers:*)
(* its domain is the set of addresses where a header has been written and  *)
(* not been absorbed by a merge.  Loops are modelled one iteration per     *)
(* step, so the invariants hold inside the loops and not only after them.  *)
(*                                                                         *)
(* held and aligned are the clients' side: the blocks handed out and not   *)
(* yet freed, and what kvalloc made of some of them.                       *)
(*                                                                         *)
(* The sums of addresses and sizes are taken not to wrap at 2^64: no caller*)
(* asks for more than 2^33 bytes.                                          *)
(***************************************************************************)
EXTENDS Integers

CONSTANTS HEAP_START,  \* memory.h, first address of the heap
          Hdr,         \* sizeof(memblock_t)
          PtrSize,     \* sizeof(void*)
          PageSize,    \* 4096
          HeapSize,    \* argument of init_heap, in bytes
          Sizes,       \* payload sizes clients ask for
          Aligns       \* alignments clients pass to kvalloc (powers of two)

ASSUME HeapAssumption ==
  /\ HEAP_START \in Nat \ {0}
  /\ Hdr \in Nat \ {0}
  /\ PtrSize \in Nat \ {0}
  /\ PageSize \in Nat \ {0}
  /\ HeapSize \in Nat
  /\ Sizes \subseteq Nat
  /\ Aligns \subseteq Nat \ {0}

VARIABLES hdr,        \* address -> header, for the addresses that hold one
          heap_top,   \* first address above every block
          heap_end,   \* limit kmalloc compares heap_top with
          free_list,  \* address of the first free block, or NULL
          null_store, \* merge_blocks has stored through NULL (page 0 is mapped)
          held,       \* blocks clients own
          aligned,    \* what kvalloc returned, per underlying block
          pc,         \* where the kernel thread is inside the heap code
          fn,         \* the entry point being executed
          req,        \* size argument of kmalloc
          cur,        \* the local variable block / parent / free_block
          tgt,        \* the local variable hdr of kfree
          old,        \* the argument of krealloc
          align       \* the alignment argument of kvalloc

vars == <<hdr, heap_top, heap_end, free_list, null_store, held, aligned,
          pc, fn, req, cur, tgt, old, align>>

NULL == 0

\* What kmalloc stores in the links of a block it takes from the top.
Poison == -1

Header(size, next, prev) == [size |-> size, next |-> next, prev |-> prev]

\* (uint64_t)PTR(b) and (uint64_t)PTR(b) + b->size.
PTR(b) == b + Hdr
End(b) == PTR(b) + hdr[b].size

\* kalloc_f in init_heap maps size / 4096 pages from HEAP_START.
MappedEnd == HEAP_START + (HeapSize \div PageSize) * PageSize

\* heap_end as init_heap computes it.
HeapEnd == HEAP_START + HeapSize * PageSize

\* A store up to (not including) address e is to mapped memory.
Mapped(e) == e <= MappedEnd

\* kvalloc's slack and the aligned pointer it derives from p1.
OffsetNoPointer(a) == a - 1
Offset(a) == a - 1 + PtrSize
AlignedPtr(p1, a) == (p1 + Offset(a)) - ((p1 + Offset(a)) % a)

-----------------------------------------------------------------------------
Init ==
  /\ hdr = [a \in {} |-> Header(0, NULL, NULL)]
  /\ heap_top = HEAP_START
  /\ heap_end = 0
  /\ free_list = NULL
  /\ null_store = FALSE
  /\ held = {}
  /\ aligned = [a \in {} |-> [ptr |-> 0, size |-> 0, align |-> 1]]
  /\ pc = "boot"
  /\ fn = "none" /\ req = 0 /\ cur = NULL /\ tgt = NULL /\ old = NULL
  /\ align = 0

\* Variables a step leaves alone, by group.
lists  == <<hdr, free_list, null_store>>
limits == <<heap_top, heap_end>>
client == <<held, aligned>>
args   == <<fn, req, old, align>>

\* panic() does not return: cli, log, hlt.
Panic == pc' = "panic"

\* The call in progress returns to its client: its locals are gone.
Return == /\ pc' = "idle"
          /\ fn' = "none" /\ req' = 0 /\ cur' = NULL /\ tgt' = NULL
          /\ old' = NULL /\ align' = 0

init_heap ==
  /\ pc = "boot"
  /\ heap_end' = HeapEnd
  /\ pc' = "idle"
  /\ UNCHANGED <<lists, heap_top, client, args, cur, tgt>>

-----------------------------------------------------------------------------
(* Entry points called by the rest of the kernel.                          *)

\* kmalloc's first statement: find_free_block(size) starts at the list head.
StartSearch(f, size) ==
  /\ pc = "idle"
  /\ fn' = f
  /\ req' = size
  /\ cur' = free_list
  /\ pc' = "find"

kmalloc(size) ==
  /\ StartSearch("kmalloc", size)
  /\ UNCHANGED <<lists, limits, client, tgt, old, align>>

krealloc(b, size) ==
  /\ b \in held \ DOMAIN aligned
  /\ StartSearch("krealloc", size)
  /\ old' = b
  /\ UNCHANGED <<lists, limits, client, tgt, align>>

kvalloc(size, a) ==
  /\ StartSearch("kvalloc", size + Offset(a))
  /\ align' = a
  /\ UNCHANGED <<lists, limits, client, tgt, old>>

\* The client gives up b; HDR(mem) recovers the header's address.
kfree(b) ==
  /\ pc = "idle"
  /\ b \in held \ DOMAIN aligned
  /\ held' = held \ {b}
  /\ tgt' = b
  /\ fn' = "kfree"
  /\ pc' = "free"
  /\ UNCHANGED <<lists, limits, aligned, cur, req, old, align>>

-----------------------------------------------------------------------------
(* find_free_block                                                         *)

\* block = block->next, the step of the three list walks.
NextOfHead == hdr[free_list].next
NextBlock == hdr[cur].next

Fits(b) == hdr[b].size = req
CanSplit(b) == hdr[b].size > req + Hdr

\* Size of the block split off behind the first req bytes.
SplitRestNoHeader(o_size) == o_size - req
SplitRest(o_size) == o_size - req - Hdr

FindExact ==
  /\ pc = "find" /\ cur # NULL
  /\ Fits(cur)
  /\ pc' = "unlink"
  /\ UNCHANGED <<lists, limits, client, args, cur, tgt>>

\* The free list after cur is cut in two: its header, the new block's header
\* and the back link of the following block.
SplitHeaders(new, next) ==
  [b \in DOMAIN hdr \cup {new} |->
     Header(IF b = cur THEN req
            ELSE IF b = new THEN SplitRest(hdr[cur].size) ELSE hdr[b].size,
            IF b = cur THEN new ELSE IF b = new THEN next ELSE hdr[b].next,
            IF b = new THEN cur ELSE IF b = next THEN new ELSE hdr[b].prev)]

FindSplit ==
  LET new == PTR(cur) + req IN
  /\ pc = "find" /\ cur # NULL
  /\ ~Fits(cur) /\ CanSplit(cur)
  /\ Mapped(PTR(new))
  /\ hdr' = SplitHeaders(new, hdr[cur].next)
  /\ pc' = "unlink"
  /\ UNCHANGED <<free_list, null_store, limits, client, args, cur, tgt>>

\* The new header is beyond the mapped pages: block->size is already
\* overwritten when the store page-faults, and fault_handler panics.
SplitFault ==
  /\ pc = "find" /\ cur # NULL
  /\ ~Fits(cur) /\ CanSplit(cur)
  /\ ~Mapped(PTR(PTR(cur) + req))
  /\ hdr' = [hdr EXCEPT ![cur].size = req]
  /\ Panic
  /\ UNCHANGED <<free_list, null_store, limits, client, args, cur, tgt>>

FindNext ==
  /\ pc = "find" /\ cur # NULL
  /\ ~Fits(cur) /\ ~CanSplit(cur)
  /\ cur' = NextBlock
  /\ UNCHANGED <<lists, limits, client, args, tgt, pc>>

FindNone ==
  /\ pc = "find" /\ cur = NULL
  /\ pc' = "extend"
  /\ UNCHANGED <<lists, limits, client, args, cur, tgt>>

-----------------------------------------------------------------------------
(* The rest of kmalloc                                                     *)

\* kmalloc returns PTR(b) to its client, or to the rest of krealloc or
\* kvalloc.
ReturnBlock(b) ==
  \/ fn = "kmalloc" /\ Return
  \/ /\ fn \in {"krealloc", "kvalloc"}
     /\ pc' = IF fn = "krealloc" THEN "copy" ELSE "align"
     /\ cur' = b
     /\ UNCHANGED <<args, tgt>>

Extend ==
  /\ pc = "extend"
  /\ heap_top + req + Hdr <= heap_end
  /\ Mapped(PTR(heap_top))
  /\ hdr' = [b \in DOMAIN hdr \cup {heap_top} |->
               IF b = heap_top THEN Header(req, Poison, Poison) ELSE hdr[b]]
  /\ heap_top' = PTR(heap_top) + req
  /\ held' = held \cup {heap_top}
  /\ ReturnBlock(heap_top)
  /\ UNCHANGED <<free_list, null_store, heap_end, aligned>>

\* "Out of memory", or the header of the new block is not mapped.
ExtendFail ==
  /\ pc = "extend"
  /\ \/ heap_top + req + Hdr > heap_end
     \/ ~Mapped(PTR(heap_top))
  /\ Panic
  /\ UNCHANGED <<lists, limits, client, args, cur, tgt>>

\* The three unlink cases (no header lives at NULL, so a NULL link changes
\* nothing); the links of the block itself stay stale.
Unlinked(next, prev) ==
  [b \in DOMAIN hdr |->
     Header(hdr[b].size,
            IF b = prev THEN next ELSE hdr[b].next,
            IF b = next THEN prev ELSE hdr[b].prev)]

HeadKept == free_list
HeadAfterUnlink == IF cur = free_list THEN hdr[cur].next ELSE free_list

Unlink ==
  /\ pc = "unlink"
  /\ hdr' = Unlinked(hdr[cur].next, hdr[cur].prev)
  /\ free_list' = HeadAfterUnlink
  /\ held' = held \cup {cur}
  /\ ReturnBlock(cur)
  /\ UNCHANGED <<null_store, limits, aligned>>

-----------------------------------------------------------------------------
(* krealloc and kvalloc after their kmalloc                                *)

\* Bytes krealloc copies into the new block.
CopyLen == IF req > hdr[old].size THEN hdr[old].size ELSE req

KreallocCopy ==
  /\ pc = "copy"
  /\ Mapped(PTR(cur) + CopyLen) /\ Mapped(PTR(old) + CopyLen)
  /\ held' = held \ {old}
  /\ tgt' = old
  /\ pc' = "free"
  /\ old' = NULL /\ cur' = NULL /\ req' = 0
  /\ UNCHANGED <<lists, limits, aligned, fn, align>>

\* memcpy runs off the mapped pages.
KreallocFault ==
  /\ pc = "copy"
  /\ ~(Mapped(PTR(cur) + CopyLen) /\ Mapped(PTR(old) + CopyLen))
  /\ Panic
  /\ UNCHANGED <<lists, limits, client, args, cur, tgt>>

KvallocAlign ==
  LET p2 == AlignedPtr(PTR(cur), align) IN
  /\ pc = "align"
  /\ Mapped(p2)
  /\ aligned' = [b \in DOMAIN aligned \cup {cur} |->
                   IF b = cur
                   THEN [ptr |-> p2, size |-> req - Offset(align),
                         align |-> align]
                   ELSE aligned[b]]
  /\ Return
  /\ UNCHANGED <<lists, limits, held>>

\* p2[-1] = p1 is a store to an unmapped page.
KvallocFault ==
  /\ pc = "align"
  /\ ~Mapped(AlignedPtr(PTR(cur), align))
  /\ Panic
  /\ UNCHANGED <<lists, limits, client, args, cur, tgt>>

-----------------------------------------------------------------------------
(* kfree                                                                   *)

\* The list was empty: no merge follows.
First(b) == Header(hdr[b].size, NULL, NULL)

FreeFirst ==
  /\ pc = "free" /\ free_list = NULL
  /\ hdr' = [hdr EXCEPT ![tgt] = First(tgt)]
  /\ free_list' = tgt
  /\ Return
  /\ UNCHANGED <<null_store, limits, client>>

\* The block goes in front; merge_blocks starts at the new head.
Pushed ==
  [b \in DOMAIN hdr |->
     Header(hdr[b].size,
            IF b = tgt THEN free_list ELSE hdr[b].next,
            IF b = tgt THEN NULL ELSE IF b = free_list THEN tgt
            ELSE hdr[b].prev)]

FreeFront ==
  /\ pc = "free" /\ free_list # NULL
  /\ free_list > tgt
  /\ hdr' = Pushed
  /\ free_list' = tgt
  /\ cur' = tgt
  /\ tgt' = NULL
  /\ pc' = "merge"
  /\ UNCHANGED <<null_store, limits, client, args>>

FreeWalk ==
  /\ pc = "free" /\ free_list # NULL
  /\ free_list <= tgt
  /\ cur' = free_list
  /\ pc' = "walk"
  /\ UNCHANGED <<lists, limits, client, args, tgt>>

\* The walk has not reached the block's predecessor yet.
BeforeTarget == hdr[cur].next # NULL /\ hdr[cur].next < tgt

WalkStep ==
  /\ pc = "walk" /\ BeforeTarget
  /\ cur' = NextBlock
  /\ UNCHANGED <<lists, limits, client, args, tgt, pc>>

\* tgt is linked in after parent = cur; merge_blocks starts at the head.
Inserted(next) ==
  [b \in DOMAIN hdr |->
     Header(hdr[b].size,
            IF b = tgt THEN next ELSE IF b = cur THEN tgt ELSE hdr[b].next,
            IF b = tgt THEN cur ELSE IF b = next THEN tgt ELSE hdr[b].prev)]

WalkInsert ==
  /\ pc = "walk" /\ ~BeforeTarget
  /\ hdr' = Inserted(hdr[cur].next)
  /\ cur' = free_list
  /\ tgt' = NULL
  /\ pc' = "merge"
  /\ UNCHANGED <<free_list, null_store, limits, client, args>>

-----------------------------------------------------------------------------
(* merge_blocks                                                            *)

AdjacentNoHeader(b) == b + hdr[b].size = hdr[b].next
Adjacent(b) == End(b) = hdr[b].next

\* Size of cur after it absorbs the block at n.
MergedSizeNoHeader(n) == hdr[cur].size + hdr[n].size
MergedSize(n) == hdr[cur].size + hdr[n].size + Hdr

\* n disappears into cur; the block after n, if any, links back to cur.
Merged(n) ==
  [b \in DOMAIN hdr \ {n} |->
     Header(IF b = cur THEN MergedSize(n) ELSE hdr[b].size,
            IF b = cur THEN hdr[n].next ELSE hdr[b].next,
            IF b = hdr[n].next THEN cur ELSE hdr[b].prev)]

\* When n was the last block, block->next->prev = block stores through NULL.
MergeAdjacent ==
  LET n == hdr[cur].next IN
  /\ pc = "merge" /\ cur # NULL
  /\ Adjacent(cur)
  /\ hdr' = Merged(n)
  /\ null_store' = (null_store \/ hdr[n].next = NULL)
  /\ UNCHANGED <<free_list, limits, client, args, cur, tgt, pc>>

MergeNext ==
  /\ pc = "merge" /\ cur # NULL
  /\ ~Adjacent(cur)
  /\ cur' = NextBlock
  /\ UNCHANGED <<lists, limits, client, args, tgt, pc>>

MergeDone ==
  /\ pc = "merge" /\ cur = NULL
  /\ Return
  /\ UNCHANGED <<lists, limits, client>>

-----------------------------------------------------------------------------
Call == \/ \E s \in Sizes : kmalloc(s)
        \/ \E b \in held, s \in Sizes : krealloc(b, s)
        \/ \E s \in Sizes, a \in Aligns : kvalloc(s, a)
        \/ \E b \in held : kfree(b)

Step == \/ init_heap
        \/ FindExact \/ FindSplit \/ SplitFault \/ FindNext \/ FindNone
        \/ Extend \/ ExtendFail \/ Unlink
        \/ KreallocCopy \/ KreallocFault \/ KvallocAlign \/ KvallocFault
        \/ FreeFirst \/ FreeFront \/ FreeWalk \/ WalkStep \/ WalkInsert
        \/ MergeAdjacent \/ MergeNext \/ MergeDone

Next == Call \/ Step

Spec == Init /\ [][Next]_vars

\* The kernel thread that entered the heap keeps running.
FairSpec == Spec /\ WF_vars(Step)

-----------------------------------------------------------------------------
(* Properties                                                              *)

Blocks == DOMAIN hdr

\* kfree has taken the block from its owner and not yet linked it.
InTransit == IF pc \in {"free", "walk"} THEN {tgt} ELSE {}

\* The blocks that should be exactly those on the free list.
OnList == Blocks \ (held \cup InTransit)

PCs == {"boot", "idle", "find", "unlink", "extend", "copy", "align",
        "free", "walk", "merge", "panic"}

\* The state has the shape the C declarations give it.
TypeOK ==
  /\ Blocks \subseteq Nat \ {0}
  /\ hdr \in [Blocks -> [size : Nat, next : Nat \cup {Poison},
                         prev : Nat \cup {Poison}]]
  /\ heap_top \in Nat /\ heap_end \in Nat
  /\ free_list \in Nat /\ null_store \in BOOLEAN
  /\ held \subseteq Blocks
  /\ DOMAIN aligned \subseteq held
  /\ aligned \in [DOMAIN aligned -> [ptr : Nat, size : Nat, align : Nat]]
  /\ pc \in PCs
  /\ fn \in {"none", "kmalloc", "krealloc", "kvalloc", "kfree"}
  /\ req \in Nat /\ cur \in Nat /\ tgt \in Nat /\ old \in Nat
  /\ align \in Nat

\* Every block lies in the heap, no two overlap, and none leaves a gap.
Tiled ==
  /\ \A b \in Blocks : HEAP_START <= b /\ End(b) <= heap_top
  /\ \A b, c \in Blocks : b < c => End(b) <= c
  /\ heap_top = HEAP_START \/ HEAP_START \in Blocks
  /\ \A b \in Blocks : End(b) = heap_top \/ End(b) \in Blocks

\* Free and owned blocks together cut [HEAP_START, heap_top) into pieces
\* without gap or overlap, at every step of every heap function: no byte is
\* lost by a split or a merge and none belongs to two blocks.
Tiling == pc # "panic" => Tiled

\* n is the block that follows b in S by address, NULL if there is none.
Follows(S, b, n) ==
  IF n = NULL THEN \A c \in S : c <= b
  ELSE n \in S /\ b < n /\ \A c \in S : c <= b \/ n <= c

\* free_list is the lowest free block, or NULL if there is none.
HeadIsFirst ==
  /\ free_list = NULL => OnList = {}
  /\ free_list # NULL => /\ free_list \in OnList
                         /\ hdr[free_list].prev = NULL
                         /\ \A b \in OnList : free_list <= b

NextFollows == \A b \in OnList : Follows(OnList, b, hdr[b].next)

PrevAgrees ==
  \A b \in OnList :
    /\ hdr[b].next # NULL => hdr[hdr[b].next].prev = b
    /\ b # free_list => hdr[b].prev \in OnList /\ hdr[hdr[b].prev].next = b

\* The list that starts at free_list is exactly the blocks nobody owns, in
\* address order, with every back link agreeing with the forward one: what
\* kmalloc's unlink cases and kfree's insertion rely on.
Links == pc # "panic" => HeadIsFirst /\ NextFollows /\ PrevAgrees

\* No two neighbouring blocks are both free once merge_blocks is done; while
\* it runs, none below its cursor are; and the block find_free_block has just
\* cut in two is the only exception afterwards.
Coalesced ==
  pc # "panic" =>
    \A b \in OnList :
      \/ End(b) \notin OnList
      \/ pc = "merge" /\ cur # NULL /\ cur <= b
      \/ pc = "unlink" /\ cur = b

\* The locals of the functions in progress point to what the code takes them
\* to be: the cursor is a free block (never an owned or an absorbed one), the
\* block being freed is nobody's, the block found has the requested size.
Cursors ==
  /\ pc = "find" => cur = NULL \/ cur \in OnList
  /\ pc = "unlink" => cur \in OnList /\ hdr[cur].size = req
  /\ pc = "free" => tgt \in Blocks \ held
  /\ pc = "walk" => /\ tgt \in Blocks \ held
                    /\ cur \in OnList /\ cur < tgt
  /\ pc = "merge" => cur = NULL \/ cur \in OnList
  /\ pc = "copy" => /\ old \in held \ DOMAIN aligned
                    /\ cur \in held \ {old} /\ cur \notin DOMAIN aligned
                    /\ hdr[cur].size = req
  /\ pc = "align" => cur \in held \ DOMAIN aligned /\ hdr[cur].size = req

\* The pointer kvalloc returns is aligned, lies with its whole region inside
\* the block behind it, and the back pointer stored before it does not touch
\* the block's header.
AlignedInside ==
  \A b \in DOMAIN aligned :
    LET v == aligned[b] IN
    /\ v.ptr % v.align = 0
    /\ PTR(b) <= v.ptr - PtrSize
    /\ v.ptr + v.size <= End(b)

\* A call into the heap returns or panics: the list walks of find_free_block,
\* kfree and merge_blocks terminate.
Returns == (pc # "idle") ~> (pc \in {"idle", "panic"})

\* The log line of init_heap: the heap has the size it was given, so what is
\* handed out is memory the heap has.
LiveBlocksMapped == \A b \in held : End(b) <= MappedEnd

-----------------------------------------------------------------------------
(* The heap implements the abstract allocator.                             *)

HeapRegions == {[ptr |-> PTR(b), size |-> hdr[b].size] : b \in held}

PendingRequest == IF pc \in {"find", "unlink", "extend"} THEN req ELSE -1

Requests == Sizes \cup {s + Offset(a) : s \in Sizes, a \in Aligns}

Abstract == INSTANCE Allocator
              WITH regions <- HeapRegions,
                   want    <- PendingRequest,
                   halted  <- (pc = "panic"),
                   Addrs   <- HEAP_START .. HeapEnd,
                   Lengths <- Requests

\* Seen from outside, kmalloc, krealloc, kvalloc and kfree hand out disjoint
\* regions of exactly the requested size, and never touch one that is owned.
ImplementsAllocator == Abstract!Spec
=============================================================================
