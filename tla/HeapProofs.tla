----------------------------- MODULE HeapProofs -----------------------------
(***************************************************************************)
(* The safety of the kernel heap for every heap size, header size and set  *)
(* of requests: the five invariants TLC checks in MCHeap are together      *)
(* inductive.  And the heap implements the abstract allocator: every step  *)
(* of heap.c is a request, an answer, a release or a halt of Allocator, or *)
(* invisible to the clients.                                               *)
(***************************************************************************)
EXTENDS Heap, TLAPS

\* What kvalloc passed to kmalloc, kept until it computes its pointer; the
\* block krealloc is to free, still owned while kmalloc runs; and which caller the two continuations belong to.
Args ==
  /\ fn = "kvalloc" => align \in Aligns /\ req - Offset(align) \in Nat
  /\ fn = "krealloc" /\ pc \in {"find", "unlink", "extend"} =>
       old \in held \ DOMAIN aligned
  /\ pc = "copy" => fn = "krealloc"
  /\ pc = "align" => fn = "kvalloc"

\* The inductive invariant.  Tiling and Links need each other (a split or a
\* merge is safe because the list is in address order, the list stays in
\* order because blocks do not overlap), and both need the cursors to be on
\* the list; Poison never reaches a cursor because the list is closed.
Inv == TypeOK /\ Tiling /\ Links /\ Coalesced /\ Cursors /\ Args

-----------------------------------------------------------------------------
\* The boot state: no block, no client.
LEMMA InitInv == Init => Inv
<1> SUFFICES ASSUME Init PROVE Inv
  OBVIOUS
<1>1. Blocks = {} /\ OnList = {} /\ DOMAIN aligned = {}
  BY DEF Init, Blocks, OnList
<1>2. TypeOK
  BY <1>1, HeapAssumption DEF Init, TypeOK, PCs, NULL, Blocks
<1>3. Tiling
  BY <1>1, HeapAssumption DEF Init, Tiling, Tiled
<1>4. Links
  BY <1>1 DEF Init, Links, HeadIsFirst, NextFollows, PrevAgrees, NULL
<1>5. Coalesced /\ Cursors /\ Args
  BY <1>1 DEF Init, Coalesced, Cursors, Args
<1> QED
  BY <1>2, <1>3, <1>4, <1>5 DEF Inv

\* A step that moves no block and no list pointer keeps the tiling and the
\* links.
LEMMA Frame ==
  ASSUME Inv, pc # "panic", OnList' = OnList,
         UNCHANGED <<hdr, heap_top, free_list>>
  PROVE  Tiling' /\ Links'
  BY DEF Inv, Tiling, Tiled, Links, HeadIsFirst, NextFollows, PrevAgrees,
         Blocks, Follows, End, PTR

\* The numbers a block is made of, and its place among the other blocks.
LEMMA BlockFacts ==
  ASSUME Inv, pc # "panic", NEW b \in Blocks
  PROVE  /\ b \in Nat \ {0} /\ hdr[b].size \in Nat /\ Hdr \in Nat \ {0}
         /\ End(b) = b + Hdr + hdr[b].size
         /\ b < End(b) /\ End(b) \in Nat
         /\ \A c \in Blocks : b < c => End(b) <= c
         /\ \A c \in Blocks : c < b => End(c) <= b
<1>1. b \in Nat \ {0} /\ hdr[b].size \in Nat /\ Hdr \in Nat \ {0}
  BY HeapAssumption DEF Inv, TypeOK, Blocks
<1>2. /\ \A c \in Blocks : b < c => End(b) <= c
      /\ \A c \in Blocks : c < b => End(c) <= b
  BY DEF Inv, Tiling, Tiled
<1>3. End(b) = b + Hdr + hdr[b].size
  BY <1>1 DEF End, PTR
<1>4. b < End(b) /\ End(b) \in Nat
  BY <1>1, <1>3
<1> QED
  BY <1>1, <1>2, <1>3, <1>4

\* Where a non-NULL next pointer of a free block leads.
LEMMA NextOnList ==
  ASSUME Inv, pc # "panic", NEW b \in OnList
  PROVE  /\ hdr[b].next \in Nat
         /\ b \in Nat \ {0}
         /\ hdr[b].next # NULL =>
              hdr[b].next \in OnList /\ b < hdr[b].next
  BY DEF Inv, TypeOK, Links, NextFollows, Follows, OnList, Blocks, NULL

\* Where the prev pointer of a free block leads.
LEMMA PrevOnList ==
  ASSUME Inv, pc # "panic", NEW b \in OnList
  PROVE  /\ b = free_list => hdr[b].prev = NULL
         /\ b # free_list => /\ hdr[b].prev \in OnList
                             /\ hdr[b].prev \in Nat \ {0}
                             /\ hdr[b].prev < b
                             /\ hdr[hdr[b].prev].next = b
<1>1. b = free_list => hdr[b].prev = NULL
  BY DEF Inv, Links, HeadIsFirst, NULL, TypeOK, OnList, Blocks
<1>2. ASSUME b # free_list
      PROVE  hdr[b].prev \in OnList /\ hdr[hdr[b].prev].next = b
  BY <1>2 DEF Inv, Links, PrevAgrees
<1> QED
  BY <1>1, <1>2, NextOnList DEF NULL

-----------------------------------------------------------------------------
\* The steps that move a cursor or panic.

LEMMA init_heapInv == ASSUME Inv, init_heap PROVE Inv'
<1>1. heap_end' \in Nat
  BY HeapAssumption DEF init_heap, HeapEnd
<1>2. OnList' = OnList
  BY DEF init_heap, lists, client, OnList, Blocks, InTransit
<1>3. Tiling' /\ Links'
  BY <1>2, Frame DEF init_heap, lists
<1>4. TypeOK' /\ Coalesced' /\ Cursors' /\ Args'
  BY <1>1, <1>2 DEF init_heap, Inv, TypeOK, Coalesced, Cursors, Args, Blocks, PCs,
                    lists, client, args, End, PTR
<1> QED
  BY <1>3, <1>4 DEF Inv

LEMMA FreeWalkInv == ASSUME Inv, FreeWalk PROVE Inv'
<1>1. OnList' = OnList
  BY DEF FreeWalk, lists, client, OnList, Blocks, InTransit
<1>2. Tiling' /\ Links'
  BY <1>1, Frame DEF FreeWalk, lists, limits
<1>3. TypeOK' /\ Coalesced' /\ Args'
  BY <1>1 DEF FreeWalk, Inv, TypeOK, Coalesced, Args, Blocks, PCs, lists, limits,
              client, args, End, PTR
<1>4. cur' \in OnList /\ cur' < tgt /\ tgt \in Blocks \ held
  <2>1. free_list \in OnList
    BY DEF FreeWalk, Inv, Links, HeadIsFirst
  <2>2. tgt \notin OnList /\ tgt \in Blocks \ held
    BY DEF FreeWalk, Inv, Cursors, OnList, InTransit
  <2>3. free_list \in Nat /\ tgt \in Nat /\ free_list # tgt
    BY <2>1, <2>2 DEF Inv, TypeOK
  <2> QED
    BY <2>1, <2>2, <2>3 DEF FreeWalk
<1>5. Cursors'
  BY <1>1, <1>4 DEF FreeWalk, Cursors, Blocks, lists, client, args
<1> QED
  BY <1>2, <1>3, <1>5 DEF Inv

LEMMA MergeNextInv == ASSUME Inv, MergeNext PROVE Inv'
<1>1. OnList' = OnList
  BY DEF MergeNext, lists, client, OnList, Blocks, InTransit
<1>2. Tiling' /\ Links'
  BY <1>1, Frame DEF MergeNext, lists, limits
<1>3. cur \in OnList
  BY DEF MergeNext, Inv, Cursors
<1>4. TypeOK' /\ Cursors' /\ Args'
  BY <1>1, <1>3, NextOnList
  DEF MergeNext, NextBlock, Inv, TypeOK, Cursors, Args, Blocks, PCs, lists, limits,
      client, args
<1>5. ASSUME NEW b \in OnList, End(b) \in OnList
      PROVE  cur' # NULL /\ cur' <= b
  <2>1. cur <= b
    BY <1>5 DEF MergeNext, Inv, Coalesced
  <2>2. b # cur
    <3>1. SUFFICES ASSUME b = cur PROVE FALSE
      OBVIOUS
    <3>2. cur \in Blocks /\ OnList \subseteq Blocks /\ pc # "panic"
      BY <1>3 DEF OnList, MergeNext
    <3>3. cur < End(cur) /\ \A c \in OnList : cur < c => End(cur) <= c
      BY <3>2, BlockFacts
    <3> QED
      <4>1. End(cur) \in OnList /\ End(cur) # hdr[cur].next
        BY <1>5, <3>1 DEF MergeNext, Adjacent
      <4>2. Follows(OnList, cur, hdr[cur].next)
        BY <1>3, <3>2 DEF Inv, Links, NextFollows
      <4>3. /\ \A c \in OnList : c \in Nat
            /\ hdr[cur].next \in Nat /\ cur \in Nat /\ End(cur) \in Nat
        BY <1>3, <3>2, NextOnList, BlockFacts
      <4> QED
        BY <3>3, <4>1, <4>2, <4>3 DEF Follows
  <2> QED
    BY <1>3, <2>1, <2>2, NextOnList
    DEF MergeNext, NextBlock, Inv, Links, NextFollows, Follows
<1>6. Coalesced'
  BY <1>1, <1>5 DEF MergeNext, Coalesced, End, PTR, lists
<1> QED
  BY <1>2, <1>4, <1>6 DEF Inv

LEMMA MergeDoneInv == ASSUME Inv, MergeDone PROVE Inv'
<1>1. OnList' = OnList
  BY DEF MergeDone, Return, lists, client, OnList, Blocks, InTransit
<1>2. Tiling' /\ Links'
  BY <1>1, Frame DEF MergeDone, lists, limits
<1>3. TypeOK' /\ Coalesced' /\ Cursors' /\ Args'
  BY <1>1 DEF MergeDone, Return, Inv, TypeOK, Coalesced, Cursors, Args, Blocks, PCs,
              NULL, lists, limits, client, End, PTR
<1> QED
  BY <1>2, <1>3 DEF Inv

LEMMA FindExactInv == ASSUME Inv, FindExact PROVE Inv'
<1>1. OnList' = OnList
  BY DEF FindExact, Inv, Cursors, lists, client, OnList, Blocks, InTransit
<1>2. Tiling' /\ Links'
  BY <1>1, Frame DEF FindExact, lists, limits
<1>3. TypeOK' /\ Coalesced' /\ Cursors' /\ Args'
  BY <1>1
  DEF FindExact, Inv, TypeOK, Coalesced, Cursors, Args, Blocks, PCs, NULL, lists,
      limits, client, args, End, PTR, Fits
<1> QED
  BY <1>2, <1>3 DEF Inv

LEMMA FindNextInv == ASSUME Inv, FindNext PROVE Inv'
<1>1. OnList' = OnList
  BY DEF FindNext, NextBlock, Inv, Cursors, lists, client, OnList, Blocks, InTransit
<1>2. Tiling' /\ Links'
  BY <1>1, Frame DEF FindNext, lists, limits
<1>3. TypeOK' /\ Coalesced' /\ Cursors' /\ Args'
  BY <1>1, NextOnList
  DEF FindNext, NextBlock, Inv, TypeOK, Coalesced, Cursors, Args, Blocks, PCs, NULL, lists,
      limits, client, args, End, PTR
<1> QED
  BY <1>2, <1>3 DEF Inv

LEMMA FindNoneInv == ASSUME Inv, FindNone PROVE Inv'
<1>1. OnList' = OnList
  BY DEF FindNone, Inv, Cursors, lists, client, OnList, Blocks, InTransit
<1>2. Tiling' /\ Links'
  BY <1>1, Frame DEF FindNone, lists, limits
<1>3. TypeOK' /\ Coalesced' /\ Cursors' /\ Args'
  BY <1>1
  DEF FindNone, Inv, TypeOK, Coalesced, Cursors, Args, Blocks, PCs, NULL, lists,
      limits, client, args, End, PTR
<1> QED
  BY <1>2, <1>3 DEF Inv

LEMMA WalkStepInv == ASSUME Inv, WalkStep PROVE Inv'
<1>1. OnList' = OnList
  BY DEF WalkStep, NextBlock, BeforeTarget, Inv, Cursors, lists, client, OnList, Blocks, InTransit
<1>2. Tiling' /\ Links'
  BY <1>1, Frame DEF WalkStep, lists, limits
<1>3. TypeOK' /\ Coalesced' /\ Cursors' /\ Args'
  BY <1>1, NextOnList
  DEF WalkStep, NextBlock, BeforeTarget, Inv, TypeOK, Coalesced, Cursors, Args, Blocks, PCs, NULL, lists,
      limits, client, args, End, PTR
<1> QED
  BY <1>2, <1>3 DEF Inv

LEMMA KreallocCopyInv == ASSUME Inv, KreallocCopy PROVE Inv'
<1>1. OnList' = OnList
  BY DEF KreallocCopy, Inv, Cursors, lists, client, OnList, Blocks, InTransit
<1>2. Tiling' /\ Links'
  BY <1>1, Frame DEF KreallocCopy, lists, limits
<1>3. TypeOK' /\ Coalesced' /\ Cursors' /\ Args'
  BY <1>1
  DEF KreallocCopy, Inv, TypeOK, Coalesced, Cursors, Args, Blocks, PCs, NULL, lists,
      limits, client, args, End, PTR
<1> QED
  BY <1>2, <1>3 DEF Inv

\* The arithmetic of kvalloc: rounding p1 + a - 1 + sizeof(void*) down to a
\* multiple of a leaves a pointer that is aligned, has room for the back
\* pointer behind p1, and is at most the slack above p1.
LEMMA AlignedPtrFacts ==
  ASSUME NEW p1 \in Nat, NEW a \in Aligns
  PROVE  /\ Offset(a) \in Nat
         /\ AlignedPtr(p1, a) \in Nat
         /\ AlignedPtr(p1, a) % a = 0
         /\ p1 <= AlignedPtr(p1, a) - PtrSize
         /\ AlignedPtr(p1, a) <= p1 + Offset(a)
<1> DEFINE x == p1 + Offset(a)
<1>1. a \in Nat \ {0} /\ PtrSize \in Nat \ {0} /\ Offset(a) = a - 1 + PtrSize
  BY HeapAssumption DEF Offset
<1>2. x \in Nat /\ Offset(a) \in Nat
  BY <1>1
<1> HIDE DEF x
<1>3. x % a \in 0 .. (a - 1) /\ x = a * (x \div a) + (x % a) /\ x \div a \in Nat
  BY <1>1, <1>2, SMT
<1>4. AlignedPtr(p1, a) = x - (x % a)
  BY DEF AlignedPtr, x
<1>5. AlignedPtr(p1, a) = a * (x \div a)
  BY <1>1, <1>2, <1>3, <1>4
<1>6. \A q \in Nat : (a * q) % a = 0 /\ a * q \in Nat
  BY <1>1, SMT
<1>7. AlignedPtr(p1, a) % a = 0 /\ AlignedPtr(p1, a) \in Nat
  BY <1>3, <1>5, <1>6
<1> QED
  BY <1>1, <1>2, <1>3, <1>4, <1>7 DEF x

LEMMA KvallocAlignInv == ASSUME Inv, KvallocAlign PROVE Inv'
<1>1. OnList' = OnList
  BY DEF KvallocAlign, Return, lists, OnList, Blocks, InTransit
<1>2. Tiling' /\ Links'
  BY <1>1, Frame DEF KvallocAlign, lists, limits
<1>3. /\ AlignedPtr(PTR(cur), align) \in Nat
      /\ req - Offset(align) \in Nat
      /\ align \in Nat
  <2>1. PTR(cur) \in Nat
    BY HeapAssumption DEF Inv, TypeOK, PTR
  <2>2. align \in Aligns /\ req - Offset(align) \in Nat
    BY DEF KvallocAlign, Inv, Args
  <2> QED
    BY <2>1, <2>2, AlignedPtrFacts DEF Inv, TypeOK
<1>4. TypeOK'
  BY <1>3 DEF KvallocAlign, Return, Inv, TypeOK, Cursors, Blocks, PCs, NULL,
              lists, limits
<1>5. Coalesced' /\ Cursors' /\ Args'
  BY <1>1 DEF KvallocAlign, Return, Inv, Coalesced, Cursors, Args, lists,
              End, PTR
<1> QED
  BY <1>2, <1>4, <1>5 DEF Inv

LEMMA ExtendFailInv == ASSUME Inv, ExtendFail PROVE Inv'
  BY DEF ExtendFail, Panic, Inv, TypeOK, Tiling, Links, Coalesced, Cursors, Args,
         Blocks, PCs, lists, limits, client, args

LEMMA KreallocFaultInv == ASSUME Inv, KreallocFault PROVE Inv'
  BY DEF KreallocFault, Panic, Inv, TypeOK, Tiling, Links, Coalesced, Cursors, Args,
         Blocks, PCs, lists, limits, client, args

LEMMA KvallocFaultInv == ASSUME Inv, KvallocFault PROVE Inv'
  BY DEF KvallocFault, Panic, Inv, TypeOK, Tiling, Links, Coalesced, Cursors, Args,
         Blocks, PCs, lists, limits, client, args

\* The entry points.

-----------------------------------------------------------------------------
\* The entry points.

\* The head of the list, where every search starts.
LEMMA HeadOnList ==
  ASSUME Inv, pc # "panic", free_list # NULL
  PROVE  free_list \in OnList
  BY DEF Inv, Links, HeadIsFirst

LEMMA SearchInv ==
  ASSUME Inv, NEW f, NEW size \in Nat, StartSearch(f, size),
         f \in {"kmalloc", "krealloc", "kvalloc"},
         UNCHANGED <<lists, limits, client, tgt>>, old' \in Nat, align' \in Nat,
         f = "krealloc" => old' \in held \ DOMAIN aligned,
         f = "kvalloc" => align' \in Aligns /\ size - Offset(align') \in Nat
  PROVE  Inv'
<1>1. OnList' = OnList
  BY DEF StartSearch, lists, client, OnList, Blocks, InTransit
<1>2. Tiling' /\ Links'
  BY <1>1, Frame DEF StartSearch, lists, limits
<1>3. TypeOK'
  BY DEF StartSearch, Inv, TypeOK, Blocks, PCs, lists, limits, client
<1>4. Coalesced' /\ Cursors' /\ Args'
  BY <1>1, HeadOnList
  DEF StartSearch, Inv, Coalesced, Cursors, Args, lists, client, End, PTR
<1> QED
  BY <1>2, <1>3, <1>4 DEF Inv

LEMMA kfreeInv == ASSUME Inv, NEW b \in held, kfree(b) PROVE Inv'
<1>1. OnList' = OnList
  BY DEF kfree, lists, OnList, Blocks, InTransit
<1>2. Tiling' /\ Links'
  BY <1>1, Frame DEF kfree, lists, limits
<1>3. TypeOK' /\ Coalesced' /\ Cursors' /\ Args'
  BY <1>1 DEF kfree, Inv, TypeOK, Coalesced, Cursors, Args, Blocks, PCs,
              lists, limits, End, PTR
<1> QED
  BY <1>2, <1>3 DEF Inv

LEMMA CallInv == ASSUME Inv, Call PROVE Inv'
<1> USE DEF Inv, TypeOK
<1>1. ASSUME NEW s \in Sizes, kmalloc(s) PROVE Inv'
  BY <1>1, SearchInv, HeapAssumption DEF kmalloc
<1>2. ASSUME NEW b \in held, NEW s \in Sizes, krealloc(b, s) PROVE Inv'
  BY <1>2, SearchInv, HeapAssumption DEF krealloc, Blocks
<1>3. ASSUME NEW s \in Sizes, NEW a \in Aligns, kvalloc(s, a) PROVE Inv'
  <2>1. a \in Nat /\ s \in Nat /\ Offset(a) \in Nat
    BY HeapAssumption, AlignedPtrFacts
  <2>2. StartSearch("kvalloc", s + Offset(a)) /\ align' = a
    BY <1>3 DEF kvalloc
  <2>3. s + Offset(a) \in Nat /\ (s + Offset(a)) - Offset(align') \in Nat
    BY <2>1, <2>2
  <2> QED
    BY <1>3, <2>1, <2>2, <2>3, SearchInv DEF kvalloc
<1>4. ASSUME NEW b \in held, kfree(b) PROVE Inv'
  BY <1>4, kfreeInv
<1> QED
  BY <1>1, <1>2, <1>3, <1>4 DEF Call

-----------------------------------------------------------------------------
\* kmalloc takes a block from the top of the heap.

LEMMA ExtendInv == ASSUME Inv, Extend PROVE Inv'
<1> PICK t : t = heap_top
  OBVIOUS
<1>1. pc = "extend" /\ pc # "panic" /\ t \in Nat \ {0} /\ req \in Nat
  <2>1. heap_top = HEAP_START \/ HEAP_START \in Blocks
    BY DEF Extend, Inv, Tiling, Tiled
  <2>2. HEAP_START \in Blocks =>
          HEAP_START < End(HEAP_START) /\ End(HEAP_START) <= heap_top
    BY BlockFacts DEF Extend, Inv, Tiling, Tiled
  <2> QED
    BY <2>1, <2>2, BlockFacts, HeapAssumption DEF Extend, Inv, TypeOK
<1>2. \A b \in Blocks : b < t /\ End(b) <= t
  BY <1>1, BlockFacts DEF Inv, TypeOK, Tiling, Tiled
<1>3. t \notin Blocks
  BY <1>1, <1>2
<1>4. /\ Blocks' = Blocks \cup {t}
      /\ \A b \in Blocks : hdr'[b] = hdr[b] /\ End(b)' = End(b)
      /\ hdr'[t] = Header(req, Poison, Poison)
      /\ heap_top' = t + Hdr + req /\ End(t)' = heap_top'
      /\ held' = held \cup {t} /\ UNCHANGED <<free_list, aligned>>
  BY <1>3 DEF Extend, Blocks, End, PTR, Header
<1>5. /\ pc' \in {"idle", "copy", "align"}
      /\ pc' = "idle" => fn' = "none"
      /\ pc' \in {"copy", "align"} =>
           cur' = t /\ UNCHANGED <<fn, req, old, align, tgt>>
      /\ pc' = "copy" => fn = "krealloc"
      /\ pc' = "align" => fn = "kvalloc"
  BY DEF Extend, ReturnBlock, Return, args
<1>6. OnList' = OnList /\ OnList \subseteq Blocks
  BY <1>1, <1>3, <1>4, <1>5 DEF OnList, InTransit
<1>7. TypeOK'
  BY <1>1, <1>4, <1>5, HeapAssumption
  DEF Extend, ReturnBlock, Return, args, Inv, TypeOK, Blocks, PCs, NULL,
      Header, Poison
<1>8. Tiling'
  <2>1. Tiled /\ Hdr \in Nat \ {0} /\ HEAP_START \in Nat
    BY <1>1, HeapAssumption DEF Inv, Tiling
  <2>2. \A b \in Blocks : b \in Nat /\ End(b) \in Nat
    BY <1>1, BlockFacts
  <2>3. \A b \in Blocks' : HEAP_START <= b /\ End(b)' <= heap_top'
    <3>1. HEAP_START <= t
      BY <1>1, <1>2, <2>1, <2>2 DEF Tiled
    <3> QED
      BY <1>1, <1>2, <1>4, <2>1, <2>2, <3>1 DEF Tiled
  <2>4. \A b, c \in Blocks' : b < c => End(b)' <= c
    BY <1>1, <1>2, <1>4, <2>1, <2>2 DEF Tiled
  <2>5. heap_top' = HEAP_START \/ HEAP_START \in Blocks'
    BY <1>4, <2>1 DEF Tiled
  <2>6. \A b \in Blocks' : End(b)' = heap_top' \/ End(b)' \in Blocks'
    BY <1>4, <2>1 DEF Tiled
  <2> QED
    BY <2>3, <2>4, <2>5, <2>6 DEF Tiling, Tiled
<1>9. Links'
  BY <1>1, <1>4, <1>6, NextOnList
  DEF Inv, Links, HeadIsFirst, NextFollows, PrevAgrees, Follows
<1>10. Coalesced'
  BY <1>1, <1>4, <1>5, <1>6 DEF Inv, Coalesced
<1>11. Cursors' /\ Args'
  <2>1. pc' = "copy" => old \in held \ DOMAIN aligned /\ old # t
    BY <1>1, <1>3, <1>5 DEF Inv, TypeOK, Args
  <2> QED
    BY <1>3, <1>4, <1>5, <2>1 DEF Inv, TypeOK, Cursors, Args, Header, Blocks
<1> QED
  BY <1>7, <1>8, <1>9, <1>10, <1>11 DEF Inv

\* kmalloc unlinks the block find_free_block returned.
LEMMA UnlinkInv == ASSUME Inv, Unlink PROVE Inv'
<1> PICK c, n, p : c = cur /\ n = hdr[cur].next /\ p = hdr[cur].prev
  OBVIOUS
<1>1. /\ pc = "unlink" /\ pc # "panic"
      /\ c \in OnList /\ OnList = Blocks \ held /\ hdr[c].size = req
  BY DEF Unlink, Inv, Cursors, OnList, InTransit
<1>2. /\ Blocks' = Blocks
      /\ \A b \in Blocks : hdr'[b].size = hdr[b].size /\ End(b)' = End(b)
      /\ \A b \in Blocks : hdr'[b].next = IF b = p THEN n ELSE hdr[b].next
      /\ \A b \in Blocks : hdr'[b].prev =
            IF b = n THEN p ELSE hdr[b].prev
      /\ held' = held \cup {c} /\ UNCHANGED <<heap_top, aligned>>
      /\ free_list' = IF c = free_list THEN n ELSE free_list
  BY DEF Unlink, Unlinked, HeadAfterUnlink, Header, Blocks, End, PTR, limits
<1>3. /\ pc' \in {"idle", "copy", "align"}
      /\ pc' = "idle" => fn' = "none"
      /\ pc' \in {"copy", "align"} =>
           cur' = c /\ UNCHANGED <<fn, req, old, align, tgt>>
      /\ pc' = "copy" => fn = "krealloc"
      /\ pc' = "align" => fn = "kvalloc"
  BY DEF Unlink, ReturnBlock, Return, args
<1>4. OnList' = OnList \ {c} /\ OnList \subseteq Blocks
  BY <1>1, <1>2, <1>3 DEF OnList, InTransit
<1>5. /\ n \in Nat /\ (n # NULL => n \in OnList /\ c < n)
      /\ IF c = free_list THEN p = NULL
         ELSE p \in OnList /\ p \in Nat \ {0} /\ p < c /\ hdr[p].next = c
      /\ NULL = 0 /\ 0 \notin Blocks
      /\ \A b \in Blocks : hdr[b].next \in Nat \cup {Poison}
  BY <1>1, NextOnList, PrevOnList DEF NULL, Inv, TypeOK, Blocks
<1>10. TypeOK'
  <2>1. hdr' \in [Blocks' -> [size : Nat, next : Nat \cup {Poison},
                             prev : Nat \cup {Poison}]]
    BY <1>1, <1>2, <1>5 DEF Unlink, Unlinked, Header, Inv, TypeOK, Blocks
  <2> QED
    BY <1>1, <1>2, <1>3, <1>5, <2>1
    DEF Unlink, ReturnBlock, Return, args, limits, Inv, TypeOK, PCs, NULL,
        OnList
<1>6. Tiling'
  BY <1>1, <1>2 DEF Inv, Tiling, Tiled
<1>7. Links'
  <2>1. HeadIsFirst /\ NextFollows /\ PrevAgrees
    BY <1>1 DEF Inv, Links
  <2>5. \A b \in OnList : /\ b \in Nat \ {0} /\ hdr[b].next \in Nat
                          /\ hdr[b].next = c => b = p
    BY <1>1, <1>5, <2>1, NextOnList DEF PrevAgrees
  <2>2. HeadIsFirst'
    <3>1. CASE c = free_list
      <4>1. free_list' = n /\ p = NULL
        BY <1>2, <1>5, <3>1
      <4>2. ASSUME n # NULL
            PROVE  /\ n \in OnList' /\ hdr'[n].prev = NULL
                   /\ \A b \in OnList' : n <= b
        BY <1>1, <1>2, <1>4, <1>5, <2>1, <2>5, <3>1, <4>1, <4>2
        DEF HeadIsFirst, NextFollows, Follows
      <4>3. ASSUME n = NULL PROVE OnList' = {}
        BY <1>1, <1>4, <2>1, <2>5, <3>1, <4>3
        DEF HeadIsFirst, NextFollows, Follows
      <4> QED
        BY <4>1, <4>2, <4>3 DEF HeadIsFirst
    <3>2. CASE c # free_list
      BY <1>1, <1>2, <1>4, <1>5, <2>1, <2>5, <3>2 DEF HeadIsFirst
    <3> QED
      BY <3>1, <3>2
  <2>3. NextFollows'
    <3>1. SUFFICES ASSUME NEW b \in OnList'
                   PROVE  Follows(OnList', b, hdr'[b].next)
      BY DEF NextFollows
    <3>2. /\ Follows(OnList, b, hdr[b].next) /\ Follows(OnList, c, n)
          /\ b \in OnList /\ b # c
      BY <1>1, <1>4, <2>1 DEF NextFollows
    <3>3. CASE b = p
      <4>1. hdr'[b].next = n /\ hdr[b].next = c /\ c # NULL
        BY <1>1, <1>2, <1>4, <1>5, <2>5, <3>2, <3>3 DEF PrevAgrees
      <4> QED
        BY <1>1, <1>4, <1>5, <2>5, <3>2, <4>1 DEF Follows
    <3>4. CASE b # p
      <4>1. hdr'[b].next = hdr[b].next /\ hdr[b].next # c
        BY <1>2, <1>4, <2>5, <3>2, <3>4
      <4> QED
        BY <1>4, <2>5, <3>2, <4>1 DEF Follows
    <3> QED
      BY <3>3, <3>4
  <2>4. PrevAgrees'
    BY <1>1, <1>2, <1>4, <1>5, <2>1, NextOnList, PrevOnList
    DEF NextFollows, Follows, PrevAgrees, HeadIsFirst
  <2> QED
    BY <2>2, <2>3, <2>4 DEF Links
<1>8. Coalesced'
  BY <1>1, <1>2, <1>3, <1>4 DEF Inv, Coalesced
<1>9. Cursors' /\ Args'
  BY <1>1, <1>2, <1>3, <1>4 DEF Inv, TypeOK, Cursors, Args, OnList
<1> QED
  BY <1>6, <1>7, <1>8, <1>9, <1>10 DEF Inv

-----------------------------------------------------------------------------
\* kfree links the block in.

\* The block being freed, between its owner and the list.
LEMMA TargetFacts ==
  ASSUME Inv, pc \in {"free", "walk"}
  PROVE  /\ tgt \in Blocks /\ tgt \notin OnList /\ tgt \notin held
         /\ tgt \in Nat \ {0}
         /\ OnList = Blocks \ (held \cup {tgt})
  BY DEF Inv, Cursors, TypeOK, OnList, InTransit, Blocks

LEMMA FreeFirstInv == ASSUME Inv, FreeFirst PROVE Inv'
<1> PICK t : t = tgt
  OBVIOUS
<1>1. /\ pc = "free" /\ pc # "panic" /\ free_list = NULL
      /\ t \in Blocks /\ t \notin held /\ t \in Nat \ {0}
      /\ OnList = {} /\ Blocks \ held = {t}
  BY TargetFacts DEF FreeFirst, Inv, Links, HeadIsFirst
<1>2. /\ Blocks' = Blocks
      /\ \A b \in Blocks : hdr'[b].size = hdr[b].size /\ End(b)' = End(b)
      /\ hdr'[t].next = NULL /\ hdr'[t].prev = NULL
      /\ UNCHANGED <<heap_top, held, aligned>>
      /\ free_list' = t /\ pc' = "idle" /\ fn' = "none"
  BY <1>1 DEF FreeFirst, First, Header, Blocks, End, PTR, Inv, TypeOK, limits,
              client, Return
<1>3. OnList' = {t}
  BY <1>1, <1>2 DEF OnList, InTransit
<1>4. TypeOK'
  BY <1>1, <1>2 DEF FreeFirst, First, Header, Return, Inv, TypeOK, Blocks,
                    PCs, NULL, limits, client
<1>5. Tiling'
  BY <1>1, <1>2 DEF Inv, Tiling, Tiled
<1>6. Links'
  BY <1>1, <1>2, <1>3
  DEF Links, HeadIsFirst, NextFollows, PrevAgrees, Follows, NULL
<1>7. Coalesced'
  <2>1. End(t) # t
    BY <1>1, BlockFacts
  <2> QED
    BY <1>1, <1>2, <1>3, <2>1 DEF Coalesced
<1>8. Cursors' /\ Args'
  BY <1>2 DEF Cursors, Args
<1> QED
  BY <1>4, <1>5, <1>6, <1>7, <1>8 DEF Inv

LEMMA FreeFrontInv == ASSUME Inv, FreeFront PROVE Inv'
<1> PICK t, f : t = tgt /\ f = free_list
  OBVIOUS
<1>1. /\ pc = "free" /\ pc # "panic" /\ f # NULL /\ f > t
      /\ t \in Blocks /\ t \notin held /\ t \notin OnList /\ t \in Nat \ {0}
      /\ OnList = Blocks \ (held \cup {t})
      /\ f \in OnList /\ f \in Nat
  BY TargetFacts, HeadOnList DEF FreeFront, Inv, TypeOK
<1>2. /\ Blocks' = Blocks
      /\ \A b \in Blocks : hdr'[b].size = hdr[b].size /\ End(b)' = End(b)
      /\ \A b \in Blocks : hdr'[b].next = IF b = t THEN f ELSE hdr[b].next
      /\ \A b \in Blocks : hdr'[b].prev = IF b = t THEN NULL
                                          ELSE IF b = f THEN t ELSE hdr[b].prev
      /\ UNCHANGED <<heap_top, held, aligned>>
      /\ free_list' = t /\ pc' = "merge" /\ fn' = fn /\ cur' = t
  BY DEF FreeFront, Pushed, Header, Blocks, End, PTR, limits, client, args
<1>3. OnList' = OnList \cup {t} /\ OnList \subseteq Blocks
  BY <1>1, <1>2 DEF OnList, InTransit
<1>4. TypeOK'
  <2>1. hdr' \in [Blocks' -> [size : Nat, next : Nat \cup {Poison},
                             prev : Nat \cup {Poison}]]
    BY <1>1 DEF FreeFront, Pushed, Header, Inv, TypeOK, Blocks, NULL
  <2> QED
    BY <1>1, <1>2, <2>1 DEF FreeFront, Inv, TypeOK, PCs, NULL, limits, client,
                            args
<1>5. Tiling'
  BY <1>1, <1>2 DEF Inv, Tiling, Tiled
<1>6. Links'
  <2>1. HeadIsFirst /\ NextFollows /\ PrevAgrees
    BY <1>1 DEF Inv, Links
  <2>2. \A b \in OnList : b \in Nat \ {0} /\ hdr[b].next \in Nat /\ f <= b /\ t < b
    BY <1>1, <2>1, NextOnList DEF HeadIsFirst
  <2>3. HeadIsFirst'
    BY <1>1, <1>2, <1>3, <2>2 DEF HeadIsFirst, NULL
  <2>4. NextFollows'
    BY <1>1, <1>2, <1>3, <2>1, <2>2 DEF NextFollows, Follows, NULL
  <2>5. PrevAgrees'
    BY <1>1, <1>2, <1>3, <2>1, <2>2, NextOnList, PrevOnList
    DEF PrevAgrees, NULL
  <2> QED
    BY <2>3, <2>4, <2>5 DEF Links
<1>7. Coalesced'
  <2>1. \A b \in OnList' : t <= b
    BY <1>1, <1>2, <1>3 DEF Inv, Links, HeadIsFirst, TypeOK, OnList, Blocks
  <2> QED
    BY <1>1, <1>2, <2>1 DEF Coalesced, NULL
<1>8. Cursors' /\ Args'
  BY <1>1, <1>2, <1>3 DEF FreeFront, Inv, Cursors, Args, args
<1> QED
  BY <1>4, <1>5, <1>6, <1>7, <1>8 DEF Inv

LEMMA WalkInsertInv == ASSUME Inv, WalkInsert PROVE Inv'
<1> PICK t, c, n : t = tgt /\ c = cur /\ n = hdr[cur].next
  OBVIOUS
<1>1. /\ pc = "walk" /\ pc # "panic"
      /\ t \in Blocks /\ t \notin held /\ t \notin OnList /\ t \in Nat \ {0}
      /\ OnList = Blocks \ (held \cup {t}) /\ OnList \subseteq Blocks
      /\ c \in OnList /\ c \in Nat \ {0} /\ c < t
  BY TargetFacts, NextOnList DEF WalkInsert, Inv, Cursors
<1>2. /\ n \in Nat /\ NULL = 0
      /\ n # NULL => n \in OnList /\ t < n /\ n # c
  BY <1>1, NextOnList DEF WalkInsert, BeforeTarget, NULL
<1>3. /\ Blocks' = Blocks
      /\ \A b \in Blocks : hdr'[b].size = hdr[b].size /\ End(b)' = End(b)
      /\ \A b \in Blocks : hdr'[b].next = IF b = t THEN n
                                          ELSE IF b = c THEN t ELSE hdr[b].next
      /\ \A b \in Blocks : hdr'[b].prev = IF b = t THEN c
                                          ELSE IF b = n THEN t ELSE hdr[b].prev
      /\ UNCHANGED <<heap_top, held, aligned, free_list>>
      /\ pc' = "merge" /\ fn' = fn /\ cur' = free_list
  BY DEF WalkInsert, Inserted, Header, Blocks, End, PTR, limits, client, args
<1>4. OnList' = OnList \cup {t}
  BY <1>1, <1>3 DEF OnList, InTransit
<1>5. TypeOK'
  <2>1. hdr' \in [Blocks' -> [size : Nat, next : Nat \cup {Poison},
                             prev : Nat \cup {Poison}]]
    BY <1>1, <1>2 DEF WalkInsert, Inserted, Header, Inv, TypeOK, Blocks
  <2> QED
    BY <1>1, <1>3, <2>1
    DEF WalkInsert, Inv, TypeOK, PCs, NULL, limits, client, args
<1>6. Tiling'
  BY <1>1, <1>3 DEF Inv, Tiling, Tiled
<1>7. Links'
  <2>1. HeadIsFirst /\ NextFollows /\ PrevAgrees
    BY <1>1 DEF Inv, Links
  <2>2. \A b \in OnList : b \in Nat \ {0} /\ hdr[b].next \in Nat
    BY <1>1, NextOnList
  <2>3. HeadIsFirst'
    BY <1>1, <1>2, <1>3, <1>4, <2>1, <2>2 DEF HeadIsFirst, Inv, TypeOK
  <2>4. NextFollows'
    <3>1. SUFFICES ASSUME NEW b \in OnList'
                   PROVE  Follows(OnList', b, hdr'[b].next)
      BY DEF NextFollows
    <3>2. Follows(OnList, c, n)
      BY <1>1, <2>1 DEF NextFollows
    <3>3. CASE b = t
      BY <1>1, <1>2, <1>3, <1>4, <2>2, <3>2, <3>3 DEF Follows
    <3>4. CASE b = c
      BY <1>1, <1>2, <1>3, <1>4, <2>2, <3>2, <3>4 DEF Follows
    <3>5. CASE b # t /\ b # c
      <4>1. /\ b \in OnList /\ hdr'[b].next = hdr[b].next
            /\ Follows(OnList, b, hdr[b].next)
        BY <1>1, <1>3, <1>4, <2>1, <3>5 DEF NextFollows
      <4>2. b \in Nat /\ c \in Nat /\ t \in Nat /\ c < t /\ c \in OnList
        BY <1>1, <2>2, <4>1
      <4>3. b < c \/ c < b
        BY <3>5, <4>2
      <4>4. hdr[b].next = NULL => c < b /\ t < b
        BY <1>2, <2>2, <3>2, <4>1, <4>2, <4>3 DEF Follows
      <4>5. hdr[b].next # NULL => t <= b \/ hdr[b].next <= t
        BY <1>2, <2>2, <3>2, <4>1, <4>2, <4>3 DEF Follows
      <4>6. Follows(OnList \cup {t}, b, hdr[b].next)
        BY <4>1, <4>2, <4>4, <4>5 DEF Follows
      <4> QED
        BY <1>4, <4>1, <4>6
    <3> QED
      BY <3>3, <3>4, <3>5
  <2>5. PrevAgrees'
    <3>1. SUFFICES ASSUME NEW b \in OnList'
                   PROVE  /\ hdr'[b].next # NULL => hdr'[hdr'[b].next].prev = b
                          /\ b # free_list =>
                               /\ hdr'[b].prev \in OnList'
                               /\ hdr'[hdr'[b].prev].next = b
      BY <1>3 DEF PrevAgrees
    <3>2. CASE b = t
      BY <1>1, <1>2, <1>3, <1>4, <3>2
    <3>3. CASE b = c
      BY <1>1, <1>2, <1>3, <1>4, <2>1, <3>3, PrevOnList DEF PrevAgrees
    <3>4. CASE b = n
      BY <1>1, <1>2, <1>3, <1>4, <2>1, <2>2, <3>4, NextOnList DEF PrevAgrees,
         HeadIsFirst
    <3>5. CASE b # t /\ b # c /\ b # n
      <4>1. b \in OnList /\ hdr'[b].next = hdr[b].next /\ hdr'[b].prev = hdr[b].prev
        BY <1>1, <1>3, <1>4, <3>5
      <4>2. b # free_list => hdr[b].prev # c /\ hdr[b].prev # t
        BY <1>1, <2>1, <3>5, <4>1 DEF PrevAgrees
      <4>3. hdr[b].next # NULL => hdr[b].next # n /\ hdr[b].next # t
        BY <1>1, <1>2, <2>1, <3>5, <4>1, NextOnList DEF PrevAgrees
      <4> QED
        BY <1>1, <1>3, <1>4, <2>1, <4>1, <4>2, <4>3, NextOnList, PrevOnList
        DEF PrevAgrees
    <3> QED
      BY <3>2, <3>3, <3>4, <3>5
  <2> QED
    BY <2>3, <2>4, <2>5 DEF Links
<1>8. Coalesced' /\ Cursors' /\ Args'
  <2>1. cur' # NULL /\ cur' \in OnList /\ \A b \in OnList' : cur' <= b
    BY <1>1, <1>3, <1>4 DEF Inv, Links, HeadIsFirst, TypeOK, OnList, Blocks
  <2> QED
    BY <1>1, <1>3, <1>4, <2>1 DEF WalkInsert, Inv, Coalesced, Cursors, Args, args
<1> QED
  BY <1>5, <1>6, <1>7, <1>8 DEF Inv

-----------------------------------------------------------------------------
\* find_free_block cuts a block in two.

LEMMA FindSplitInv == ASSUME Inv, FindSplit PROVE Inv'
<1> PICK c, x, w : c = cur /\ x = hdr[cur].next /\ w = PTR(cur) + req
  OBVIOUS
<1>1. /\ pc = "find" /\ pc # "panic" /\ c \in OnList /\ c \in Nat \ {0}
      /\ OnList = Blocks \ held /\ OnList \subseteq Blocks
      /\ hdr[c].size \in Nat /\ req \in Nat /\ Hdr \in Nat \ {0}
      /\ hdr[c].size > req + Hdr
  BY NextOnList, BlockFacts
  DEF FindSplit, CanSplit, Inv, Cursors, TypeOK, OnList, InTransit
<1>2. /\ w = c + Hdr + req /\ w \in Nat \ {0}
      /\ c < w /\ w + Hdr < End(c) /\ End(c) \in Nat
      /\ SplitRest(hdr[c].size) \in Nat
      /\ w + Hdr + SplitRest(hdr[c].size) = End(c)
  BY <1>1, BlockFacts DEF SplitRest, PTR
<1>3. /\ \A b \in Blocks : b \in Nat \ {0} /\ End(b) \in Nat /\ b < End(b)
      /\ \A b \in Blocks : c < b => w < b /\ End(c) <= b
      /\ \A b \in Blocks : b < c => End(b) < w
  <2>1. \A b \in Blocks : b \in Nat \ {0} /\ End(b) \in Nat /\ b < End(b)
    BY <1>1, BlockFacts
  <2>2. \A b \in Blocks : c < b => End(c) <= b
    BY <1>1, BlockFacts
  <2>3. \A b \in Blocks : b < c => End(b) <= c
    BY <1>1, BlockFacts
  <2> QED
    BY <1>1, <1>2, <2>1, <2>2, <2>3
<1>4. w \notin Blocks /\ w # c
  BY <1>1, <1>2, <1>3
<1>5. x \in Nat /\ NULL = 0 /\ x # w /\ (x # NULL => x \in OnList /\ c < x)
  BY <1>1, <1>2, <1>4, NextOnList DEF NULL
<1>6. /\ Blocks' = Blocks \cup {w}
      /\ \A b \in Blocks' : hdr'[b].size = IF b = c THEN req
               ELSE IF b = w THEN SplitRest(hdr[c].size) ELSE hdr[b].size
      /\ \A b \in Blocks' : hdr'[b].next = IF b = c THEN w
                                  ELSE IF b = w THEN x ELSE hdr[b].next
      /\ \A b \in Blocks' : hdr'[b].prev = IF b = w THEN c
                                  ELSE IF b = x THEN w ELSE hdr[b].prev
      /\ pc' = "unlink" /\ cur' = c
      /\ UNCHANGED <<heap_top, free_list, held, aligned, req, fn, old, align>>
  BY DEF FindSplit, SplitHeaders, Header, Blocks, limits, client, args
<1>7. /\ End(w)' = End(c) /\ End(c)' = w
      /\ \A b \in Blocks : b # c => End(b)' = End(b)
  BY <1>1, <1>2, <1>4, <1>6 DEF End, PTR
<1>8. OnList' = OnList \cup {w} /\ w \notin held
  BY <1>1, <1>4, <1>6 DEF OnList, InTransit, Inv, TypeOK
<1>9. TypeOK'
  <2>1. hdr' \in [Blocks' -> [size : Nat, next : Nat \cup {Poison},
                             prev : Nat \cup {Poison}]]
    BY <1>1, <1>2, <1>5
    DEF FindSplit, SplitHeaders, Header, Inv, TypeOK, Blocks
  <2> QED
    BY <1>1, <1>2, <1>6, <2>1 DEF FindSplit, Inv, TypeOK, PCs, limits, client, args
<1>10. Tiling'
  <2>1. Tiled
    BY <1>1 DEF Inv, Tiling
  <2>2. \A b \in Blocks' : HEAP_START <= b /\ End(b)' <= heap_top'
    <3>1. HEAP_START <= w /\ w <= heap_top
      BY <1>1, <1>2, <2>1, HeapAssumption DEF Tiled, Inv, TypeOK
    <3> QED
      BY <1>1, <1>6, <1>7, <2>1, <3>1 DEF Tiled
  <2>3. \A b, d \in Blocks' : b < d => End(b)' <= d
    <3> SUFFICES ASSUME NEW b \in Blocks', NEW d \in Blocks', b < d
                 PROVE  End(b)' <= d
      OBVIOUS
    <3>1. CASE b = c
      BY <1>1, <1>3, <1>2, <1>6, <1>7, <3>1
    <3>2. CASE b = w
      BY <1>1, <1>3, <1>2, <1>6, <1>7, <3>2
    <3>3. CASE b # c /\ b # w
      BY <1>1, <1>2, <1>3, <1>6, <1>7, <2>1, <3>3 DEF Tiled
    <3> QED
      BY <3>1, <3>2, <3>3
  <2>4. \A b \in Blocks' : End(b)' = heap_top' \/ End(b)' \in Blocks'
    <3>1. \A b \in Blocks : End(b) = heap_top \/ End(b) \in Blocks
      BY <2>1 DEF Tiled
    <3>2. \A b \in Blocks \ {c} : End(b)' = heap_top' \/ End(b)' \in Blocks'
      BY <1>6, <1>7, <3>1
    <3>3. End(w)' = heap_top' \/ End(w)' \in Blocks'
      BY <1>1, <1>6, <1>7, <3>1
    <3>4. End(c)' \in Blocks'
      BY <1>6, <1>7
    <3> QED
      BY <1>6, <3>2, <3>3, <3>4
  <2> QED
    BY <1>6, <2>1, <2>2, <2>3, <2>4 DEF Tiling, Tiled
<1>11. Links'
  <2>1. HeadIsFirst /\ NextFollows /\ PrevAgrees
    BY <1>1 DEF Inv, Links
  <2>2. \A b \in OnList : b \in Nat \ {0} /\ hdr[b].next \in Nat /\ b \in Blocks
    BY <1>1, NextOnList
  <2>3. HeadIsFirst'
    BY <1>1, <1>2, <1>4, <1>5, <1>6, <1>8, <2>1, <2>2 DEF HeadIsFirst, Inv, TypeOK
  <2>4. NextFollows'
    <3>1. SUFFICES ASSUME NEW b \in OnList'
                   PROVE  Follows(OnList', b, hdr'[b].next)
      BY DEF NextFollows
    <3>2. Follows(OnList, c, x)
      BY <1>1, <2>1 DEF NextFollows
    <3>3. CASE b = w
      <4>1. hdr'[b].next = x
        BY <1>4, <1>6, <3>3
      <4>2. Follows(OnList \cup {w}, w, x)
        <5>1. \A d \in OnList \cup {w} : d \in Nat /\ (d <= w \/ c < d)
          BY <1>1, <1>2, <1>3, <2>2
        <5>2. CASE x = NULL
          <6>1. \A d \in OnList : d <= c
            BY <3>2, <5>2 DEF Follows
          <6> QED
            BY <1>1, <1>2, <5>1, <5>2, <6>1 DEF Follows
        <5>3. CASE x # NULL
          <6>1. x \in OnList /\ c < x /\ \A d \in OnList : d <= c \/ x <= d
            BY <3>2, <5>3 DEF Follows
          <6>2. w < x
            BY <1>1, <1>3, <6>1
          <6> QED
            BY <1>1, <1>2, <5>1, <5>3, <6>1, <6>2 DEF Follows
        <5> QED
          BY <5>2, <5>3
      <4> QED
        BY <1>8, <3>3, <4>1, <4>2
    <3>4. CASE b = c
      <4>1. hdr'[b].next = w
        BY <1>1, <1>6, <3>4
      <4>2. Follows(OnList \cup {w}, c, w)
        BY <1>1, <1>2, <1>3, <1>5, <2>2, <3>2 DEF Follows
      <4> QED
        BY <1>8, <3>4, <4>1, <4>2
    <3>5. CASE b # w /\ b # c
      <4>1. /\ b \in OnList /\ hdr'[b].next = hdr[b].next
            /\ Follows(OnList, b, hdr[b].next)
        BY <1>1, <1>6, <1>8, <2>1, <3>5 DEF NextFollows
      <4>2. b \in Nat /\ c \in Nat /\ w \in Nat /\ c < w /\ c \in OnList
        BY <1>1, <1>2, <2>2, <4>1
      <4>3. b < c \/ w < b
        BY <1>1, <1>3, <2>2, <3>5, <4>1, <4>2
      <4>4. hdr[b].next = NULL => w <= b
        BY <2>2, <4>1, <4>2, <4>3 DEF Follows
      <4>5. hdr[b].next # NULL => w <= b \/ hdr[b].next <= w
        BY <2>2, <4>1, <4>2, <4>3 DEF Follows
      <4>6. Follows(OnList \cup {w}, b, hdr[b].next)
        BY <4>1, <4>2, <4>4, <4>5 DEF Follows
      <4> QED
        BY <1>8, <4>1, <4>6
    <3> QED
      BY <3>3, <3>4, <3>5
  <2>5. PrevAgrees'
    <3>1. SUFFICES ASSUME NEW b \in OnList'
                   PROVE  /\ hdr'[b].next # NULL => hdr'[hdr'[b].next].prev = b
                          /\ b # free_list =>
                               /\ hdr'[b].prev \in OnList'
                               /\ hdr'[hdr'[b].prev].next = b
      BY <1>6 DEF PrevAgrees
    <3>2. CASE b = w
      BY <1>1, <1>4, <1>5, <1>6, <1>8, <3>2
    <3>3. CASE b = c
      <4>1. b \in OnList /\ b # x /\ b # w /\ b \in Blocks'
        BY <1>1, <1>4, <1>5, <1>6, <3>3
      <4>2. hdr'[b].next = w /\ hdr'[w].prev = b /\ hdr'[b].prev = hdr[b].prev
        BY <1>4, <1>6, <3>3, <4>1
      <4>3. b # free_list => /\ hdr[b].prev \in OnList /\ hdr[b].prev # c
                             /\ hdr[hdr[b].prev].next = b
        BY <1>1, <3>3, PrevOnList
      <4>4. \A q \in OnList : q # c => q \in OnList' /\ hdr'[q].next = hdr[q].next
        BY <1>1, <1>4, <1>6, <1>8
      <4> QED
        BY <4>2, <4>3, <4>4
    <3>4. CASE b = x
      <4>1. b \in OnList /\ b # w /\ b # c /\ hdr'[b].prev = w /\ hdr'[w].next = b
        <5>1. b \in OnList /\ b # w
          BY <1>5, <1>8, <3>4
        <5>2. b # c /\ b \in Blocks' /\ w \in Blocks'
          BY <1>1, <1>5, <1>6, <2>2, <3>4, <5>1
        <5> QED
          BY <1>4, <1>6, <3>4, <5>1, <5>2
      <4>2. /\ hdr'[b].next = hdr[b].next
            /\ hdr[b].next # NULL => hdr[b].next # x /\ hdr[b].next # w
        <5>1. hdr[b].next # NULL => hdr[b].next \in OnList /\ b < hdr[b].next
          BY <1>1, <4>1, NextOnList
        <5> QED
          BY <1>1, <1>4, <1>6, <2>2, <3>4, <4>1, <5>1
      <4> QED
        BY <1>1, <1>6, <1>8, <2>1, <4>1, <4>2, NextOnList DEF PrevAgrees
    <3>5. CASE b # w /\ b # c /\ b # x
      <4>1. /\ b \in OnList /\ hdr'[b].next = hdr[b].next
            /\ hdr'[b].prev = hdr[b].prev
        BY <1>1, <1>6, <1>8, <3>5
      <4>2. b # free_list => hdr[b].prev # c /\ hdr[b].prev # w
        BY <1>1, <1>4, <2>1, <3>5, <4>1 DEF PrevAgrees
      <4>3. hdr[b].next # NULL => hdr[b].next # x /\ hdr[b].next # w
        BY <1>1, <1>4, <1>5, <2>1, <3>5, <4>1, NextOnList DEF PrevAgrees
      <4> QED
        BY <1>1, <1>6, <1>8, <2>1, <4>1, <4>2, <4>3, NextOnList, PrevOnList
        DEF PrevAgrees
    <3> QED
      BY <3>2, <3>3, <3>4, <3>5
  <2> QED
    BY <2>3, <2>4, <2>5 DEF Links
<1>12. Coalesced'
  <2>1. \A b \in OnList : End(b) \notin OnList
    BY <1>1 DEF Inv, Coalesced
  <2>2. \A b \in OnList : End(b) # w
    BY <1>1, <1>2, <1>3
  <2>3. \A b \in OnList \ {c} : End(b)' \notin OnList'
    BY <1>1, <1>7, <1>8, <2>1, <2>2
  <2>4. End(w)' \notin OnList'
    BY <1>1, <1>2, <1>7, <1>8, <2>1
  <2> QED
    BY <1>6, <1>8, <2>3, <2>4 DEF Coalesced
<1>13. Cursors' /\ Args'
  BY <1>1, <1>4, <1>6, <1>8 DEF Inv, Cursors, Args
<1> QED
  BY <1>9, <1>10, <1>11, <1>12, <1>13 DEF Inv

LEMMA SplitFaultInv == ASSUME Inv, SplitFault PROVE Inv'
<1>1. hdr' \in [Blocks' -> [size : Nat, next : Nat \cup {Poison},
                           prev : Nat \cup {Poison}]] /\ Blocks' = Blocks
  <2>1. cur \in Blocks /\ req \in Nat /\ hdr' = [hdr EXCEPT ![cur].size = req]
    BY DEF SplitFault, Inv, TypeOK, Cursors, OnList
  <2> QED
    BY <2>1 DEF Inv, TypeOK, Blocks
<1> QED
  BY <1>1 DEF SplitFault, Panic, Inv, TypeOK, Tiling, Links, Coalesced, Cursors,
              Args, PCs, limits, client, args

-----------------------------------------------------------------------------
\* merge_blocks absorbs the next block.

LEMMA MergeAdjacentInv == ASSUME Inv, MergeAdjacent PROVE Inv'
<1> PICK c, n, m : c = cur /\ n = hdr[cur].next /\ m = hdr[hdr[cur].next].next
  OBVIOUS
<1>1. /\ pc = "merge" /\ pc # "panic" /\ c \in OnList /\ c \in Nat \ {0}
      /\ OnList = Blocks \ held /\ OnList \subseteq Blocks
      /\ hdr[c].size \in Nat /\ Hdr \in Nat \ {0}
      /\ hdr[c].next = n /\ n = End(c) /\ c < n /\ n \in Nat \ {0} /\ n # c
  BY NextOnList, BlockFacts
  DEF MergeAdjacent, Adjacent, Inv, Cursors, OnList, InTransit
<1>2. /\ n \in OnList /\ hdr[n].size \in Nat /\ NULL = 0 /\ hdr[n].next = m
      /\ m \in Nat /\ m # n /\ m # c /\ (m # NULL => m \in OnList /\ n < m)
  <2>1. n \in OnList
    BY <1>1, NextOnList DEF NULL
  <2> QED
    BY <1>1, <2>1, NextOnList, BlockFacts DEF NULL
<1>3. /\ End(n) = n + Hdr + hdr[n].size
      /\ End(n) = c + Hdr + MergedSize(n)
      /\ MergedSize(n) \in Nat /\ n < End(n) /\ End(n) \in Nat
  BY <1>1, <1>2, BlockFacts DEF MergedSize
<1>4. /\ Blocks' = Blocks \ {n}
      /\ \A b \in Blocks' : hdr'[b].size = IF b = c THEN MergedSize(n)
                                           ELSE hdr[b].size
      /\ \A b \in Blocks' : hdr'[b].next = IF b = c THEN m ELSE hdr[b].next
      /\ \A b \in Blocks' : hdr'[b].prev = IF b = m THEN c ELSE hdr[b].prev
      /\ pc' = "merge" /\ cur' = c
      /\ UNCHANGED <<heap_top, free_list, held, aligned, req, fn, old, align>>
  BY DEF MergeAdjacent, Merged, Header, Blocks, limits, client, args
<1>5. /\ c \in Blocks' /\ End(c)' = End(n)
      /\ \A b \in Blocks' : b # c => End(b)' = End(b)
  BY <1>1, <1>3, <1>4 DEF End, PTR
<1>6. OnList' = OnList \ {n} /\ c \in OnList'
  BY <1>1, <1>2, <1>4 DEF OnList, InTransit
<1>7. TypeOK'
  <2>1. hdr' \in [Blocks' -> [size : Nat, next : Nat \cup {Poison},
                             prev : Nat \cup {Poison}]]
    BY <1>1, <1>2, <1>3 DEF MergeAdjacent, Merged, Header, Inv, TypeOK, Blocks
  <2>2. held \subseteq Blocks'
    BY <1>1, <1>2, <1>4 DEF Inv, TypeOK
  <2>3. null_store' \in BOOLEAN
    BY DEF MergeAdjacent, Inv, TypeOK
  <2> QED
    BY <1>4, <2>1, <2>2, <2>3
    DEF MergeAdjacent, Inv, TypeOK, PCs, limits, client, args
<1>8. Tiling'
  <2>1. Tiled
    BY <1>1 DEF Inv, Tiling
  <2>2. \A b \in Blocks' : HEAP_START <= b /\ End(b)' <= heap_top'
    BY <1>1, <1>2, <1>4, <1>5, <2>1 DEF Tiled
  <2>3. \A b, d \in Blocks' : b < d => End(b)' <= d
    <3> SUFFICES ASSUME NEW b \in Blocks', NEW d \in Blocks', b < d
                 PROVE  End(b)' <= d
      OBVIOUS
    <3>1. b \in Blocks /\ d \in Blocks /\ d # n
      BY <1>4
    <3>2. CASE b = c
      <4>1. n <= d /\ d \in Nat
        BY <1>1, <3>1, <3>2, BlockFacts
      <4>2. n < d
        BY <1>1, <3>1, <4>1
      <4> QED
        BY <1>1, <1>2, <1>5, <2>1, <3>1, <3>2, <4>2 DEF Tiled
    <3>3. CASE b # c
      BY <1>5, <2>1, <3>1, <3>3 DEF Tiled
    <3> QED
      BY <3>2, <3>3
  <2>4. heap_top' = HEAP_START \/ HEAP_START \in Blocks'
    BY <1>1, <1>2, <1>4, <2>1, HeapAssumption DEF Tiled
  <2>5. \A b \in Blocks' : End(b)' = heap_top' \/ End(b)' \in Blocks'
    <3> SUFFICES ASSUME NEW b \in Blocks'
                 PROVE  End(b)' = heap_top' \/ End(b)' \in Blocks'
      OBVIOUS
    <3>1. CASE b = c
      BY <1>1, <1>2, <1>3, <1>4, <1>5, <2>1, <3>1 DEF Tiled
    <3>2. CASE b # c
      <4>1. b \in Blocks /\ End(b)' = End(b) /\ b # n
        BY <1>4, <1>5, <3>2
      <4>2. End(b) # n
        BY <1>1, <3>2, <4>1, BlockFacts
      <4> QED
        BY <1>4, <2>1, <4>1, <4>2 DEF Tiled
    <3> QED
      BY <3>1, <3>2
  <2> QED
    BY <2>2, <2>3, <2>4, <2>5 DEF Tiling, Tiled
<1>9. Links'
  <2>1. HeadIsFirst /\ NextFollows /\ PrevAgrees
    BY <1>1 DEF Inv, Links
  <2>2. /\ \A b \in OnList : b \in Nat \ {0} /\ hdr[b].next \in Nat
        /\ OnList' \subseteq Blocks' /\ OnList' \subseteq OnList
    BY <1>1, <1>4, <1>6, NextOnList
  <2>6. \A b \in OnList : /\ hdr[b].next = n => b = c
                          /\ hdr[b].next # NULL /\ hdr[b].next = m => b = n
    <3>1. hdr[n].prev = c /\ (m # NULL => hdr[m].prev = n)
      BY <1>1, <1>2, <2>1 DEF PrevAgrees
    <3>2. \A b \in OnList : hdr[b].next # NULL => hdr[hdr[b].next].prev = b
      BY <2>1 DEF PrevAgrees
    <3>3. n # NULL
      BY <1>1, <1>2
    <3> QED
      BY <3>1, <3>2, <3>3
  <2>3. HeadIsFirst'
    <3>1. free_list \in OnList /\ free_list # n /\ free_list # m
      BY <1>1, <1>2, <2>1, <2>2 DEF HeadIsFirst
    <3> QED
      BY <1>4, <1>6, <2>1, <2>2, <3>1 DEF HeadIsFirst
  <2>4. NextFollows'
    <3>1. SUFFICES ASSUME NEW b \in OnList'
                   PROVE  Follows(OnList', b, hdr'[b].next)
      BY DEF NextFollows
    <3>2. Follows(OnList, c, n) /\ Follows(OnList, n, m)
      BY <1>1, <1>2, <2>1 DEF NextFollows
    <3>3. CASE b = c
      <4>1. Follows(OnList \ {n}, c, m)
        <5>1. \A d \in OnList \ {n} : d \in Nat /\ (d <= c \/ n < d)
          BY <1>1, <2>2, <3>2 DEF Follows
        <5>2. CASE m = NULL
          <6>1. \A d \in OnList \ {n} : d <= n
            BY <3>2, <5>2 DEF Follows
          <6> QED
            BY <1>1, <5>1, <5>2, <6>1 DEF Follows
        <5>3. CASE m # NULL
          <6>1. /\ m \in OnList \ {n} /\ c < m
                /\ \A d \in OnList \ {n} : d <= n \/ m <= d
            BY <1>1, <1>2, <3>2, <5>3 DEF Follows
          <6> QED
            BY <1>1, <5>1, <5>3, <6>1 DEF Follows
        <5> QED
          BY <5>2, <5>3
      <4> QED
        BY <1>4, <1>5, <1>6, <3>3, <4>1
    <3>4. CASE b # c
      <4>1. /\ b \in OnList /\ b # n /\ hdr'[b].next = hdr[b].next
            /\ Follows(OnList, b, hdr[b].next)
        BY <1>4, <1>6, <2>1, <2>2, <3>4 DEF NextFollows
      <4>2. hdr[b].next # n
        BY <2>6, <3>4, <4>1
      <4>3. Follows(OnList \ {n}, b, hdr[b].next)
        BY <4>1, <4>2 DEF Follows
      <4> QED
        BY <1>6, <4>1, <4>3
    <3> QED
      BY <3>3, <3>4
  <2>5. PrevAgrees'
    <3>1. SUFFICES ASSUME NEW b \in OnList'
                   PROVE  /\ hdr'[b].next # NULL => hdr'[hdr'[b].next].prev = b
                          /\ b # free_list =>
                               /\ hdr'[b].prev \in OnList'
                               /\ hdr'[hdr'[b].prev].next = b
      BY <1>4 DEF PrevAgrees
    <3>2. b \in OnList /\ b # n /\ b \in Blocks'
      BY <1>6, <2>2
    <3>3. hdr'[b].next # NULL => hdr'[hdr'[b].next].prev = b
      <4>1. CASE b = c
        BY <1>1, <1>2, <1>4, <4>1
      <4>2. CASE b # c
        <5>1. /\ hdr'[b].next = hdr[b].next
              /\ hdr[b].next # NULL =>
                   /\ hdr[b].next \in OnList /\ hdr[hdr[b].next].prev = b
                   /\ hdr[b].next # n /\ hdr[b].next # m
          <6>1. hdr'[b].next = hdr[b].next
            BY <1>4, <3>2, <4>2
          <6>2. hdr[b].next # NULL =>
                  hdr[b].next \in OnList /\ hdr[hdr[b].next].prev = b
            BY <1>1, <2>1, <3>2, NextOnList DEF PrevAgrees
          <6>3. hdr[b].next # NULL => hdr[b].next # n /\ hdr[b].next # m
            BY <2>6, <3>2, <4>2
          <6> QED
            BY <6>1, <6>2, <6>3
        <5> QED
          BY <1>1, <1>4, <5>1
      <4> QED
        BY <4>1, <4>2
    <3>4. ASSUME b # free_list
          PROVE  hdr'[b].prev \in OnList' /\ hdr'[hdr'[b].prev].next = b
      <4>1. CASE b = m
        BY <1>1, <1>4, <1>5, <1>6, <3>2, <4>1
      <4>2. CASE b # m
        <5>1. /\ hdr'[b].prev = hdr[b].prev /\ hdr[b].prev \in OnList
              /\ hdr[hdr[b].prev].next = b
          BY <1>4, <3>2, <3>4, <4>2, PrevOnList, <1>1
        <5>2. hdr[b].prev # n /\ hdr[b].prev # c
          BY <1>1, <1>2, <3>2, <4>2, <5>1
        <5> QED
          BY <1>1, <1>4, <1>6, <5>1, <5>2
      <4> QED
        BY <4>1, <4>2
    <3> QED
      BY <3>3, <3>4
  <2> QED
    BY <2>3, <2>4, <2>5 DEF Links
<1>10. Coalesced'
  <2>1. \A b \in OnList : End(b) \notin OnList \/ c <= b
    BY <1>1 DEF Inv, Coalesced
  <2> QED
    BY <1>1, <1>2, <1>4, <1>5, <1>6, <2>1 DEF Coalesced, NULL
<1>11. Cursors' /\ Args'
  BY <1>1, <1>4, <1>6 DEF Inv, Cursors, Args
<1> QED
  BY <1>7, <1>8, <1>9, <1>10, <1>11 DEF Inv

-----------------------------------------------------------------------------
\* Every step of the heap preserves the invariant.
LEMMA StepInv == ASSUME Inv, [Next]_vars PROVE Inv'
<1>1. CASE Call
  BY <1>1, CallInv
<1>2. CASE init_heap
  BY <1>2, init_heapInv
<1>3. CASE FindExact \/ FindSplit \/ SplitFault \/ FindNext \/ FindNone
  BY <1>3, FindExactInv, FindSplitInv, SplitFaultInv, FindNextInv, FindNoneInv
<1>4. CASE Extend \/ ExtendFail \/ Unlink
  BY <1>4, ExtendInv, ExtendFailInv, UnlinkInv
<1>5. CASE KreallocCopy \/ KreallocFault \/ KvallocAlign \/ KvallocFault
  BY <1>5, KreallocCopyInv, KreallocFaultInv, KvallocAlignInv, KvallocFaultInv
<1>6. CASE FreeFirst \/ FreeFront \/ FreeWalk \/ WalkStep \/ WalkInsert
  BY <1>6, FreeFirstInv, FreeFrontInv, FreeWalkInv, WalkStepInv, WalkInsertInv
<1>7. CASE MergeAdjacent \/ MergeNext \/ MergeDone
  BY <1>7, MergeAdjacentInv, MergeNextInv, MergeDoneInv
<1>8. CASE UNCHANGED vars
  BY <1>8 DEF vars, Inv, TypeOK, Tiling, Tiled, Links, HeadIsFirst,
     NextFollows, PrevAgrees, Follows, Coalesced, Cursors, Args, OnList,
     InTransit, Blocks, End, PTR
<1> QED
  BY <1>1, <1>2, <1>3, <1>4, <1>5, <1>6, <1>7, <1>8 DEF Next, Step

\* Every reachable state of the heap satisfies the inductive invariant.
THEOREM HeapInvariant == Spec => []Inv
<1>1. Init => Inv
  BY InitInv
<1>2. Inv /\ [Next]_vars => Inv'
  BY StepInv
<1> QED
  BY <1>1, <1>2, PTL DEF Spec

\* Every variable of heap.c keeps its type; in particular no link a walk
\* follows is the poison kmalloc leaves in the blocks it hands out.
THEOREM TypeCorrect == Spec => []TypeOK
  BY HeapInvariant, PTL DEF Inv

\* Blocks never overlap and never leave a gap, whatever the sizes.
THEOREM HeapTiled == Spec => []Tiling
  BY HeapInvariant, PTL DEF Inv

\* The free list is the address-ordered list of the blocks nobody owns.
THEOREM ListLinked == Spec => []Links
  BY HeapInvariant, PTL DEF Inv

\* merge_blocks leaves no two neighbouring free blocks.
THEOREM FreeBlocksCoalesced == Spec => []Coalesced
  BY HeapInvariant, PTL DEF Inv

\* The locals of kmalloc, kfree, krealloc and merge_blocks stay on the list.
THEOREM CursorsValid == Spec => []Cursors
  BY HeapInvariant, PTL DEF Inv

-----------------------------------------------------------------------------
\* No step of the heap resizes or absorbs a block that is owned before it.
LEMMA HeldStable ==
  ASSUME Inv, [Next]_vars
  PROVE  \A b \in held : b \in Blocks' /\ hdr'[b].size = hdr[b].size
<1> USE DEF Blocks
<1>1. held \subseteq Blocks /\ held \cap OnList = {}
  BY DEF Inv, TypeOK, OnList
<1>2. CASE UNCHANGED hdr
  BY <1>1, <1>2
<1>3. CASE FindSplit
  <2>1. cur \in OnList /\ PTR(cur) + req \notin Blocks
    <3>1. cur \in OnList /\ cur \in Blocks /\ pc # "panic"
      BY <1>3 DEF FindSplit, Inv, Cursors, OnList
    <3>2. cur < PTR(cur) + req /\ PTR(cur) + req < End(cur)
      <4>1. /\ cur \in Nat /\ hdr[cur].size \in Nat /\ Hdr \in Nat \ {0}
            /\ End(cur) = cur + Hdr + hdr[cur].size
        BY <3>1, BlockFacts
      <4>2. hdr[cur].size > req + Hdr /\ req \in Nat
        BY <1>3 DEF FindSplit, CanSplit, Inv, TypeOK
      <4> QED
        BY <4>1, <4>2 DEF PTR
    <3> QED
      BY <3>1, <3>2, BlockFacts DEF PTR, Inv, TypeOK
  <2> QED
    BY <1>1, <1>3, <2>1 DEF FindSplit, SplitHeaders, Header
<1>4. CASE SplitFault
  BY <1>1, <1>4 DEF SplitFault, Inv, Cursors
<1>5. CASE Extend
  BY <1>1, <1>5, BlockFacts DEF Extend, Header, Inv, Tiling, Tiled, TypeOK
<1>6. CASE Unlink
  BY <1>1, <1>6 DEF Unlink, Unlinked, Header
<1>7. CASE FreeFirst
  BY <1>1, <1>7 DEF FreeFirst, First, Header
<1>8. CASE FreeFront
  BY <1>1, <1>8 DEF FreeFront, Pushed, Header
<1>9. CASE WalkInsert
  BY <1>1, <1>9 DEF WalkInsert, Inserted, Header
<1>10. CASE MergeAdjacent
  <2>1. cur \in OnList /\ hdr[cur].next \in OnList
    <3>1. cur \in OnList /\ cur \in Blocks /\ pc # "panic"
      BY <1>10 DEF MergeAdjacent, Inv, Cursors, OnList
    <3>2. hdr[cur].next # NULL
      BY <1>10, <3>1, BlockFacts DEF MergeAdjacent, Adjacent, NULL
    <3> QED
      BY <3>1, <3>2, NextOnList
  <2> QED
    BY <1>1, <1>10, <2>1 DEF MergeAdjacent, Merged, Header
<1> QED
  BY <1>2, <1>3, <1>4, <1>5, <1>6, <1>7, <1>8, <1>9, <1>10
  DEF Next, Call, Step, kmalloc, krealloc, kvalloc, kfree, StartSearch,
      init_heap, FindExact, FindNext, FindNone, ExtendFail, KreallocCopy,
      KreallocFault, KvallocAlign, KvallocFault, FreeWalk, WalkStep,
      MergeNext, MergeDone, lists, vars

\* A region kvalloc has returned stays inside its block.
LEMMA AlignedStable ==
  ASSUME Inv, AlignedInside, UNCHANGED aligned, [Next]_vars
  PROVE  AlignedInside'
  BY HeldStable DEF Inv, TypeOK, AlignedInside, End, PTR

LEMMA KvallocAlignInside ==
  ASSUME Inv, AlignedInside, KvallocAlign
  PROVE  AlignedInside'
<1> PICK c, a, p2 : c = cur /\ a = align /\ p2 = AlignedPtr(PTR(cur), align)
  OBVIOUS
<1>1. /\ a \in Aligns /\ a \in Nat /\ req \in Nat /\ Offset(a) \in Nat
      /\ c \in Blocks /\ hdr[c].size = req /\ PTR(c) \in Nat
  BY HeapAssumption, AlignedPtrFacts
  DEF KvallocAlign, Inv, Args, Cursors, TypeOK, PTR, Blocks
<1>2. /\ p2 % a = 0 /\ p2 \in Nat /\ PTR(c) <= p2 - PtrSize
      /\ p2 <= PTR(c) + Offset(a)
  BY <1>1, AlignedPtrFacts
<1>3. p2 + (req - Offset(a)) <= PTR(c) + req
  BY <1>1, <1>2
<1>4. /\ UNCHANGED hdr
      /\ aligned' = [b \in DOMAIN aligned \cup {c} |->
                       IF b = c THEN [ptr |-> p2, size |-> req - Offset(a),
                                      align |-> a]
                       ELSE aligned[b]]
  BY DEF KvallocAlign, lists
<1> QED
  BY <1>1, <1>2, <1>3, <1>4 DEF AlignedInside, End, PTR

\* What kvalloc returns is aligned and inside its block, for every alignment
\* and for as long as the block is owned: copy_address_space's page tables
\* and exec's kernel stack stay page-aligned memory of their own.
THEOREM AlignedSafe == Spec => []AlignedInside
<1>1. Init => AlignedInside
  BY DEF Init, AlignedInside
<1>2. Inv /\ AlignedInside /\ [Next]_vars => AlignedInside'
  <2>1. SUFFICES ASSUME Inv, AlignedInside, [Next]_vars PROVE AlignedInside'
    OBVIOUS
  <2>2. CASE KvallocAlign
    BY <2>1, <2>2, KvallocAlignInside
  <2>3. CASE UNCHANGED aligned
    BY <2>1, <2>3, AlignedStable
  <2> QED
    BY <2>1, <2>2, <2>3
    DEF Next, Call, Step, kmalloc, krealloc, kvalloc, kfree, init_heap,
        FindExact, FindSplit, SplitFault, FindNext, FindNone, Extend,
        ExtendFail, Unlink, KreallocCopy, KreallocFault, KvallocFault,
        FreeFirst, FreeFront, FreeWalk, WalkStep, WalkInsert, MergeAdjacent,
        MergeNext, MergeDone, client, vars
<1> QED
  BY <1>1, <1>2, HeapInvariant, PTL DEF Spec

-----------------------------------------------------------------------------
(* The refinement                                                          *)

\* heap_end is set once, and the top never passes it.
Limits == /\ pc = "boot" => heap_top = HEAP_START
          /\ pc # "boot" => heap_end = HeapEnd /\ heap_top <= heap_end

LEMMA HeapEndNat == HeapEnd \in Nat /\ HEAP_START \in Nat /\ HEAP_START <= HeapEnd
<1>1. HeapSize * PageSize \in Nat
  BY HeapAssumption
<1> QED
  BY <1>1, HeapAssumption DEF HeapEnd

LEMMA LimitsInvariant == Spec => []Limits
<1>1. Init => Limits
  BY DEF Init, Limits
<1>2. Inv /\ Limits /\ [Next]_vars => Limits'
  <2> SUFFICES ASSUME Inv, Limits, [Next]_vars PROVE Limits'
    OBVIOUS
  <2>1. CASE init_heap
    BY <2>1, HeapEndNat DEF init_heap, Limits
  <2>2. CASE Extend
    <3>1. heap_top' <= heap_end /\ pc' # "boot" /\ pc # "boot"
      BY <2>2, HeapAssumption
      DEF Extend, ReturnBlock, Return, PTR, Inv, TypeOK
    <3> QED
      BY <2>2, <3>1 DEF Extend, Limits
  <2>3. CASE UNCHANGED <<heap_top, heap_end>> /\ (pc' = "boot" <=> pc = "boot")
    BY <2>3 DEF Limits
  <2> QED
    BY <2>1, <2>2, <2>3
    DEF Next, Call, Step, kmalloc, krealloc, kvalloc, kfree, StartSearch,
        FindExact, FindSplit, SplitFault, FindNext, FindNone, ExtendFail,
        Unlink, KreallocCopy, KreallocFault, KvallocAlign, KvallocFault,
        FreeFirst, FreeFront, FreeWalk, WalkStep, WalkInsert, MergeAdjacent,
        MergeNext, MergeDone, ReturnBlock, Return, Panic, limits, vars
<1> QED
  BY <1>1, <1>2, HeapInvariant, PTL DEF Spec

\* The region a block stands for.
Region(b) == [ptr |-> PTR(b), size |-> hdr[b].size]

\* The regions of the blocks a step leaves with their owners do not change.
LEMMA RegionsStable ==
  ASSUME Inv, [Next]_vars
  PROVE  \A b \in held : Region(b)' = Region(b)
  BY HeldStable DEF Region, PTR

\* No two blocks' regions overlap, and they start inside the heap.
RegionsDisjoint ==
  /\ \A b, c \in Blocks : b # c => Abstract!Disjoint(Region(b), Region(c))
  /\ \A b \in Blocks : PTR(b) \in HEAP_START .. HeapEnd

Running == Inv /\ Limits /\ pc # "panic" /\ pc # "boot"

LEMMA DisjointRegions == Running => RegionsDisjoint
<1> SUFFICES ASSUME Inv, Limits, pc # "panic", pc # "boot"
             PROVE  RegionsDisjoint
  BY DEF Running
<1>1. ASSUME NEW b \in Blocks, NEW c \in Blocks, b < c
      PROVE  /\ Abstract!Disjoint(Region(b), Region(c))
             /\ Abstract!Disjoint(Region(c), Region(b))
  <2>1. End(b) <= c /\ End(b) \in Nat /\ c \in Nat /\ Hdr \in Nat \ {0}
    BY <1>1, BlockFacts
  <2> QED
    BY <2>1 DEF Abstract!Disjoint, Region, PTR, End
<1>2. \A b \in Blocks : b \in Nat
  BY BlockFacts
<1>3. ASSUME NEW b \in Blocks PROVE PTR(b) \in HEAP_START .. HeapEnd
  <2>1. /\ b \in Nat /\ Hdr \in Nat /\ hdr[b].size \in Nat
        /\ End(b) = b + Hdr + hdr[b].size
    BY BlockFacts
  <2>2. HEAP_START <= b /\ End(b) <= heap_top /\ heap_top <= HeapEnd
    BY DEF Inv, Tiling, Tiled, Limits
  <2> QED
    BY <2>1, <2>2, HeapEndNat DEF PTR, Inv, TypeOK
<1> QED
  BY <1>1, <1>2, <1>3 DEF RegionsDisjoint

\* Extend and Unlink answer the pending request.
LEMMA GrantStep ==
  ASSUME Inv, Inv', Limits', [Next]_vars, NEW b \in Blocks', b \notin held,
         held' = held \cup {b}, hdr'[b].size = req,
         pc \in {"unlink", "extend"}, pc' \in {"idle", "copy", "align"}
  PROVE  Abstract!Next
<1> DEFINE r == [ptr |-> PTR(b), size |-> req]
<1>1. HeapRegions' = HeapRegions \cup {r}
  <2>1. Region(b)' = r
    BY DEF Region, PTR
  <2>2. /\ HeapRegions = {Region(c) : c \in held}
        /\ HeapRegions' = {Region(c)' : c \in held'}
    BY DEF HeapRegions, Region
  <2>3. {Region(c)' : c \in held} = {Region(c) : c \in held}
    BY RegionsStable
  <2> QED
    BY <2>1, <2>2, <2>3
<1>4. RegionsDisjoint'
  <2>1. Running'
    BY DEF Running
  <2> QED
    BY <2>1, DisjointRegions, PTL
<1>2. \A s \in HeapRegions : Abstract!Disjoint(r, s)
  <2>1. SUFFICES ASSUME NEW c \in held PROVE Abstract!Disjoint(r, Region(c))
    BY DEF HeapRegions, Region
  <2>2. c \in Blocks' /\ b # c
    BY HeldStable
  <2>3. Abstract!Disjoint(Region(b)', Region(c)')
    BY <1>4, <2>2 DEF RegionsDisjoint, Abstract!Disjoint, Region, PTR
  <2> QED
    BY <2>3, RegionsStable DEF Region, PTR, Abstract!Disjoint
<1>3. PTR(b) \in HEAP_START .. HeapEnd
  BY <1>4 DEF RegionsDisjoint, PTR
<1>5. /\ PendingRequest = req /\ PendingRequest' = -1 /\ req # -1
      /\ pc # "panic" /\ pc' # "panic"
  BY DEF PendingRequest, Inv, TypeOK
<1> QED
  BY <1>1, <1>2, <1>3, <1>5
  DEF Abstract!Next, Abstract!Grant, Abstract!NoRequest

\* kfree, and krealloc once it has copied, give a region back.
LEMMA ReleaseStep ==
  ASSUME Inv, [Next]_vars, NEW b \in held, held' = held \ {b}, UNCHANGED hdr,
         pc \in {"idle", "copy"}, pc' = "free"
  PROVE  Abstract!Next
<1>1. /\ HeapRegions = {Region(c) : c \in held}
      /\ HeapRegions' = {Region(c) : c \in held \ {b}}
  BY DEF HeapRegions, Region, PTR
<1>2. \A c \in held \ {b} : Region(c) # Region(b)
  <2>1. \A c \in held : c \in Nat /\ b \in Nat /\ Hdr \in Nat
    BY HeapAssumption DEF Inv, TypeOK, Blocks
  <2> QED
    BY <2>1 DEF Region, PTR
<1>3. Region(b) \in HeapRegions /\ HeapRegions' = HeapRegions \ {Region(b)}
  BY <1>1, <1>2
<1>4. /\ PendingRequest = -1 /\ PendingRequest' = -1
      /\ pc # "panic" /\ pc' # "panic"
  BY DEF PendingRequest
<1> QED
  BY <1>3, <1>4 DEF Abstract!Next, Abstract!Release, Abstract!NoRequest

\* A call that needs memory is a request.
LEMMA RequestStep ==
  ASSUME NEW f, NEW n \in Requests, StartSearch(f, n), UNCHANGED <<hdr, held>>
  PROVE  Abstract!Next
<1>1. /\ PendingRequest = -1 /\ PendingRequest' = n
      /\ pc # "panic" /\ pc' # "panic" /\ HeapRegions' = HeapRegions
  BY DEF StartSearch, PendingRequest, HeapRegions, PTR
<1> QED
  BY <1>1 DEF Abstract!Next, Abstract!Request, Abstract!NoRequest

\* A step that keeps the owners' blocks and the request is invisible.
LEMMA StutterStep ==
  ASSUME Inv, [Next]_vars, UNCHANGED held,
         PendingRequest' = PendingRequest, pc # "panic", pc' # "panic"
  PROVE  UNCHANGED <<HeapRegions, PendingRequest, pc = "panic">>
<1>1. /\ HeapRegions = {Region(c) : c \in held}
      /\ HeapRegions' = {Region(c)' : c \in held}
  BY DEF HeapRegions, Region
<1>2. HeapRegions' = HeapRegions
  BY <1>1, RegionsStable
<1> QED
  BY <1>2

LEMMA HaltStep ==
  ASSUME Inv, [Next]_vars, UNCHANGED held, pc # "panic", pc' = "panic"
  PROVE  Abstract!Next
<1>1. /\ HeapRegions = {Region(c) : c \in held}
      /\ HeapRegions' = {Region(c)' : c \in held}
  BY DEF HeapRegions, Region
<1>2. HeapRegions' = HeapRegions /\ PendingRequest' = -1
  BY <1>1, RegionsStable DEF PendingRequest
<1> QED
  BY <1>2 DEF Abstract!Next, Abstract!Halt, Abstract!NoRequest

LEMMA CallRefines == ASSUME Inv, Call PROVE Abstract!Next
<1>1. ASSUME NEW s \in Sizes, kmalloc(s) PROVE Abstract!Next
  BY <1>1, RequestStep DEF kmalloc, Requests, lists, client
<1>2. ASSUME NEW b \in held, NEW s \in Sizes, krealloc(b, s) PROVE Abstract!Next
  BY <1>2, RequestStep DEF krealloc, Requests, lists, client
<1>3. ASSUME NEW s \in Sizes, NEW a \in Aligns, kvalloc(s, a) PROVE Abstract!Next
  BY <1>3, RequestStep DEF kvalloc, Requests, lists, client
<1>4. ASSUME NEW b \in held, kfree(b) PROVE Abstract!Next
  BY <1>4, ReleaseStep DEF kfree, lists, Next, Call
<1> QED
  BY <1>1, <1>2, <1>3, <1>4 DEF Call

LEMMA NextRefines ==
  ASSUME Inv, Inv', Limits', [Next]_vars
  PROVE  [Abstract!Next]_(Abstract!vars)
<1> USE DEF Abstract!vars
<1>1. CASE Call
  BY <1>1, CallRefines
<1>2. CASE Extend
  <2>1. heap_top \in Blocks' /\ hdr'[heap_top].size = req
    BY <1>2 DEF Extend, Header, Blocks
  <2>2. heap_top \notin held
    BY <1>2, BlockFacts DEF Extend, Inv, TypeOK, Tiling, Tiled
  <2>3. pc' \in {"idle", "copy", "align"}
    BY <1>2 DEF Extend, ReturnBlock, Return
  <2> QED
    BY <1>2, <2>1, <2>2, <2>3, GrantStep DEF Extend
<1>3. CASE Unlink
  <2>1. cur \in Blocks' /\ hdr'[cur].size = req /\ cur \notin held
    BY <1>3 DEF Unlink, Unlinked, Header, Blocks, Inv, Cursors, OnList
  <2>2. pc' \in {"idle", "copy", "align"}
    BY <1>3 DEF Unlink, ReturnBlock, Return
  <2> QED
    BY <1>3, <2>1, <2>2, GrantStep DEF Unlink
<1>4. CASE KreallocCopy
  BY <1>4, ReleaseStep DEF KreallocCopy, lists, Inv, Cursors
<1>5. CASE SplitFault \/ ExtendFail \/ KreallocFault \/ KvallocFault
  BY <1>5, HaltStep
  DEF SplitFault, ExtendFail, KreallocFault, KvallocFault, Panic, client
<1>6. CASE UNCHANGED vars
  BY <1>6 DEF vars, HeapRegions, PendingRequest, PTR
<1>7. CASE \/ init_heap \/ FindExact \/ FindSplit \/ FindNext \/ FindNone
           \/ KvallocAlign \/ FreeFirst \/ FreeFront \/ FreeWalk \/ WalkStep
           \/ WalkInsert \/ MergeAdjacent \/ MergeNext \/ MergeDone
  <2>1. /\ UNCHANGED held /\ pc # "panic" /\ pc' # "panic"
        /\ PendingRequest' = PendingRequest
    BY <1>7
    DEF init_heap, FindExact, FindSplit, FindNext, FindNone, KvallocAlign,
        FreeFirst, FreeFront, FreeWalk, WalkStep, WalkInsert, MergeAdjacent,
        MergeNext, MergeDone, Return, client, args, PendingRequest
  <2> QED
    BY <2>1, StutterStep
<1> QED
  BY <1>1, <1>2, <1>3, <1>4, <1>5, <1>6, <1>7 DEF Next, Step

\* kmalloc, krealloc, kvalloc and kfree, whatever they do inside, behave
\* towards their clients as Allocator promises.
THEOREM HeapImplementsAllocator == Spec => ImplementsAllocator
<1>1. Init => Abstract!Init
  BY DEF Init, Abstract!Init, HeapRegions, PendingRequest, Abstract!NoRequest
<1>2. Inv /\ Inv' /\ Limits' /\ [Next]_vars => [Abstract!Next]_(Abstract!vars)
  BY NextRefines
<1> QED
  BY <1>1, <1>2, HeapInvariant, LimitsInvariant, PTL
  DEF Spec, ImplementsAllocator, Abstract!Spec
=============================================================================
