-------------------------------- MODULE Pmm --------------------------------
(***************************************************************************)
(* The physical memory manager, src/kernel/src/mem/pmm.c, and the loop of  *)
(* kernel_main that fills it from the loader's memory map: a stack of free *)
(* frames at a fixed address, popped by falloc and pushed by               *)
(* pmm_mark_frame.  Nothing calls ffree, so it is left out.                *)
(***************************************************************************)
EXTENDS Integers, Sequences

CONSTANTS FrameSize,  \* 4096
          LowLimit,   \* 0x13ff000: nothing at or below is handed out
          MemoryMap   \* bootinfo->memory: sequence of [start, end, type]

ASSUME PmmAssumption ==
  /\ FrameSize \in Nat \ {0}
  /\ LowLimit \in Nat
  /\ MemoryMap \in Seq([start : Nat, end : Nat, type : Nat])

Usable(r) == MemoryMap[r].type = 1

\* The frames kernel_main's loop takes from a region.  Its bound is inclusive
\* and the loader's end is not (loader.c:81), so the frame that starts where
\* the region ends is one of them, whatever is there.
RegionFrames(r) ==
  {f \in MemoryMap[r].start .. MemoryMap[r].end :
     /\ f > LowLimit
     /\ \E k \in 0 .. f : f = MemoryMap[r].start + k * FrameSize}

\* The loop takes no frame from two regions.  Nothing in the code sees to it:
\* of two usable regions that touch, both give the frame they touch at.
RegionsApart ==
  \A q, r \in DOMAIN MemoryMap :
    Usable(q) /\ Usable(r) /\ q # r => RegionFrames(q) \cap RegionFrames(r) = {}

VARIABLES stack,       \* contents of the array at PMM_STACK_ADDRESS
          esp,         \* index of the first free slot
          stack_size,  \* high-water mark, used for a log line only
          region,      \* kernel_main's i, counted from 1
          addr,        \* kernel_main's addr inside the region
          phase        \* where the boot code is

pmmVars == <<stack, esp, stack_size, region, addr>>

\* stack[esp] = frame in C; slots above esp keep what they held.
Stored(frame) ==
  [i \in DOMAIN stack \cup {esp} |-> IF i = esp THEN frame ELSE stack[i]]

PmmInit ==
  /\ stack = [i \in {} |-> 0]
  /\ esp = 0
  /\ stack_size = 0
  /\ region = 1
  /\ addr = IF MemoryMap = <<>> THEN 0 ELSE MemoryMap[1].start
  /\ phase = "mmap"

pmm_mark_frame(frame) ==
  /\ stack' = Stored(frame)
  /\ esp' = esp + 1
  /\ stack_size' = stack_size + 1

\* The frame falloc pops when e frames are left; with none left the read of
\* stack[-1] is a page fault.
Top(e) == stack[e - 1]

-----------------------------------------------------------------------------
(* kernel_main's loop over the memory map                                  *)

InRegion == addr <= MemoryMap[region].end

AboveLimit == addr > LowLimit

\* One iteration of the inner loop.
MarkFrame ==
  /\ phase = "mmap" /\ region <= Len(MemoryMap)
  /\ Usable(region) /\ InRegion
  /\ IF AboveLimit
     THEN pmm_mark_frame(addr)
     ELSE UNCHANGED <<stack, esp, stack_size>>
  /\ addr' = addr + FrameSize
  /\ UNCHANGED <<region, phase>>

NextRegion ==
  /\ phase = "mmap" /\ region <= Len(MemoryMap)
  /\ ~(Usable(region) /\ InRegion)
  /\ region' = region + 1
  /\ addr' = IF region < Len(MemoryMap) THEN MemoryMap[region + 1].start ELSE addr
  /\ UNCHANGED <<stack, esp, stack_size, phase>>

MapDone ==
  /\ phase = "mmap" /\ region > Len(MemoryMap)
  /\ phase' = "paging"
  /\ UNCHANGED pmmVars

Fill == MarkFrame \/ NextRegion \/ MapDone

-----------------------------------------------------------------------------
(* Properties                                                              *)

\* The frames that can still be handed out.
Free == {stack[i] : i \in 0 .. esp - 1}

\* No frame is on the stack twice: falloc never returns one frame to two
\* callers.
FreeDistinct == \A i, j \in 0 .. esp - 1 : stack[i] = stack[j] => i = j

\* No frame the loader, the kernel's image or the static tables are in is ever
\* handed out.
FreeAbove == \A f \in Free : f > LowLimit

\* What the test of a region's type is for: every frame on the stack lies in
\* memory the firmware calls available, from its first byte to its last.
FreeUsable ==
  \A f \in Free : \E r \in DOMAIN MemoryMap :
    Usable(r) /\ MemoryMap[r].start <= f /\ f + FrameSize <= MemoryMap[r].end
=============================================================================
