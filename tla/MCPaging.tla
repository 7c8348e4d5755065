------------------------------ MODULE MCPaging ------------------------------
(* Tables of three entries: slot 2 of the PML4 is the recursive one, so     *)
(* pages can share every table, all but the PT, or none.  Frames 0..5 are   *)
(* identity-mapped and hold the static tables, 6 is the framebuffer, and    *)
(* the memory map leaves 7..14 to the frame stack, of which 14 is the one   *)
(* behind its region.  One page of the heap is also the user stack.  The    *)
(* calls come in any order, which is the order "any", or in the kernel's.   *)
EXTENDS AddressSpace

MCMap == <<[start |-> 0, end |-> 4, type |-> 1],
           [start |-> 15, end |-> 16, type |-> 2],
           [start |-> 4, end |-> 14, type |-> 1]>>

MCPTs == <<4, 5>>
MCHeapPages == {<<0, 0, 2, 0>>, <<0, 0, 2, 2>>}
MCUserPages == {<<0, 0, 2, 1>>, <<0, 0, 2, 2>>}
MCStackPages == {<<0, 0, 2, 2>>}
MCDevicePages == {<<1, 0, 0, 1>>}

\* Calls in any order stop when that many pages are outdated.
MaxStale == 2

MCInit == BootInit \/ (Init /\ at = "any" /\ left = {})
MCNext == BootNext \/ (/\ at = "any" /\ Cardinality(stale) < MaxStale
                       /\ Next /\ UNCHANGED <<at, left>>)
MCSpec == MCInit /\ [][MCNext]_bootVars
=============================================================================
