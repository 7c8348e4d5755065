---------------------------- MODULE AddressSpace ----------------------------
(***************************************************************************)
(* The calls of Paging in the order the kernel makes them, from            *)
(* kernel_main to the first process: the heap and the framebuffer are      *)
(* mapped, load_elf64 maps the executable, and exec makes an address       *)
(* space, maps the user stack inside it, returns to its own space and      *)
(* enters user code.  Paging allows any order; here the question is what   *)
(* user code sees at the end.  A loop over pages may take them in any      *)
(* order.  The other statements of exec are in Proc.                       *)
(***************************************************************************)
EXTENDS Paging

CONSTANT StackPages     \* the pages of USR_STACK; they overlap the heap's

ASSUME AddressSpaceAssumption ==
  /\ StackPages \subseteq UserPages
  /\ {HeapPages, DevicePages, StackPages, UserPages \ StackPages} \cap {{}} = {}

VARIABLES at,           \* the loop or call the kernel has reached
          left          \* pages its loop has still to map

bootVars == <<vars, at, left>>

BootInit == Init /\ at = "init_heap" /\ left = HeapPages

\* The frame stack is filled and paging switched on.
Early == ((Fill /\ UNCHANGED pagingVars) \/ init_paging) /\ UNCHANGED <<at, left>>

\* A page of a loop is done; the last one leads to the loop over pages at t.
Finish(v, t, pages) ==
  IF left = {v} THEN at' = t /\ left' = pages
                ELSE at' = at /\ left' = left \ {v}

init_heap ==
  \E v \in left : at = "init_heap" /\ kalloc_f(v, FALSE)
                  /\ Finish(v, "framebuffer", DevicePages)
framebuffer ==
  \E v \in left : at = "framebuffer" /\ map_framebuffer(v)
                  /\ Finish(v, "load_elf64", UserPages \ StackPages)
load_elf64 ==
  \E v \in left : at = "load_elf64" /\ kalloc_f(v, TRUE)
                  /\ Finish(v, "copy_space", {})
map_stack ==
  \E v \in left : at = "map_stack" /\ kalloc_f(v, TRUE)
                  /\ Finish(v, "set_space_2", {})

\* exec's calls, which reach t.
Reach(t, pages) == at' = t /\ left' = pages
exec ==
  \/ at = "copy_space" /\ (\E v \in HeapPages : copy_address_space(v))
     /\ Reach("set_space_1", {})
  \/ at = "set_space_1" /\ (\E x \in spaces : set_address_space(x))
     /\ Reach("map_stack", StackPages)
  \/ at = "set_space_2" /\ set_address_space(kernel_space) /\ Reach("set_space_3", {})
  \/ at = "set_space_3" /\ (\E x \in spaces : set_address_space(x)) /\ Reach("user", {})

BootNext == Early \/ init_heap \/ framebuffer \/ load_elf64 \/ map_stack \/ exec

BootSpec == BootInit /\ [][BootNext]_bootVars

-----------------------------------------------------------------------------
(* Properties                                                              *)

\* The pages user code may use: each of the four entries has the flag.
Allowed(f, i) ==
  IF f # NoFrame /\ mem[f][i].p /\ mem[f][i].user THEN mem[f][i].to ELSE NoFrame
Reachable ==
  {v \in Pages :
     Allowed(Allowed(Allowed(Allowed(cr3, v[1]), v[2]), v[3]), v[4]) # NoFrame}

\* User code reaches its own pages, its stack and the framebuffer, with the
\* translations the tables give, and nothing else: neither the heap pages and
\* low pages that share tables with them, nor the tables in the window.  mapf
\* gives every table above a page the flags of that page, so this depends on
\* what is mapped last; and the pages of the heap that become stack stay in
\* the TLB until CR3 is loaded.
UserReaches ==
  at = "user" => stale = {} /\ Reachable = UserPages \cup DevicePages
=============================================================================
