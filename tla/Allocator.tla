----------------------------- MODULE Allocator -----------------------------
(***************************************************************************)
(* What a memory allocator promises its clients: between a request and its *)
(* answer nothing is handed out; the answer is a region of exactly the     *)
(* requested size that overlaps no region a client still owns; a region    *)
(* stays as it is until its owner gives it back; and a request that cannot *)
(* be served stops the system rather than returning a bad region.          *)
(***************************************************************************)
EXTENDS Integers

CONSTANTS Addrs,    \* addresses a region may start at
          Lengths   \* sizes a client may request

VARIABLES regions,  \* the regions clients own: records [ptr, size]
          want,     \* the size being requested, or NoRequest
          halted    \* the system has panicked

vars == <<regions, want, halted>>

NoRequest == -1

Region == [ptr : Addrs, size : Lengths]

\* Two regions share no byte and are not the same pointer.
Disjoint(r, s) == \/ r.ptr + r.size < s.ptr
                  \/ s.ptr + s.size < r.ptr

Init == regions = {} /\ want = NoRequest /\ halted = FALSE

\* A client asks for n bytes.
Request(n) == /\ ~halted /\ want = NoRequest
              /\ want' = n
              /\ UNCHANGED <<regions, halted>>

\* The allocator answers with a fresh region at p.
Grant(p) == LET r == [ptr |-> p, size |-> want] IN
            /\ ~halted /\ want # NoRequest
            /\ \A s \in regions : Disjoint(r, s)
            /\ regions' = regions \cup {r}
            /\ want' = NoRequest
            /\ UNCHANGED halted

\* A client gives a region back.
Release(r) == /\ ~halted /\ want = NoRequest
              /\ regions' = regions \ {r}
              /\ UNCHANGED <<want, halted>>

\* A request cannot be served, or the heap touches memory it does not have.
Halt == /\ ~halted
        /\ halted' = TRUE
        /\ want' = NoRequest
        /\ UNCHANGED regions

Next == \/ \E n \in Lengths : Request(n)
        \/ \E p \in Addrs : Grant(p)
        \/ \E r \in regions : Release(r)
        \/ Halt

Spec == Init /\ [][Next]_vars
=============================================================================
