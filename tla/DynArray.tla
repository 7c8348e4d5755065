------------------------------ MODULE DynArray ------------------------------
(***************************************************************************)
(* The arrays of src/kernel/include/types/dyn_array.h: the macros, on an   *)
(* array's elements, its size and the bytes that were allocated for it.    *)
(***************************************************************************)
EXTENDS Naturals, Sequences

PtrSize == 8

\* In the kernel's bss.
Uninitialized == [items |-> <<>>, size |-> 0, bytes |-> 0]

INIT_DYN_ARRAY(size) == [items |-> <<>>, size |-> size, bytes |-> PtrSize * size]

\* krealloc to twice as many bytes as the array has elements.
DYN_ARRAY_ADD(array, value) ==
  LET grows == Len(array.items) + 1 >= array.size
      size == IF grows THEN 2 * array.size ELSE array.size
  IN [items |-> Append(array.items, value), size |-> size,
      bytes |-> IF grows THEN size ELSE array.bytes]

\* No element lies behind what was allocated.
Fits(array) == PtrSize * Len(array.items) <= array.bytes
=============================================================================
