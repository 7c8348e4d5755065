-------------------------------- MODULE Pic --------------------------------
(***************************************************************************)
(* setup_interrupts (src/kernel/src/int/interrupts.c): the two 8259s are   *)
(* programmed word by word, and the table of gates is filled and loaded.   *)
(* Interrupts takes what this module shows to be its starting point.       *)
(***************************************************************************)
EXTENDS Integers, TLC

CONSTANT BiosMasks  \* the masks [A, B] that the controllers may be found with

ASSUME MasksAssumption == BiosMasks \subseteq [A : 0 .. 255, B : 0 .. 255]

VARIABLES bios,      \* the masks the firmware left
          pic,       \* the controllers
          idt,       \* the present idt_entries, once lidt has been told of them
          handlers   \* the interrupt_handlers that are not NULL

picVars == <<bios, pic, idt, handlers>>

Weight(k) == <<1, 2, 4, 8, 16, 32, 64, 128>>[k + 1]
Bit(v, k) == (v \div Weight(k)) % 2
Or(v, w) ==
  LET B(k) == IF Bit(v, k) = 1 \/ Bit(w, k) = 1 THEN Weight(k) ELSE 0
  IN  B(0) + B(1) + B(2) + B(3) + B(4) + B(5) + B(6) + B(7)

-----------------------------------------------------------------------------
(* An 8259.  A command with bit 4 set begins its initialisation and forgets *)
(* the mask; the next words on the data port are the vectors' base, the     *)
(* cascade and, if bit 0 had been set, the mode; every later one is a mask. *)

Uninitialised(mask) ==
  [awaits |-> "mask", mode_follows |-> 0, base |-> 8, cascade |-> 0,
   x86 |-> 1, mask |-> mask]

CommandWord(chip, v) ==
  IF Bit(v, 4) = 0 THEN chip
  ELSE [awaits |-> "base", mode_follows |-> Bit(v, 0), base |-> chip.base,
        cascade |-> chip.cascade, x86 |-> 0, mask |-> 0]
DataWord(chip, v) ==
  CASE chip.awaits = "base"    -> [chip EXCEPT !.base = 8 * (v \div 8), !.awaits = "cascade"]
    [] chip.awaits = "cascade" ->
         [chip EXCEPT !.cascade = v, !.awaits = IF chip.mode_follows = 1 THEN "mode" ELSE "mask"]
    [] chip.awaits = "mode"    -> [chip EXCEPT !.x86 = Bit(v, 0), !.awaits = "mask"]
    [] OTHER                   -> [chip EXCEPT !.mask = v]

\* A port: the controller, and 1 for its data port.
PIC_A == <<"A", 0>>
PIC_A_DATA == <<"A", 1>>
PIC_B == <<"B", 0>>
PIC_B_DATA == <<"B", 1>>

outb(chips, port, v) ==
  [chips EXCEPT ![port[1]] = IF port[2] = 0 THEN CommandWord(@, v) ELSE DataWord(@, v)]

\* Cascade mode, the offsets, where the slave is, 8086 mode; and the masks.
Wired(chips) ==
  LET both(c, a, b, v, w) == outb(outb(c, a, v), b, w)
      commanded == both(chips, PIC_A, PIC_B, \h11, \h11)
      offset    == both(commanded, PIC_A_DATA, PIC_B_DATA, \h20, \h28)
      told      == both(offset, PIC_A_DATA, PIC_B_DATA, 4, 2)
  IN  both(told, PIC_A_DATA, PIC_B_DATA, 1, 1)
Restored(chips, masks) ==
  outb(outb(chips, PIC_A_DATA, masks.A.mask), PIC_B_DATA, masks.B.mask)
PIC1_mask_irq(chips, irq_mask) == outb(chips, PIC_A_DATA, Or(chips.A.mask, irq_mask))
PIC2_mask_irq(chips, irq_mask) == outb(chips, PIC_B_DATA, Or(chips.B.mask, irq_mask))

\* The masks are those before the first command forgot them; and not so.
Forgotten(chips) == Restored(Wired(chips), Wired(chips))
Masked(chips) == Restored(Wired(chips), chips)

setup_pic == pic' = PIC2_mask_irq(PIC1_mask_irq(Masked(pic), \hF8), \h2F)

-----------------------------------------------------------------------------
(* The gates                                                               *)

\* 0x8E is an interrupt gate, 0xEE one that user code may call.
idt_descriptor(stub, flags) == [stub |-> stub, type_attr |-> flags]
set_gate(table, num, stub, flags) ==
  [n \in {num} \cup DOMAIN table |-> IF n = num THEN idt_descriptor(stub, flags) ELSE table[n]]
Gates ==
  [v \in 0 .. 47 |-> idt_descriptor(IF v < 32 THEN <<"isr", v>> ELSE <<"irq", v - 32>>, \h8E)]

set_irq_handler(table, interrupt, handler) ==
  IF interrupt > 15 THEN table ELSE (interrupt + 32 :> handler) @@ table
set_isr_handler(table, interrupt, handler) == (interrupt :> handler) @@ table

setup_idt ==
  /\ idt' = set_gate(Gates, 127, <<"isr", 127>>, \hEE)
  /\ handlers' = set_irq_handler(set_isr_handler(handlers, 127, "syscall_handler"),
                                 0, "irq0_listener")

\* setup_interrupts; idt_load ends in sti.
setup_interrupts == setup_pic /\ setup_idt /\ UNCHANGED bios

PicInit ==
  /\ bios \in BiosMasks
  /\ pic = [A |-> Uninitialised(bios.A), B |-> Uninitialised(bios.B)]
  /\ idt = <<>> /\ handlers = <<>>

-----------------------------------------------------------------------------
(* Where a request ends up                                                 *)

Open(i) ==
  IF i < 8 THEN Bit(pic.A.mask, i) = 0
  ELSE Bit(pic.B.mask, i - 8) = 0 /\ Bit(pic.A.mask, 2) = 0
Vector(i) == IF i < 8 THEN pic.A.base + i ELSE pic.B.base + i - 8
Arrives(n, stub) == n \in DOMAIN idt /\ idt[n].stub = stub
=============================================================================
