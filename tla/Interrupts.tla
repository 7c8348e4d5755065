----------------------------- MODULE Interrupts -----------------------------
(***************************************************************************)
(* Interrupts, src/kernel/src/int: the stubs of interrupts.asm, the C      *)
(* handlers of interrupts.c, and the pair of 8259 controllers they talk    *)
(* to.  The code that is interrupted is any code: Code is the set of       *)
(* contexts (register files) it can have.  A handler leaves the saved      *)
(* registers alone: Proc, whose timer handler does not, is shown to        *)
(* implement this module.                                                  *)
(***************************************************************************)
EXTENDS Integers, Sequences

CONSTANTS Code,   \* contexts of the code outside handlers
          Lines,  \* IRQ lines that setup_pic leaves unmasked, without the cascade
          Traps   \* exceptions that code may raise

\* "wild": what a system call has called through an entry of syscalls that
\* nobody set.
Stub == {"irq", "eoi", "isr", "return", "wild", "halted"}

ASSUME InterruptsAssumption ==
  /\ Lines \subseteq (0 .. 15) \ {2}
  /\ Traps \subseteq 0 .. 31
  /\ Code \cap Stub = {}

VARIABLES irr,     \* lines latched by the controllers and not yet taken
          isr,     \* lines in service, 2 standing for the slave
          iflag,   \* the interrupt flag
          ctx,     \* where the processor is
          frames   \* struct registers pushed on the kernel stack

intVars == <<irr, isr, iflag, ctx, frames>>

Top == frames[Len(frames)]

IntInit ==
  /\ irr = {} /\ isr = {} /\ iflag = TRUE
  /\ ctx \in Code
  /\ frames = <<>>

-----------------------------------------------------------------------------
(* The controllers, in the fully nested mode setup_pic selects             *)

Cascade == 2
Master == 0 .. 7
Slave == 8 .. 15

\* The input of the master that line i arrives at.
MasterInput(i) == IF i \in Slave THEN Cascade ELSE i

Beats(i, j) == \/ MasterInput(i) < MasterInput(j)
               \/ MasterInput(i) = MasterInput(j) /\ i < j

\* A line in service holds back itself and the lower priorities.
Unblocked(i) ==
  /\ \A j \in isr \cap Master : MasterInput(i) < j
  /\ i \in Slave => \A j \in isr \cap Slave : i < j

Requested(i) ==
  /\ i \in irr /\ Unblocked(i)
  /\ \A j \in irr : Unblocked(j) => ~Beats(j, i)

\* The lines an acknowledge cycle for line i puts in service.
Acknowledged(i) == IF i \in Slave THEN {Cascade, i} ELSE {i}

\* A non-specific end of interrupt ends the highest priority in service.
EndHighest(S, pic) == {j \in S : j \in pic => \E k \in S \cap pic : k < j}

-----------------------------------------------------------------------------
Raise(i) ==
  /\ i \in Lines \ irr
  /\ irr' = irr \cup {i}
  /\ UNCHANGED <<isr, iflag, ctx, frames>>

\* Entry through gate n: the processor and the stub push the registers, and
\* the gate (0x8E or 0xEE, an interrupt gate) and cli clear the flag.
Gate(n, stub) ==
  /\ frames' = Append(frames, [int_no |-> n, regs |-> ctx])
  /\ ctx' = stub
  /\ iflag' = FALSE

Interrupt(i) ==
  /\ iflag /\ ctx # "halted"
  /\ Requested(i)
  /\ irr' = irr \ {i}
  /\ isr' = isr \cup Acknowledged(i)
  /\ Gate(i + 32, "irq")

\* The request i is taken back when it has been signalled and not yet
\* acknowledged, as a drive's is by a read of its status: the controller
\* that finds no other names its last line p, and puts nothing in service.
Spurious(i, p) ==
  /\ iflag /\ ctx # "halted"
  /\ Requested(i)
  /\ p = 7 \/ (p = 15 /\ i \in Slave)
  /\ \A j \in irr \ {i} : Unblocked(j) => p = 15 /\ j \in Master
  /\ irr' = irr \ {i}
  /\ isr' = isr \cup (Acknowledged(p) \ {p})
  /\ Gate(p + 32, "irq")

\* An exception of the running code, or its int 0x7f; or an exception of a
\* line's handler or of a wild call, whose frame goes on top of the first.
Trap(n) ==
  /\ ctx \in Code \/ (ctx \in {"irq", "wild"} /\ n \in Traps)
  /\ Gate(n, "isr")
  /\ UNCHANGED <<irr, isr>>

\* irq_handler calls the line's handler, if it has one ...
irq_handler ==
  /\ ctx = "irq"
  /\ ctx' = "eoi"
  /\ UNCHANGED <<irr, isr, iflag, frames>>

\* ... and irq_end(r->int_no - 32).
MasterOnly(int_no) == EndHighest(isr, Master)
SlaveOnly(int_no) ==
  IF int_no >= 8 THEN EndHighest(isr, Slave) ELSE EndHighest(isr, Master)
AfterEnd(int_no) ==
  EndHighest(IF int_no >= 8 THEN EndHighest(isr, Slave) ELSE isr, Master)

irq_end ==
  /\ ctx = "eoi"
  /\ isr' = AfterEnd(Top.int_no - 32)
  /\ ctx' = "return"
  /\ UNCHANGED <<irr, iflag, frames>>

\* Id 0 prints and returns, its result in rax being data; any other calls
\* what syscalls holds there, or what lies behind it, unchecked: NULL, or
\* some word, which comes back or runs on in ring 0 with the flag clear.
syscall_handler == ctx' \in {"return", "wild"}

\* interrupt_handlers[127] is syscall_handler.  The vectors below 32 have no
\* handler and end in panic, which reads its frame alone: cli and hlt.
fault_handler ==
  /\ ctx = "isr"
  /\ IF Top.int_no = 127 THEN syscall_handler ELSE ctx' = "halted"
  /\ UNCHANGED <<irr, isr, iflag, frames>>

\* popAll; sti; iretq.  sti takes effect after iretq.
Return ==
  /\ ctx = "return"
  /\ ctx' = Top.regs
  /\ frames' = SubSeq(frames, 1, Len(frames) - 1)
  /\ iflag' = TRUE
  /\ UNCHANGED <<irr, isr>>

Step ==
  /\ ctx \in Code
  /\ ctx' \in Code
  /\ UNCHANGED <<irr, isr, iflag, frames>>

Handling == irq_handler \/ irq_end \/ fault_handler \/ Return

Taken(i) == Interrupt(i) \/ \E p \in {7, 15} : Spurious(i, p)

IntNext == \/ \E i \in Lines : Raise(i) \/ Taken(i)
           \/ \E n \in Traps \cup {127} : Trap(n)
           \/ Handling
           \/ Step

\* A handler runs to its end, and a request that keeps coming back to a
\* processor with its flag set is taken.
IntSpec == IntInit /\ [][IntNext]_intVars
IntFairness == /\ WF_intVars(Handling)
               /\ \A i \in Lines : SF_intVars(Interrupt(i))
-----------------------------------------------------------------------------
(* Properties                                                              *)

\* Types; and what becomes of an exception inside a handler: its frame, the
\* second, is never popped, for it ends in panic.  So at most two are on the
\* stack, and what Return resumes is code, never half a handler.
Outer == [int_no : Traps \cup {127} \cup 32 .. 47, regs : Code]
Inner == [int_no : Traps, regs : {"irq", "wild"}]
IntTypeOK ==
  /\ irr \subseteq Lines
  /\ isr \subseteq Lines \cup {Cascade}
  /\ iflag \in BOOLEAN
  /\ ctx \in Code \cup Stub
  /\ \/ frames = <<>> /\ ctx \in Code
     \/ \E f \in Outer : frames = <<f>> /\ ctx \in Stub
     \/ \E f \in Outer, g \in Inner : frames = <<f, g>> /\ ctx \in {"isr", "halted"}

\* The controllers hold in service the line being handled until its end of
\* interrupt, and nothing else: no line is left blocked behind a handler
\* that has returned, none is released while its handler still runs or has
\* faulted, and an interrupt that no line stands behind releases no more
\* than it blocked.
LineHandled == ctx \in {"irq", "eoi"} \/ (frames # <<>> /\ Top.regs = "irq")
InService ==
  IF LineHandled
  THEN LET i == frames[1].int_no - 32 IN
       isr = Acknowledged(i) \/ (i \in {7, 15} /\ isr = Acknowledged(i) \ {i})
  ELSE isr = {}

\* A line whose higher priorities leave the processor free again and again
\* is served every time it is raised, for as long as the kernel runs.
Served ==
  \A i \in Lines :
    []<>(ctx \in Code /\ \A j \in irr : ~Beats(j, i))
      => (i \in irr ~> i \notin irr)
=============================================================================
