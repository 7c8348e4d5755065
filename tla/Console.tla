------------------------------ MODULE Console ------------------------------
(***************************************************************************)
(* What the loader and the kernel log: info, debug, error and warning of   *)
(* the two log.c, serial_putchar, which waits for the chip before every    *)
(* byte, and the interrupt handlers that print on the same port between    *)
(* any two instructions of a putchar that they interrupt.                  *)
(*                                                                         *)
(* A byte is [by, nr, at]: byte number at of message number nr of "code",  *)
(* the boot thread, or of "handler".                                       *)
(***************************************************************************)
EXTENDS Interrupts, Pic

CONSTANTS FifoSize,     \* bytes the chip's FIFO holds: 16
          MaxMessages,  \* bound: messages of the boot thread
          MaxIrqs,      \* bound: interrupts, system calls and faults
          BootMessages  \* what the boot thread may log: [level, text]

ASSUME ConsoleAssumption ==
  /\ Code = {"run", "poll", "out"}
  /\ FifoSize \in Nat \ {0, 1}
  /\ MaxMessages \in Nat
  /\ \A m \in BootMessages : m.text \in Nat

VARIABLES booted,  \* how far: "reset", "loader", "kernel", "modules"
          uart,    \* the chip's registers
          fifo,    \* bytes it has still to send
          line,    \* bytes that have left on the line
          left,    \* what each of the two has still to print
          asked,   \* what each has been asked to print until now
          said,    \* in how many messages
          hand     \* where the handler is: "call", "poll" or "out"

chipVars == <<uart, fifo, line>>
Printers == {"code", "handler"}

textVars == <<left, asked, said>>
consoleVars == <<intVars, picVars, booted, chipVars, textVars, hand>>

-----------------------------------------------------------------------------
(* The chip                                                                *)

PowerOn(dlab) == [dlab |-> dlab, divisor |-> 12, fifo |-> FALSE, loop |-> FALSE]

\* A store to register PORT + reg; what is stored in register 0 to be sent
\* is Transmit's affair.
Store(u, reg, v) ==
  CASE reg = 0 /\ u.dlab -> [u EXCEPT !.divisor = 256 * (@ \div 256) + v]
    [] reg = 1 /\ u.dlab -> [u EXCEPT !.divisor = 256 * v + (@ % 256)]
    [] reg = 2           -> [u EXCEPT !.fifo = Bit(v, 0) = 1]
    [] reg = 3           -> [u EXCEPT !.dlab = Bit(v, 7) = 1]
    [] reg = 4           -> [u EXCEPT !.loop = Bit(v, 4) = 1]
    [] OTHER             -> u

Room == IF uart.fifo THEN FifoSize ELSE 1

\* outb(PORT, c): a full FIFO drops the byte, a register is overwritten.
Send(c) ==
  fifo' = IF uart.dlab THEN fifo
          ELSE IF Len(fifo) < Room THEN Append(fifo, c)
          ELSE IF uart.fifo THEN fifo ELSE <<c>>

\* The next byte leaves, or comes back to a chip in loopback mode.
Transmit ==
  /\ fifo # <<>>
  /\ fifo' = Tail(fifo)
  /\ line' = IF uart.loop THEN line ELSE Append(line, Head(fifo))
  /\ UNCHANGED <<intVars, picVars, booted, uart, textVars, hand>>

\* serial_init's stores up to loopback mode; and one that leaves the FIFO off.
Speed(u) ==
  Store(Store(Store(Store(Store(u, 1, 0), 3, \h80), 0, 3), 1, 0), 3, 3)
Loopback(u) == Store(Store(u, 4, \h0B), 4, \h1E)
NoFifo(u) == Loopback(Speed(u))
Prepared(u) == Loopback(Store(Speed(u), 2, \hC7))

\* The byte 0xAE is looked for in the next instruction, and a chip may take
\* longer to bring it back: serial_init then returns 1 and leaves loopback
\* on, and loader_main does not ask what it returned.
serial_init ==
  /\ ctx = "run" /\ booted = "reset"
  /\ uart' \in {Prepared(uart), Store(Prepared(uart), 4, \h0F)}
  /\ booted' = "loader"
  /\ UNCHANGED <<intVars, picVars, fifo, line, textVars, hand>>

\* inb(PORT + 5) & 0x20, and the bit that says that a byte was received.
DataReady == FALSE
is_transmit_empty == fifo = <<>>

-----------------------------------------------------------------------------
(* Messages                                                                *)

\* log: a prefix, the text and the end of the line.  The loader is built
\* without K_ENABLE_DEBUG.
log(by, level, text) ==
  IF level = "debug" /\ booted = "loader" THEN <<>>
  ELSE [k \in 1 .. text + 2 |-> [by |-> by, nr |-> said[by] + 1, at |-> k]]

Say(by, level, text) ==
  /\ left' = [left EXCEPT ![by] = log(by, level, text)]
  /\ asked' = [asked EXCEPT ![by] = @ \o log(by, level, text)]
  /\ said' = IF log(by, level, text) = <<>> THEN said ELSE [said EXCEPT ![by] = @ + 1]

Info ==
  /\ ctx = "run" /\ booted # "reset" /\ said["code"] < MaxMessages
  /\ \E m \in BootMessages : Say("code", m.level, m.text)
  /\ ctx' = IF left'["code"] = <<>> THEN "run" ELSE "poll"
  /\ UNCHANGED <<irr, isr, iflag, frames, picVars, booted, chipVars, hand>>

\* The next byte of what by prints is stored.
Outb(by) ==
  /\ Send(Head(left[by]))
  /\ left' = [left EXCEPT ![by] = Tail(@)]
  /\ UNCHANGED <<asked, said>>

\* serial_putchar of the next byte.
Poll ==
  /\ ctx = "poll" /\ is_transmit_empty
  /\ ctx' = "out"
  /\ UNCHANGED <<irr, isr, iflag, frames, picVars, booted, chipVars, textVars, hand>>
Out ==
  /\ ctx = "out"
  /\ Outb("code")
  /\ ctx' = IF Tail(left["code"]) = <<>> THEN "run" ELSE "poll"
  /\ UNCHANGED <<irr, isr, iflag, frames, picVars, booted, uart, line, hand>>

-----------------------------------------------------------------------------
(* The boot thread                                                         *)

\* kernel_main's first line: setup_interrupts.
Enter ==
  /\ ctx = "run" /\ booted = "loader"
  /\ setup_interrupts
  /\ booted' = "kernel" /\ iflag' = TRUE
  /\ UNCHANGED <<irr, isr, ctx, frames, chipVars, textVars, hand>>

\* load of the ATA module gives lines 14 and 15 handlers that print.
Load ==
  /\ ctx = "run" /\ booted = "kernel"
  /\ handlers' = set_irq_handler(set_irq_handler(handlers, 14, "ata_irq_handler_master"),
                                 15, "ata_irq_handler_slave")
  /\ booted' = "modules"
  /\ UNCHANGED <<intVars, bios, pic, idt, chipVars, textVars, hand>>

-----------------------------------------------------------------------------
(* Interrupts                                                              *)

Raised(i) == Raise(i) /\ UNCHANGED <<picVars, booted, chipVars, textVars, hand>>

Take(i) ==
  /\ Open(i) /\ said["handler"] < MaxIrqs
  /\ Taken(i)
  /\ UNCHANGED <<picVars, booted, chipVars, textVars, hand>>
\* An exception of the boot thread or user code.  Only user code, which runs
\* when the boot thread has printed what it had to, has system calls; what a
\* wild one goes on to do is not followed, nor a fault of a handler.
Fault(n) ==
  /\ booted \in {"kernel", "modules"} /\ said["handler"] < MaxIrqs
  /\ ctx \in (IF n = 127 THEN {"run"} ELSE Code) /\ (n = 127 => booted = "modules")
  /\ Trap(n)
  /\ UNCHANGED <<picVars, booted, chipVars, textVars, hand>>

NoHandler == "none"
Handler == IF Top.int_no \in DOMAIN handlers THEN handlers[Top.int_no] ELSE NoHandler

\* What the handler prints: irq0_listener nothing; ata_irq_handler_* and
\* test_syscall, which is system call 0, a line, and a call of another id
\* nothing of its own; panic, of the other vectors, several, one here.
Prints == \/ Handler \in {"ata_irq_handler_master", "ata_irq_handler_slave", "syscall_handler"}
          \/ ctx = "isr" /\ Handler = NoHandler
Call ==
  /\ ctx \in {"irq", "isr"} /\ hand = "call"
  /\ \/ Prints /\ Say("handler", IF Handler = NoHandler THEN "error" ELSE "info", 1)
     \/ (Prints => Handler = "syscall_handler") /\ UNCHANGED textVars
  /\ hand' = "poll"
  /\ UNCHANGED <<intVars, picVars, booted, chipVars>>
HandlerPoll ==
  /\ hand = "poll" /\ left["handler"] # <<>> /\ is_transmit_empty
  /\ hand' = "out"
  /\ UNCHANGED <<intVars, picVars, booted, chipVars, textVars>>
HandlerOut ==
  /\ hand = "out"
  /\ Outb("handler")
  /\ hand' = "poll"
  /\ UNCHANGED <<intVars, picVars, booted, uart, line>>
HandlerReturns ==
  /\ hand = "poll" /\ left["handler"] = <<>>
  /\ irq_handler \/ fault_handler
  /\ hand' = "call"
  /\ UNCHANGED <<picVars, booted, chipVars, textVars>>
Leave ==
  /\ irq_end \/ Return
  /\ UNCHANGED <<picVars, booted, chipVars, textVars, hand>>

ConsoleInit ==
  /\ irr = {} /\ isr = {} /\ iflag = FALSE /\ ctx = "run" /\ frames = <<>>
  /\ PicInit
  /\ booted = "reset"
  /\ uart \in {PowerOn(dlab) : dlab \in BOOLEAN}
  /\ fifo = <<>> /\ line = <<>>
  /\ left = [by \in Printers |-> <<>>] /\ asked = left
  /\ said = [by \in Printers |-> 0]
  /\ hand = "call"

Thread == serial_init \/ Info \/ Poll \/ Out \/ Enter \/ Load
Handle == Call \/ HandlerPoll \/ HandlerOut \/ HandlerReturns \/ Leave
ConsoleNext ==
  \/ Thread \/ Handle \/ Transmit
  \/ \E i \in Lines : Raised(i) \/ Take(i)
  \/ \E n \in Traps \cup {127} : Fault(n)

\* The chip sends what it has; the handler and, between interrupts, the
\* thread inside putchar go on.
ConsoleSpec == ConsoleInit /\ [][ConsoleNext]_consoleVars
ConsoleFairness ==
  WF_fifo(Transmit) /\ WF_<<ctx, hand>>(Handle) /\ SF_ctx(Poll \/ Out)
-----------------------------------------------------------------------------
(* Properties                                                              *)

ConsoleTypeOK ==
  /\ booted \in {"reset", "loader", "kernel", "modules"}
  /\ hand \in {"call", "poll", "out"}
  /\ left["code"] # <<>> \/ ctx \notin {"poll", "out"}
  /\ said["code"] \in 0 .. MaxMessages /\ said["handler"] \in Nat

\* Bytes that have left or will leave, and how many have been printed.
Sent == line \o fifo
Printed(by) == Len(asked[by]) - Len(left[by])
Before(b, c) == b.nr < c.nr \/ (b.nr = c.nr /\ b.at < c.at)

\* Once serial_init has got its byte back, every byte that is printed
\* leaves on the line or will: none is lost, doubled or overtaken though
\* handlers print between a poll and the store it was for, and what a
\* handler prints is not broken into.
Delivered ==
  /\ ConsoleTypeOK
  /\ booted # "reset" /\ ~uart.loop =>
       /\ uart.divisor = 3
       /\ \A by \in Printers :
            /\ left[by] = SubSeq(asked[by], Printed(by) + 1, Len(asked[by]))
            /\ \A k \in 1 .. Printed(by) : \E i \in DOMAIN Sent : Sent[i] = asked[by][k]
            /\ \A i \in DOMAIN Sent :
                 Sent[i].by = by => \E k \in 1 .. Printed(by) : Sent[i] = asked[by][k]
       /\ \A i \in DOMAIN Sent :
            /\ \A j \in 1 .. i - 1 : Sent[j].by = Sent[i].by => Before(Sent[j], Sent[i])
            /\ Sent[i].by = "handler" /\ Sent[i].at > 1 =>
                 i > 1 /\ Sent[i - 1].by = "handler"

\* A message that was begun is printed to its end, whatever the chip is
\* set to, unless the kernel stops.
Logged == left["code"] # <<>> ~> left["code"] = <<>> \/ ctx = "halted"

\* What setup_interrupts is for: a line that is open arrives at its own stub,
\* as every exception does; what the firmware had closed is closed, as are the
\* lines without a handler; and user code has one gate.
Vectors ==
  /\ pic.A.x86 = 1 /\ pic.B.x86 = 1 /\ pic.A.cascade = Weight(Cascade) /\ pic.B.cascade = Cascade
  /\ \A i \in (0 .. 15) \ {Cascade} : Open(i) =>
       i \in {0, 1, 12, 14, 15} /\ Vector(i) = i + 32 /\ Arrives(i + 32, <<"irq", i>>)
  /\ \A n \in (0 .. 31) \cup {127} : Arrives(n, <<"isr", n>>)
  /\ \A k \in 0 .. 7 :
       /\ Bit(pic.A.mask, k) = 1 <=> Bit(bios.A, k) = 1 \/ k > 2
       /\ Bit(pic.B.mask, k) = 1 <=> Bit(bios.B, k) = 1 \/ k \in {0, 1, 2, 3, 5}
  /\ \A n \in DOMAIN idt : idt[n].type_attr = \hEE <=> n = 127

\* It is done before any interrupt is taken, and nothing undoes it.
Vectored == iflag => Vectors
=============================================================================
