-------------------------------- MODULE Proc --------------------------------
(***************************************************************************)
(* Processes, src/kernel/src/proc: exec, which kernel_main calls once with *)
(* init set, statement by statement; the timer handler that switches to    *)
(* the next process; and the user code exec enters.  Interrupts come       *)
(* between any two of these steps.                                         *)
(*                                                                         *)
(* A context is the statement of exec the processor is at, "user" or       *)
(* "idle"; the constant Code of Interrupts is ProcCode here.  An address   *)
(* space is named: its PML4's address stands for the page and, in cr3, for *)
(* the frame to_physical finds for it (WindowAgrees of Paging).            *)
(***************************************************************************)
EXTENDS Interrupts

CONSTANTS MaxProcesses,   \* 256
          KernelSpace,    \* get_kernel_address_space()
          LoaderStack     \* rsp0 of the loader's TSS

VARIABLES cr3, current_pml4,
          tss,              \* proc.c's pointer to the TSS
          rsp0,             \* the field, in the TSS and where NULL points
          proc,             \* the proc_t that exec builds
          prev_space,       \* exec's local
          processes, process_count, cpid, current_process

procVars == <<cr3, current_pml4, tss, rsp0, proc, prev_space,
              processes, process_count, cpid, current_process>>
allVars == <<intVars, procVars>>

Null == "NULL"
TSS == "TSS"
P == "proc"              \* the address of proc
Garbage == "garbage"     \* what kmalloc returns is not cleared
Space == "space"         \* the copy exec makes
Stack == "stack"         \* kernel_stack of the process

\* exec's statements in order.
CountedFirst ==
  <<"load_elf64", "check_entry", "kmalloc_proc", "copy_space", "kernel_stack",
    "kmalloc_context", "prev_space",
    "set_pml_1", "set_current_1", "map_stack", "set_pml_2", "set_current_2",
    "set_kernel_stack", "set_pml_3", "set_current_3",
    "register", "process_count", "current_process", "enter_userspace">>
SwitchedBack ==
  <<"load_elf64", "check_entry", "kmalloc_proc", "copy_space", "kernel_stack",
    "kmalloc_context", "prev_space",
    "set_pml_1", "set_current_1", "map_stack",
    "set_kernel_stack", "set_pml_3", "set_current_3", "set_pml_2", "set_current_2",
    "register", "current_process", "process_count", "enter_userspace">>
Statements ==
  <<"load_elf64", "check_entry", "kmalloc_proc", "copy_space", "kernel_stack",
    "kmalloc_context", "prev_space",
    "set_pml_1", "set_current_1", "map_stack", "set_pml_2", "set_current_2",
    "set_kernel_stack", "set_pml_3", "set_current_3",
    "register", "current_process", "process_count", "enter_userspace">>

ProcCode == {Statements[k] : k \in DOMAIN Statements} \cup {"user", "idle"}

ASSUME ProcAssumption ==
  /\ MaxProcesses \in Nat \ {0}
  /\ Code = ProcCode

\* Code that may fault: what allocates, maps or reads the executable, and
\* user code; and the handlers may, as may a wild call.
Faulting == {"load_elf64", "kmalloc_proc", "copy_space", "kernel_stack",
             "kmalloc_context", "map_stack", "user"}

ProcInit ==
  /\ irr = {} /\ isr = {} /\ iflag = TRUE /\ frames = <<>>
  /\ ctx = "load_elf64"
  /\ cr3 = KernelSpace /\ current_pml4 = KernelSpace
  /\ tss = Null
  /\ rsp0 = [NULL |-> Garbage, TSS |-> LoaderStack]
  /\ proc = [address_space |-> Garbage, kernel_stack |-> Garbage, context |-> Garbage]
  /\ prev_space = Garbage
  /\ processes = [i \in 0 .. MaxProcesses - 1 |-> Null]
  /\ process_count = 0 /\ cpid = 0
  /\ current_process = Null

-----------------------------------------------------------------------------
(* exec                                                                    *)

\* The statement s runs and the next one is reached.
Run(s) ==
  /\ ctx = s
  /\ \E k \in 1 .. Len(Statements) - 1 :
       Statements[k] = s /\ ctx' = Statements[k + 1]
  /\ UNCHANGED <<irr, isr, iflag, frames>>

\* The two halves of set_address_space(space, 0).
SetPml(s, space) ==
  /\ Run(s)
  /\ cr3' = space
  /\ UNCHANGED <<current_pml4, tss, rsp0, proc, prev_space,
                 processes, process_count, cpid, current_process>>
SetCurrent(s, space) ==
  /\ Run(s)
  /\ current_pml4' = space
  /\ UNCHANGED <<cr3, tss, rsp0, proc, prev_space,
                 processes, process_count, cpid, current_process>>

SetField(s, field, value) ==
  /\ Run(s)
  /\ proc' = [proc EXCEPT ![field] = value]
  /\ UNCHANGED <<cr3, current_pml4, tss, rsp0, prev_space,
                 processes, process_count, cpid, current_process>>

\* The entry point of an executable that could not be loaded, 1, lies in page
\* 0, whose frame is 0, the answer of to_physical for one that is not mapped:
\* exec returns, and kernel_main halts in a loop.
check_entry ==
  /\ \/ Run("check_entry")
     \/ ctx = "check_entry" /\ ctx' = "idle" /\ UNCHANGED <<irr, isr, iflag, frames>>
  /\ UNCHANGED procVars

\* tss->rsp0 = stack.
set_kernel_stack(stack) == rsp0' = [rsp0 EXCEPT ![tss] = stack]

exec ==
  \/ \E s \in {"load_elf64", "kmalloc_proc", "map_stack"} : Run(s) /\ UNCHANGED procVars
  \/ check_entry
  \/ SetField("copy_space", "address_space", Space)
  \/ SetField("kernel_stack", "kernel_stack", Stack)
  \/ SetField("kmalloc_context", "context", Garbage)
  \/ /\ Run("prev_space")
     /\ prev_space' = current_pml4
     /\ UNCHANGED <<cr3, current_pml4, tss, rsp0, proc,
                    processes, process_count, cpid, current_process>>
  \/ SetPml("set_pml_1", proc.address_space)
  \/ SetCurrent("set_current_1", proc.address_space)
  \/ SetPml("set_pml_2", prev_space)
  \/ SetCurrent("set_current_2", prev_space)
  \/ /\ Run("set_kernel_stack")
     /\ set_kernel_stack(proc.kernel_stack)
     /\ UNCHANGED <<cr3, current_pml4, tss, proc, prev_space,
                    processes, process_count, cpid, current_process>>
  \/ SetPml("set_pml_3", proc.address_space)
  \/ SetCurrent("set_current_3", proc.address_space)
  \/ /\ Run("register")
     /\ processes' = [processes EXCEPT ![process_count] = P]
     /\ UNCHANGED <<cr3, current_pml4, tss, rsp0, proc, prev_space,
                    process_count, cpid, current_process>>
  \/ /\ Run("current_process")
     /\ current_process' = P
     /\ UNCHANGED <<cr3, current_pml4, tss, rsp0, proc, prev_space,
                    processes, process_count, cpid>>
  \/ /\ Run("process_count")
     /\ process_count' = process_count + 1
     /\ UNCHANGED <<cr3, current_pml4, tss, rsp0, proc, prev_space,
                    processes, cpid, current_process>>
  \/ /\ ctx = "enter_userspace"
     /\ ctx' = "user"
     /\ UNCHANGED <<irr, isr, iflag, frames, procVars>>

-----------------------------------------------------------------------------
(* The timer                                                               *)

\* schedule's copies: regs to the context of current_process, and the
\* context of the new process to regs.
NotSaved(regs) == proc.context
Saved(regs) == IF current_process = P THEN regs ELSE proc.context

schedule(next) ==
  LET context == Saved(Top.regs) IN
  /\ proc' = [proc EXCEPT !.context = context]
  /\ current_process' = next
  /\ cr3' = proc.address_space
  /\ current_pml4' = proc.address_space
  /\ set_kernel_stack(proc.kernel_stack)
  /\ frames' = [frames EXCEPT ![Len(frames)].regs = context]

NextCpid == IF cpid + 1 >= process_count THEN 0 ELSE cpid + 1

irq0_listener ==
  IF process_count = 0
  THEN UNCHANGED <<frames, procVars>>
  ELSE /\ schedule(processes[cpid])
       /\ cpid' = NextCpid
       /\ UNCHANGED <<tss, prev_space, processes, process_count>>

\* irq_handler calls irq0_listener for the timer.
proc_irq_handler ==
  /\ ctx = "irq"
  /\ IF Top.int_no = 32 THEN irq0_listener ELSE UNCHANGED <<frames, procVars>>
  /\ ctx' = "eoi"
  /\ UNCHANGED <<irr, isr, iflag>>

ProcHandling ==
  \/ proc_irq_handler
  \/ (irq_end \/ fault_handler \/ Return) /\ UNCHANGED procVars

ProcNext ==
  \/ exec
  \/ ProcHandling
  \/ (\E i \in Lines : Raise(i) \/ Taken(i)) /\ UNCHANGED procVars
  \/ ctx \in Faulting \cup {"irq", "wild"} /\ (\E n \in Traps : Trap(n)) /\ UNCHANGED procVars
  \/ ctx = "user" /\ Trap(127) /\ UNCHANGED procVars

\* Handlers and interrupts as in Interrupts; between two ticks the
\* interrupted code gets to run.
ProcSpec == ProcInit /\ [][ProcNext]_allVars
FairSpec ==
  /\ ProcSpec
  /\ WF_allVars(ProcHandling)
  /\ \A i \in Lines : SF_allVars(Interrupt(i) /\ UNCHANGED procVars)
  /\ SF_allVars(exec)

-----------------------------------------------------------------------------
(* Properties                                                              *)

ProcTypeOK ==
  /\ IntTypeOK
  /\ {cr3, current_pml4} \subseteq {KernelSpace, Space}
  /\ tss \in {Null, TSS}
  /\ rsp0 \in [{Null, TSS} -> {Garbage, LoaderStack, Stack}]
  /\ proc.address_space \in {Garbage, Space}
  /\ proc.kernel_stack \in {Garbage, Stack}
  /\ proc.context \in ProcCode \cup {Garbage}
  /\ prev_space \in {Garbage, KernelSpace, Space}
  /\ processes \in [0 .. MaxProcesses - 1 -> {Null, P}]
  /\ process_count \in 0 .. MaxProcesses
  /\ cpid \in 0 .. (IF process_count = 0 THEN 0 ELSE process_count - 1)
  /\ current_process \in {Null, P}

\* As soon as the timer handler looks at processes, whatever it reads there
\* is complete: the slot it will use and current_process are set, and the
\* process has its address space, in use, and its kernel stack.
Registered ==
  process_count > 0 =>
    /\ processes[cpid] = P /\ current_process = P
    /\ proc.address_space = Space /\ proc.kernel_stack = Stack
    /\ cr3 = Space /\ current_pml4 = Space

\* The user stack is mapped while both the processor and mapf use the
\* process's space, and user code runs in it.
OwnSpace ==
  ctx \in {"map_stack", "user"} => cr3 = Space /\ current_pml4 = Space

\* Whatever interrupts do, the code they interrupt is resumed as it was: the
\* timer's copying of contexts is invisible to it.
Transparent == IntSpec

\* exec gets somewhere: to user code, to the idle loop when the executable
\* cannot be loaded, or to a panic.
Started == <>(ctx \in {"user", "idle", "halted"})
=============================================================================
