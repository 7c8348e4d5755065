------------------------------ MODULE MCKernel ------------------------------
(* The end of kernel_main: the ramdisk and its modules, or exec, which the  *)
(* first ends in when all is well. Archives of up to four files, modules of *)
(* all kinds, executables, files of other sizes, and one of five, more than *)
(* the array has entries for. exec with the timer, the keyboard and the     *)
(* primary disk, and one page fault vector.                                 *)
EXTENDS Boot, Proc

VARIABLE part  \* which of the two

MCCode == ProcCode

Filename(base, ext) == [base |-> base, ext |-> ext]
Rest(n) == [k \in 1 .. n |-> [kind |-> "data"]]
Elf(result, symbol) == [kind |-> "elf", load_elf64 |-> result, symbol |-> symbol]
Symbol(magic, name, load) == <<[magic |-> magic, name |-> name, load |-> load]>>

\* A module, of n blocks and some bytes less.
Module(base, n, less, result, symbol) ==
  [filename |-> Filename(base, ".smpm"), size |-> n * BlockSize - less,
   data |-> <<Elf(result, symbol)>> \o Rest(n - 1)]

Kinds ==
  { Module("ata", 2, 1, 0, Symbol(TRUE, "ata", 0)),
    Module("ata2", 1, 0, 0, Symbol(TRUE, "ata", 0)),
    Module("net", 1, 2, 0, Symbol(TRUE, "net", 0)),
    Module("failing", 1, 1, 0, Symbol(TRUE, "net", 1)),
    Module("nameless", 2, 0, 0, Symbol(TRUE, "", 0)),
    Module("refused", 1, 0, 1, Symbol(TRUE, "ata", 0)),
    Module("forged", 1, 0, 0, Symbol(FALSE, "net", 0)),
    Module("headless", 1, 0, 0, <<>>),
    [filename |-> Filename("empty", ".smpm"), size |-> 0, data |-> <<>>],
    [filename |-> Filename("first", ".smpinit"), size |-> 9, data |-> Rest(3)],
    [filename |-> Filename("second", ".smpinit"), size |-> 4, data |-> Rest(1)],
    [filename |-> Filename("dir", ""), size |-> 0, data |-> <<>>] }

Long == [k \in 1 .. 5 |-> [filename |-> Filename("file", ""), size |-> k, data |-> Rest((k + 3) \div 4)]]
Few == {k \in Kinds : k.filename.base \in {"ata", "ata2", "net", "failing", "first", "second"}}
MCArchives == UNION {[1 .. n -> Kinds] : n \in 0 .. 3} \cup [1 .. 4 -> Few] \cup {Long}

MCNames == {"", "ata", "net"}
MCRequired == <<"ata", "net">>

MCVars == <<vars, allVars, part>>
MCInit ==
  /\ part \in {"ramdisk", "exec"} /\ Init /\ ProcInit
  /\ part = "exec" => files = <<>> /\ ~present

Others == UNCHANGED <<vars, part>>
Loading == part = "ramdisk" /\ Next /\ UNCHANGED <<allVars, part>>
Executing == part = "exec" /\ ProcNext /\ Others

\* The fairness of Proc, for the behaviours that are exec's.
MCSpec ==
  /\ MCInit /\ [][Loading \/ Executing]_MCVars
  /\ WF_MCVars(part = "exec" /\ ProcHandling /\ Others)
  /\ \A line \in Lines : SF_MCVars(part = "exec" /\ Interrupt(line) /\ UNCHANGED procVars /\ Others)
  /\ SF_MCVars(part = "exec" /\ exec /\ Others)

\* exec, interrupted at any statement, gets to user code, to the idle loop
\* when the executable cannot be loaded, or to a panic.
ExecStarted == part = "exec" => Started
=============================================================================
