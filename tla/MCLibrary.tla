------------------------------ MODULE MCLibrary ------------------------------
(* The loader, and the library routines of the two programs: loader_main    *)
(* with kernels of one to three segments, one of them all bss, a file that  *)
(* is no kernel, and up to four tags in any order, more regions than are    *)
(* counted; or the loader divides a number of twice Bits bits by another;   *)
(* or the kernel cuts paths of up to five bytes with strtok, a new one at   *)
(* any point of another, where a name and its end lie behind each path; or  *)
(* one of the two programs formats a text.                                  *)
EXTENDS Loader, Div64, Strings, Printf

VARIABLE caller  \* what runs

MCMem == [a \in 0 .. 63 |-> 100 + a]

Load(vaddr, offset, filesz, memsz) ==
  [p_type |-> 1, p_vaddr |-> vaddr, p_offset |-> offset, p_filesz |-> filesz, p_memsz |-> memsz]
Note == [Load(0, 0, 1, 1) EXCEPT !.p_type = 4]
Past == [Load(0, 0, 0, 0) EXCEPT !.p_type = 0]
Kernels ==
  { <<Load(4, 0, 1, 2)>>,
    <<Load(4, 0, 2, 2), Load(6, 2, 2, 2), Load(8, 4, 1, 5)>>,
    <<Load(5, 3, 2, 3), Note, Load(12, 1, 0, 4)>> }
MCFiles ==
  { [start \in {32, 48} |->
       IF start = 32 THEN [magic |-> TRUE, phdrs |-> k, behind |-> Past]
       ELSE [magic |-> other, phdrs |-> <<Load(4, 6, 1, 1)>>, behind |-> Past]]
    : k \in Kernels, other \in BOOLEAN }

Entry(addr, len, type) == [addr |-> addr, len |-> len, type |-> type]
MCTags ==
  { [type |-> "framebuffer", addr |-> 7], [type |-> "cmdline"],
    [type |-> "mmap", entries |-> <<Entry(0, 3, 1), Entry(4, 2, 2)>>],
    [type |-> "mmap", entries |-> <<Entry(8, 5, 1)>>],
    [type |-> "module", cmdline |-> "KERNEL", mod_start |-> 32],
    [type |-> "module", cmdline |-> "KERNEL", mod_start |-> 48],
    [type |-> "module", cmdline |-> "INITRD", mod_start |-> 48] }

MCMachines ==
  { [magic |-> TRUE, mbt |-> 8, tags |-> t, mem |-> MCMem, files |-> f]
    : t \in UNION {[1 .. n -> MCTags] : n \in 0 .. 4}, f \in MCFiles }
  \cup { [magic |-> m, mbt |-> b, tags |-> <<>>, mem |-> MCMem, files |-> [start \in {} |-> 0]]
         : m \in BOOLEAN, b \in {8, 12} }

MCByte == {"/", "a", "b", "NUL"}
MCPaths == UNION {[1 .. n -> {"/", "a", "b"}] : n \in 0 .. 5}
MCBehind == <<"a", "NUL">>

(* Directives with their arguments. *)
No == [by |-> "none", n |-> 0]
Only == [by |-> "point", n |-> 0]
Num(n) == [by |-> "number", n |-> n]
Star(n) == [by |-> "star", n |-> n]
Lit(c) == [lit |-> c]
Piece(flags_, width_, precision_, length, spec, value) ==
  [flags |-> SetToSeq(flags_), width |-> width_, precision |-> precision_,
   length |-> length, spec |-> spec, value |-> value]

\* 10 is -6, 21 is -11 in five bits; 100 has seven.
Values == {0, 10, 21, 100}
Signs == {Piece(fl, wd, prec, "none", "d", v) : fl \in SUBSET {"0", "+", " "},
            wd \in {No, Num(2), Num(5)}, prec \in {No, Only, Num(0), Star(3)}, v \in Values}
Sizes == {Piece({"0"}, Num(4), No, length, spec, v) : spec \in {"i", "u", "x"}, v \in Values,
            length \in {"hh", "h", "none", "l", "ll", "j", "z"}}
Lefts == {Piece(fl \cup {"-"}, wd, prec, "none", spec, v) : fl \in SUBSET {"0", "+"},
            wd \in {No, Num(12), Star(3)}, prec \in {No, Num(2)}, spec \in {"i", "X", "o"}, v \in Values}
         \cup {Piece({"+"}, Star(-4), No, "none", "d", 3)}
Prefixed == {Piece(fl \cup {"#"}, wd, prec, length, spec, v) :
               fl \in {{}, {"0"}, {"-"}}, wd \in {No, Num(3), Num(5)}, prec \in {No, Num(2)},
               length \in {"j", "z"}, spec \in {"x", "X", "o", "b"}, v \in Values}
Words == {Piece(fl, wd, prec, "none", "s", s) : fl \in {{}, {"-"}},
            wd \in {No, Num(3), Star(-4)}, prec \in {No, Only, Num(1), Star(3)},
            s \in {<<>>, <<"k">>, <<"k", "l", "m">>}}
Chars == {Piece(fl, wd, No, "none", "c", c) : fl \in {{}, {"-"}},
            wd \in {No, Num(3), Star(-4)}, c \in {"q", "NUL"}}
Others == {Piece({}, No, No, "none", "%", 0)} \cup {Piece({}, No, No, "none", "p", v) : v \in Values}

To(program, out, maxlen, pieces) ==
  [program |-> program, out |-> out, maxlen |-> maxlen, pieces |-> pieces]
Numbers == Signs \cup Sizes \cup Lefts \cup Prefixed \cup Others
Programs == {"kernel", "loader"}
MCCalls ==
  UNION {{To(by, "char", 1000, <<Lit("L"), q, Lit("M")>>) :
             q \in {x \in Numbers \cup Words \cup Chars : Conforming(x, by)}}
         \cup {To(by, "buffer", m, <<q, Lit("M")>>) :
                 q \in {x \in Words \cup Lefts : Conforming(x, by)}, m \in {0, 1, 3, 1000}}
         \cup {To(by, "null", 4, <<q>>) : q \in Words}
         \cup {To(by, "buffer", 5, <<q, Lit("M"), r>>) : q \in Chars \cup Others, r \in Others}
         : by \in Programs}

\* A char has 2 bits, a short 3, an int 5 and a long long 7; a long has as
\* many as a long long in the kernel, as many as an int in the loader.
MCLong == [by \in Programs |-> IF by = "kernel" THEN 127 ELSE 31]
MCPointerDigits == [by \in Programs |-> 2]

NoText == call = To("kernel", "null", 0, <<>>) /\ Called
NoKernel == machine.mbt = 8 /\ ~machine.magic /\ fb = 0
NoDivision == num = 1 /\ den = 1 /\ DivInit
MCVars == <<vars, divVars, tokVars, printVars, caller>>
MCInit ==
  /\ Init /\ TokInit
  /\ \/ caller = "loader" /\ NoDivision /\ NoText
     \/ caller = "div" /\ NoKernel /\ DivInit /\ NoText
     \/ caller = "strtok" /\ NoKernel /\ NoDivision /\ NoText
     \/ caller = "printf" /\ NoKernel /\ NoDivision /\ PrintInit

Booting == caller = "loader" /\ Next /\ UNCHANGED <<divVars, tokVars, printVars, caller>>
Divide == caller = "div" /\ DivNext /\ UNCHANGED <<vars, tokVars, printVars, caller>>
Cutting == caller = "strtok" /\ TokNext /\ UNCHANGED <<vars, divVars, printVars, caller>>
Formatting == caller = "printf" /\ PrintNext /\ UNCHANGED <<vars, divVars, tokVars, caller>>

MCSpec ==
  MCInit /\ [][Booting \/ Divide \/ Cutting \/ Formatting]_MCVars /\ WF_MCVars(Divide)

\* _64bit_divide, once called, returns or faults.
DivisionEnds == caller = "div" => Ends
=============================================================================
