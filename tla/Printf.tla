------------------------------- MODULE Printf -------------------------------
(***************************************************************************)
(* printf, snprintf and their relatives: _vsnprintf and what it calls, but *)
(* for the floating point conversions, which nothing here uses.  The code  *)
(* is there twice, in src/libc/src/printf.c for the kernel and, under      *)
(* other names, in src/loader/src/util/printf.c for the loader, whose long *)
(* and pointers have half as many bits: a call says in which program.      *)
(*                                                                         *)
(* A character is a string of one, NUL is "NUL".  A string argument is its *)
(* characters; a number is the bits of a register.  A format has no        *)
(* directive that its end cuts short.                                      *)
(***************************************************************************)
EXTENDS Integers, SequencesExt

CONSTANTS Calls,       \* what printf and the others are called with
          UCHAR_MAX, USHRT_MAX, UINT_MAX, ULLONG_MAX,
          ULONG_MAX,         \* for each of the two programs
          POINTER_DIGITS,    \* for each, sizeof(void*) * 2
          NTOA_BUFFER_SIZE,  \* 32
          SIZE_MAX,          \* (size_t)-1
          Cells              \* size of the memory buffer points to

VARIABLES call,        \* by whom, where to, how much at most, and the pieces of the format
          format, va,  \* what is left of the format and of the arguments
          flags, width, precision,  \* of the directive that is being read
          idx,
          buffer,      \* memory from buffer on
          sent,        \* what putchar has been called with
          at           \* which part of the loop's body comes next

printVars == <<call, format, va, flags, width, precision, idx, buffer, sent, at>>

EOS == "NUL"
Junk == "junk"
Decimal == <<"0", "1", "2", "3", "4", "5", "6", "7", "8", "9">>
Lowercase == Decimal \o <<"a", "b", "c", "d", "e", "f">>
Uppercase == Decimal \o <<"A", "B", "C", "D", "E", "F">>
Copies(c, n) == IF n > 0 THEN [k \in 1 .. n |-> c] ELSE <<>>
Smaller(m, n) == IF m < n THEN m ELSE n
Larger(m, n) == IF m < n THEN n ELSE m

\* The bits of flags that characters of the format set, by these.
ZEROPAD == "0"
LEFT == "-"
PLUS == "+"
SPACE == " "
HASH == "#"
FlagChars == {ZEROPAD, LEFT, PLUS, SPACE, HASH}

Unsigned(v, max) == v % (max + 1)
Signed(v, max) ==
  IF Unsigned(v, max) <= max \div 2 THEN Unsigned(v, max) ELSE Unsigned(v, max) - (max + 1)

-----------------------------------------------------------------------------
(* What printf is called with: the pieces of the format, which are          *)
(* characters and directives with the values they take.                    *)

\* v in a base, for all v at once.
Numeral(base, letters) ==
  LET f[v \in 0 .. ULLONG_MAX] ==
        IF v < base THEN <<letters[v + 1]>>
        ELSE Append(f[v \div base], letters[1 + (v % base)])
  IN f

\* A directive: %[flags][width][.precision][length]specifier, flags as
\* characters; width and precision are [by, n] with by "none", "number",
\* "star" or, for a period alone, "point".
Field(f) == CASE f.by = "star" -> <<"*">>
              [] f.by = "number" -> Numeral(10, Decimal)[f.n]
              [] OTHER -> <<>>
FromLength(piece) ==
  (CASE piece.length = "none" -> <<>> [] piece.length = "hh" -> <<"h", "h">>
     [] piece.length = "ll" -> <<"l", "l">> [] OTHER -> <<piece.length>>) \o <<piece.spec>>
FromPrecision(piece) ==
  IF piece.precision.by = "none" THEN FromLength(piece)
  ELSE <<".">> \o (Field(piece.precision) \o FromLength(piece))
FromWidth(piece) == Field(piece.width) \o FromPrecision(piece)
IsLit(piece) == "lit" \in DOMAIN piece
Spelled(piece) ==
  IF IsLit(piece) THEN <<piece.lit>>
  ELSE <<"%">> \o (piece.flags \o FromWidth(piece))

\* The arguments it takes.
StarOf(f) == IF f.by = "star" THEN <<Unsigned(f.n, UINT_MAX)>> ELSE <<>>
ValueOf(piece) == IF piece.spec = "%" THEN <<>> ELSE <<piece.value>>
Taken(piece) ==
  IF IsLit(piece) THEN <<>>
  ELSE StarOf(piece.width) \o (StarOf(piece.precision) \o ValueOf(piece))

Called ==
  /\ format = FlattenSeq([k \in DOMAIN call.pieces |-> Spelled(call.pieces[k])])
  /\ va = FlattenSeq([k \in DOMAIN call.pieces |-> Taken(call.pieces[k])])
  /\ flags = {} /\ width = 0 /\ precision = 0
  /\ idx = 0
  /\ buffer = [i \in 0 .. Cells - 1 |-> Junk]
  /\ sent = <<>>
  /\ at = "loop"
PrintInit == call \in Calls /\ Called

-----------------------------------------------------------------------------
(* Reading a directive                                                     *)

\* *format
Char == IF format = <<>> THEN EOS ELSE Head(format)

\* How many elements of C the sequence s begins with, and what is behind.
Leading(s, C) == CHOOSE n \in 0 .. Len(s) :
  (n = Len(s) \/ s[n + 1] \notin C) /\ \A k \in 1 .. n : s[k] \in C
After(s, n) == SubSeq(s, n + 1, Len(s))

_is_digit == {Decimal[k] : k \in DOMAIN Decimal}
Value(c) == CHOOSE n \in 0 .. 9 : Decimal[n + 1] = c
_atoi(s) ==
  LET i[n \in 0 .. Leading(s, _is_digit)] ==
        IF n = 0 THEN 0 ELSE i[n - 1] * 10 + Value(s[n])
  IN i[Leading(s, _is_digit)]

\* if (*format != '%') ... else
Percent ==
  /\ at = "loop" /\ Char = "%"
  /\ format' = Tail(format)
  /\ at' = "flags"
  /\ UNCHANGED <<call, va, flags, width, precision, idx, buffer, sent>>

ReadFlags ==
  LET n == Leading(format, FlagChars) IN
  /\ at = "flags"
  /\ flags' = {format[k] : k \in 1 .. n}
  /\ format' = After(format, n)
  /\ at' = "width"
  /\ UNCHANGED <<call, va, width, precision, idx, buffer, sent>>

WidthNumber ==
  /\ at = "width" /\ Char \in _is_digit
  /\ width' = _atoi(format)
  /\ format' = After(format, Leading(format, _is_digit))
  /\ at' = "precision"
  /\ UNCHANGED <<call, va, flags, precision, idx, buffer, sent>>

\* A negative width pads on the right.
WidthStar ==
  LET w == Signed(Head(va), UINT_MAX) IN
  /\ at = "width" /\ Char = "*"
  /\ width' = IF w < 0 THEN -w ELSE w
  /\ flags' = IF w < 0 THEN flags \cup {LEFT} ELSE flags
  /\ va' = Tail(va)
  /\ format' = Tail(format)
  /\ at' = "precision"
  /\ UNCHANGED <<call, precision, idx, buffer, sent>>

NoWidth ==
  /\ at = "width" /\ Char \notin _is_digit \cup {"*"}
  /\ width' = 0
  /\ at' = "precision"
  /\ UNCHANGED <<call, format, va, flags, precision, idx, buffer, sent>>

NoPrecision ==
  /\ at = "precision" /\ Char # "."
  /\ precision' = 0
  /\ at' = "length"
  /\ UNCHANGED <<call, format, va, flags, width, idx, buffer, sent>>

Point ==
  /\ at = "precision" /\ Char = "."
  /\ flags' = flags \cup {"PRECISION"} /\ precision' = 0
  /\ format' = Tail(format)
  /\ at' = "point"
  /\ UNCHANGED <<call, va, width, idx, buffer, sent>>

PrecisionNumber ==
  /\ at = "point" /\ Char \in _is_digit
  /\ precision' = _atoi(format)
  /\ format' = After(format, Leading(format, _is_digit))
  /\ at' = "length"
  /\ UNCHANGED <<call, va, flags, width, idx, buffer, sent>>

PrecisionStar ==
  /\ at = "point" /\ Char = "*"
  /\ precision' = Larger(0, Signed(Head(va), UINT_MAX))
  /\ va' = Tail(va)
  /\ format' = Tail(format)
  /\ at' = "length"
  /\ UNCHANGED <<call, flags, width, idx, buffer, sent>>

PrecisionZero ==
  /\ at = "point" /\ Char \notin _is_digit \cup {"*"}
  /\ at' = "length"
  /\ UNCHANGED <<call, format, va, flags, width, precision, idx, buffer, sent>>

\* l, ll, h, hh, j and z; intmax_t is a long where that has 64 bits.  Both files
\* disable t (PRINTF_DISABLE_SUPPORT_PTRDIFF_T): it is no length, and as a
\* specifier it is printed like any other character, without an argument.
LengthChars(c) ==
  IF c \in {"l", "h"} THEN Smaller(2, Leading(format, {c}))
  ELSE IF c \in {"j", "z"} THEN 1 ELSE 0
LengthFlags(c, n) ==
  CASE c = "l" -> IF n = 2 THEN {"LONG", "LONG_LONG"} ELSE {"LONG"}
    [] c = "h" -> IF n = 2 THEN {"SHORT", "CHAR"} ELSE {"SHORT"}
    [] c = "z" -> {"LONG"}
    [] c = "j" -> IF ULONG_MAX[call.program] = ULLONG_MAX THEN {"LONG"} ELSE {"LONG_LONG"}
    [] OTHER -> {}
ReadLength ==
  LET n == LengthChars(Char) IN
  /\ at = "length"
  /\ flags' = flags \cup LengthFlags(Char, n)
  /\ format' = After(format, n)
  /\ at' = "specifier"
  /\ UNCHANGED <<call, va, width, precision, idx, buffer, sent>>

-----------------------------------------------------------------------------
(* Numbers.  buf has the last character first.                             *)

\* if (len < PRINTF_NTOA_BUFFER_SIZE) buf[len++] = c
Put(buf, c) == IF Len(buf) < NTOA_BUFFER_SIZE THEN Append(buf, c) ELSE buf
PadTo(buf, n) ==
  buf \o Copies("0", Smaller(n, NTOA_BUFFER_SIZE) - Len(buf))

_out_rev(buf, w, fl) ==
  LET padding == Copies(" ", w - Len(buf)) IN
  IF LEFT \in fl THEN Reverse(buf) \o padding
  ELSE IF ZEROPAD \in fl THEN Reverse(buf)
  ELSE padding \o Reverse(buf)

\* The zeros that were put there to make room for 0x go again.
HashRoom(buf, base, prec, w, fl) ==
  IF "PRECISION" \notin fl /\ buf # <<>> /\ Len(buf) \in {prec, w}
  THEN SubSeq(buf, 1, Len(buf) - (IF base = 16 /\ Len(buf) > 1 THEN 2 ELSE 1))
  ELSE buf
Hash(buf, base, fl) ==
  LET letter == CASE base = 16 -> IF "UPPERCASE" \in fl THEN <<"X">> ELSE <<"x">>
                  [] base = 2 -> <<"b">> [] OTHER -> <<>>
  IN Put(IF letter = <<>> THEN buf ELSE Put(buf, letter[1]), "0")

Sign(buf, negative, fl) ==
  IF negative THEN Put(buf, "-")
  ELSE IF PLUS \in fl THEN Put(buf, "+")
  ELSE IF SPACE \in fl THEN Put(buf, " ")
  ELSE buf

WholeWidth(w, negative, fl) == w
RoomForSign(w, negative, fl) ==
  IF /\ LEFT \notin fl /\ ZEROPAD \in fl /\ w > 0
     /\ negative \/ PLUS \in fl \/ SPACE \in fl
  THEN w - 1 ELSE w

_ntoa_format(digits, negative, base, prec, wd, fl) ==
  LET w == RoomForSign(wd, negative, fl)
      zeros == IF LEFT \in fl THEN digits
               ELSE IF ZEROPAD \in fl THEN PadTo(PadTo(digits, prec), w)
               ELSE PadTo(digits, prec)
      hashed == IF HASH \notin fl THEN zeros
                ELSE Hash(HashRoom(zeros, base, prec, w, fl), base, fl)
  IN _out_rev(Sign(hashed, negative, fl), w, fl)

\* The do-while, which makes at least one digit, for all values at once; and
\* what the buffer holds of it.
Divisions(base, letters) ==
  LET buf[value \in 0 .. ULLONG_MAX] ==
        <<letters[1 + (value % base)]>> \o (IF value \div base = 0 THEN <<>> ELSE buf[value \div base])
  IN buf
DigitsOf(value, base, fl) ==
  LET digits == Divisions(base, IF "UPPERCASE" \in fl THEN Uppercase ELSE Lowercase)[value]
  IN SubSeq(digits, 1, Smaller(Len(digits), NTOA_BUFFER_SIZE))

\* _ntoa_long_long does the same with more bits, which ArgumentMax says.
_ntoa_long(value, negative, base, prec, w, fl) ==
  _ntoa_format(IF "PRECISION" \in fl /\ value = 0 THEN <<>> ELSE DigitsOf(value, base, fl),
               negative, base, prec, w,
               IF value = 0 THEN fl \ {HASH} ELSE fl)

\* The type va_arg takes, and the cast.
ArgumentMax(fl) ==
  IF "LONG_LONG" \in fl THEN ULLONG_MAX
  ELSE IF "LONG" \in fl THEN ULONG_MAX[call.program]
  ELSE IF "CHAR" \in fl THEN UCHAR_MAX
  ELSE IF "SHORT" \in fl THEN USHRT_MAX
  ELSE UINT_MAX

\* The cases d, i, u, x, X, o and b.
Integers_ == {"d", "i", "u", "x", "X", "o", "b"}
Base(c) == IF c \in {"x", "X"} THEN 16 ELSE IF c = "o" THEN 8 ELSE IF c = "b" THEN 2 ELSE 10
IntegerFlags(c) ==
  (flags \cup (IF c = "X" THEN {"UPPERCASE"} ELSE {}))
    \ ((IF Base(c) = 10 THEN {HASH} ELSE {})
       \cup (IF c \in {"d", "i"} THEN {} ELSE {PLUS, SPACE})
       \cup (IF "PRECISION" \in flags THEN {ZEROPAD} ELSE {}))
Integer(c, arg) ==
  LET fl == IntegerFlags(c)
      value == IF c \in {"d", "i"} THEN Signed(arg, ArgumentMax(fl)) ELSE Unsigned(arg, ArgumentMax(fl))
  IN _ntoa_long(IF value < 0 THEN -value ELSE value, value < 0, Base(c), precision, width, fl)

\* The case p.
Pointer(arg) ==
  _ntoa_long(Unsigned(arg, ULONG_MAX[call.program]), FALSE, 16, precision,
             POINTER_DIGITS[call.program], flags \cup {ZEROPAD, "UPPERCASE"})

\* The cases c and s.
Padded(s) ==
  LET padding == Copies(" ", width - Len(s)) IN
  IF LEFT \in flags THEN s \o padding ELSE padding \o s
Cut(s) ==
  IF "PRECISION" \in flags THEN SubSeq(s, 1, Smaller(Len(s), precision)) ELSE s

\* What a directive prints of its argument.
Converted(c, arg) ==
  CASE c \in Integers_ -> Integer(c, arg)
    [] c = "p" -> Pointer(arg)
    [] c = "c" -> Padded(<<arg>>)
    [] c = "s" -> Padded(Cut(arg))

-----------------------------------------------------------------------------
(* Output                                                                  *)

\* out(c, buffer, idx++, maxlen) for each c of a sequence.
_out_buffer(text) ==
  [i \in DOMAIN buffer |->
     IF i >= idx /\ i < idx + Len(text) /\ i < call.maxlen THEN text[i - idx + 1]
     ELSE buffer[i]]
\* if (character)
_out_char(text) ==
  FlattenSeq([n \in DOMAIN text |-> IF text[n] = EOS THEN <<>> ELSE <<text[n]>>])
Out(text) ==
  /\ buffer' = IF call.out = "buffer" THEN _out_buffer(text) ELSE buffer
  /\ sent' = IF call.out = "char" THEN sent \o _out_char(text) ELSE sent
  /\ idx' = idx + Len(text)

Literal ==
  /\ at = "loop" /\ Char \notin {"%", EOS}
  /\ Out(<<Char>>)
  /\ format' = Tail(format)
  /\ UNCHANGED <<call, va, flags, width, precision, at>>

Convert ==
  /\ at = "specifier" /\ Char \in Integers_ \cup {"p", "c", "s"}
  /\ Out(Converted(Char, Head(va)))
  /\ va' = Tail(va)
  /\ format' = Tail(format)
  /\ at' = "loop"
  /\ UNCHANGED <<call, flags, width, precision>>

\* %%, and whatever else is behind a %.
OtherSpecifier ==
  /\ at = "specifier" /\ Char \notin Integers_ \cup {"p", "c", "s"}
  /\ Out(<<Char>>)
  /\ format' = Tail(format)
  /\ at' = "loop"
  /\ UNCHANGED <<call, va, flags, width, precision>>

\* The terminating zero, at maxlen - 1 if the text did not fit: size_t's
\* largest number when maxlen is zero.
UncutEnd == idx
End == IF idx < call.maxlen THEN idx ELSE (call.maxlen - 1) % (SIZE_MAX + 1)
Terminate ==
  /\ at = "loop" /\ Char = EOS
  /\ buffer' = IF call.out = "buffer" /\ End < call.maxlen
               THEN [i \in DOMAIN buffer \cup {End} |-> IF i = End THEN EOS ELSE buffer[i]]
               ELSE buffer
  /\ at' = "done"
  /\ UNCHANGED <<call, format, va, flags, width, precision, idx, sent>>

ReadWidth == WidthNumber \/ WidthStar \/ NoWidth
ReadPrecision == \/ NoPrecision \/ Point
                 \/ PrecisionNumber \/ PrecisionStar \/ PrecisionZero
PrintNext == \/ Literal \/ Percent \/ ReadFlags \/ ReadWidth \/ ReadPrecision \/ ReadLength
             \/ Convert \/ OtherSpecifier \/ Terminate
PrintSpec == PrintInit /\ [][PrintNext]_printVars

-----------------------------------------------------------------------------
(* What the C standard makes of a format.                                  *)

Has(piece, flag) == \E k \in DOMAIN piece.flags : piece.flags[k] = flag
IsSigned(piece) == piece.spec \in {"d", "i"}
WidthOf(piece) == IF piece.width.n < 0 THEN -piece.width.n ELSE piece.width.n
OnLeft(piece) == Has(piece, "-") \/ piece.width.n < 0
Precise(piece) == piece.precision.by # "none"
WithZeros(piece) == Has(piece, "0") /\ ~OnLeft(piece) /\ ~Precise(piece)

\* The number a directive prints: what its length says of the argument.
Number(piece, program) ==
  LET max == CASE piece.spec = "p" \/ piece.length \in {"l", "z"} -> ULONG_MAX[program]
               [] piece.spec # "p" /\ piece.length \in {"ll", "j"} -> ULLONG_MAX
               [] piece.spec # "p" /\ piece.length = "h" -> USHRT_MAX
               [] piece.spec # "p" /\ piece.length = "hh" -> UCHAR_MAX
               [] OTHER -> UINT_MAX
      low == piece.value % (max + 1)
  IN IF IsSigned(piece) /\ low > max \div 2 THEN low - (max + 1) ELSE low

\* Its digits, with the zeros in front that the precision asks for.
Magnitude(piece, program) ==
  LET v == Number(piece, program) IN IF v < 0 THEN -v ELSE v
Figures(piece, program) ==
  (CASE piece.spec \in {"X", "p"} -> Numeral(16, Uppercase) [] piece.spec = "x" -> Numeral(16, Lowercase)
     [] piece.spec = "o" -> Numeral(8, Decimal) [] piece.spec = "b" -> Numeral(2, Decimal)
     [] OTHER -> Numeral(10, Decimal))[Magnitude(piece, program)]
Least(piece, program) == IF piece.spec = "p" THEN POINTER_DIGITS[program]
                         ELSE IF Precise(piece) THEN piece.precision.n ELSE 1
Digits(piece, program) ==
  LET figures == Figures(piece, program) least == Least(piece, program) IN
  IF Magnitude(piece, program) = 0 /\ least = 0 THEN <<>>
  ELSE Copies("0", least - Len(figures)) \o figures

\* Its sign and its prefix.
SignOf(piece, program) ==
  IF ~IsSigned(piece) THEN <<>>
  ELSE IF Number(piece, program) < 0 THEN <<"-">>
  ELSE IF Has(piece, "+") THEN <<"+">>
  ELSE IF Has(piece, " ") THEN <<" ">> ELSE <<>>
Prefix(piece, program) ==
  LET digits == Digits(piece, program) nonzero == Magnitude(piece, program) # 0 IN
  IF ~Has(piece, "#") THEN <<>>
  ELSE CASE piece.spec \in {"x", "X", "b"} -> IF nonzero THEN <<"0", piece.spec>> ELSE <<>>
         [] piece.spec = "o" -> IF digits # <<>> /\ digits[1] = "0" THEN <<>> ELSE <<"0">>
         [] OTHER -> <<>>

\* At least the width wide, on the side the flags say.
Justified(piece, before, body) ==
  LET missing == WidthOf(piece) - Len(before) - Len(body) IN
  IF OnLeft(piece) THEN before \o body \o Copies(" ", missing)
  ELSE IF WithZeros(piece) /\ piece.spec \notin {"c", "s"}
  THEN before \o Copies("0", missing) \o body
  ELSE Copies(" ", missing) \o before \o body

Rendering(piece, program) ==
  IF IsLit(piece) THEN <<piece.lit>>
  ELSE CASE piece.spec = "%" -> <<"%">>
         [] piece.spec = "c" -> Justified(piece, <<>>, <<piece.value>>)
         [] piece.spec = "s" ->
              Justified(piece, <<>>, IF Precise(piece)
                                     THEN SubSeq(piece.value, 1, Smaller(Len(piece.value), piece.precision.n))
                                     ELSE piece.value)
         [] OTHER -> Justified(piece, SignOf(piece, program) \o Prefix(piece, program),
                               Digits(piece, program))
Text(c) == FlattenSeq([k \in DOMAIN c.pieces |-> Rendering(c.pieces[k], c.program)])

(* The directives the code converts as the standard says.                  *)

WellFormed(piece) ==
  /\ piece.flags \in Seq(FlagChars)
  /\ \/ piece.width.by = "none" /\ piece.width.n = 0
     \/ piece.width.by = "number" /\ piece.width.n \in 1 .. UINT_MAX
     \/ piece.width.by = "star" /\ piece.width.n \in -(UINT_MAX \div 2) .. UINT_MAX \div 2
  /\ \/ piece.precision.by \in {"none", "point"} /\ piece.precision.n = 0
     \/ piece.precision.by = "number" /\ piece.precision.n \in 0 .. UINT_MAX
     \/ piece.precision.by = "star" /\ piece.precision.n \in 0 .. UINT_MAX \div 2
  /\ piece.length \in {"none", "hh", "h", "l", "ll", "j", "z"}
  /\ piece.length = "none" \/ piece.spec \in Integers_
  /\ \/ piece.spec \in Integers_ \cup {"p"} /\ piece.value \in Nat
     \/ piece.spec = "c" /\ piece.value \in STRING
     \/ piece.spec = "s" /\ piece.value \in Seq(STRING)
     \/ piece.spec = "%"

\* The number fits in the code's buffer.  On the left the code has no zeros
\* for a precision; and what # puts in front takes the place of what the
\* number has where it is as long as the width.
AsTheStandard(piece, program) ==
  LET size == Len(Figures(piece, program))
      zero == Magnitude(piece, program) = 0
      digits == Digits(piece, program)
      before == SignOf(piece, program) \o Prefix(piece, program)
      w == WidthOf(piece) n == piece.precision.n
  IN
  /\ Len(before) + Len(digits) <= NTOA_BUFFER_SIZE
  /\ WithZeros(piece) => w <= NTOA_BUFFER_SIZE
  /\ OnLeft(piece) /\ Precise(piece) => n <= IF zero THEN 0 ELSE size
  /\ Has(piece, "#") /\ piece.spec \in {"x", "X", "o", "b"} /\ ~zero /\ ~Precise(piece) =>
       \/ w < size
       \/ WithZeros(piece) /\ IF piece.spec = "b" THEN w = size + 1 ELSE w >= size + Len(before)
       \/ ~WithZeros(piece) /\ w # size
  /\ Has(piece, "#") /\ piece.spec = "o" /\ Precise(piece) => IF zero THEN n # 0 ELSE n <= size

Conforming(piece, program) ==
  IF IsLit(piece) THEN piece.lit \in STRING \ {"%", EOS}
  ELSE /\ WellFormed(piece)
       /\ piece.spec \in Integers_ => AsTheStandard(piece, program)
       /\ piece.spec = "p" =>
            /\ piece.flags = <<>> /\ piece.width.by = "none" /\ ~Precise(piece)
            /\ Len(Digits(piece, program)) <= NTOA_BUFFER_SIZE

ASSUME PrintfAssumption ==
  /\ {UCHAR_MAX, USHRT_MAX, UINT_MAX} \subseteq 0 .. ULLONG_MAX /\ ULLONG_MAX \in Nat
  /\ ULONG_MAX \in [{"kernel", "loader"} -> 0 .. ULLONG_MAX]
  /\ POINTER_DIGITS \in [{"kernel", "loader"} -> Nat \ {0}]
  /\ NTOA_BUFFER_SIZE \in Nat /\ SIZE_MAX \in Nat /\ Cells \in Nat

\* A buffer has room for what is written to it: the text and its zero, or as
\* much as count says.
ASSUME CallsAssumption ==
  \A c \in Calls :
    /\ c.program \in {"kernel", "loader"}
    /\ c.out \in {"char", "buffer", "null"}
    /\ c.maxlen \in 0 .. SIZE_MAX
    /\ c.pieces \in Seq({c.pieces[k] : k \in DOMAIN c.pieces})
    /\ \A k \in DOMAIN c.pieces : Conforming(c.pieces[k], c.program)
    /\ c.out = "buffer" => Smaller(Len(Text(c)) + 1, c.maxlen) <= Cells

-----------------------------------------------------------------------------
(* Properties                                                              *)

PrintTypeOK ==
  /\ {idx, width, precision} \subseteq Nat
  /\ DOMAIN buffer = 0 .. Cells - 1
  /\ at \in {"loop", "flags", "width", "precision", "point", "length", "specifier", "done"}

\* printf and vprintf send the characters the standard says, in order; the
\* others write as many of them as count leaves room for, then a zero, and
\* nothing behind it; all return how many there are.
TextRendered ==
  LET text == Text(call)
      stored == Smaller(Len(text), Larger(call.maxlen - 1, 0))
  IN
  /\ PrintTypeOK
  /\ at = "done" =>
       /\ idx = Len(text)
       /\ sent = IF call.out = "char" THEN _out_char(text) ELSE <<>>
       /\ \A i \in DOMAIN buffer :
            buffer[i] = IF call.out # "buffer" \/ call.maxlen = 0 \/ i > stored THEN Junk
                        ELSE IF i < stored THEN text[i + 1] ELSE EOS
=============================================================================
