------------------------------- MODULE Div64 -------------------------------
(***************************************************************************)
(* 64-bit division for the 32-bit loader, src/loader/src/util/div.c: the   *)
(* largest shifted divider is subtracted until the rest is smaller than    *)
(* the divider.  A u32 has Bits bits, a u64 twice as many.                 *)
(***************************************************************************)
EXTENDS Integers

CONSTANT Bits  \* 32

ASSUME BitsAssumption == Bits \in Nat \ {0}

VARIABLES num, den,           \* the operands
          dividend, divider,
          result,
          locald, limit, shifts,
          rem,                \* *rem_p
          stage

divVars == <<num, den, dividend, divider, result, locald, limit, shifts, rem, stage>>

\* 2^n
Power[n \in 0 .. 2 * Bits] == IF n = 0 THEN 1 ELSE 2 * Power[n - 1]

MAX_32BIT_UINT == Power[Bits] - 1
u32(x) == x % Power[Bits]
u64(x) == x % Power[2 * Bits]
U64 == 0 .. Power[2 * Bits] - 1

\* union overlay64
lower(x) == x % Power[Bits]
higher(x) == x \div Power[Bits]
longw(high, low) == high * Power[Bits] + low

\* a | b of words that share no bit, as the shifts' halves
__ashldi3(x, shift) ==
  IF shift >= Bits THEN longw(u32(lower(x) * Power[shift - Bits]), 0)
  ELSE IF shift = 0 THEN x
  ELSE longw(u32(higher(x) * Power[shift]) + lower(x) \div Power[Bits - shift],
             u32(lower(x) * Power[shift]))
__lshrdi3(x, shift) ==
  IF shift >= Bits THEN longw(0, higher(x) \div Power[shift - Bits])
  ELSE IF shift = 0 THEN x
  ELSE longw(higher(x) \div Power[shift],
             lower(x) \div Power[shift] + u32(higher(x) * Power[Bits - shift]))

\* x | bit, where bit is a power of two
With(x, bit) == IF (x \div bit) % 2 = 1 THEN x ELSE x + bit

DivInit ==
  /\ num \in U64 /\ den \in U64
  /\ dividend = num /\ divider = den
  /\ result = 0 /\ locald = 0 /\ limit = 0 /\ shifts = 0 /\ rem = 0
  /\ stage = "start"

\* 1 / (u32)divider
DivideByZero ==
  /\ stage = "start" /\ divider = 0
  /\ stage' = "fault"
  /\ UNCHANGED <<num, den, dividend, divider, result, locald, limit, shifts, rem>>

Short == dividend <= MAX_32BIT_UINT

ShortByLong ==
  /\ stage = "start" /\ Short /\ divider > MAX_32BIT_UINT
  /\ result' = 0 /\ rem' = divider
  /\ stage' = "done"
  /\ UNCHANGED <<num, den, dividend, divider, locald, limit, shifts>>

ShortByShort ==
  /\ stage = "start" /\ Short /\ divider # 0 /\ divider <= MAX_32BIT_UINT
  /\ result' = u32(dividend) \div u32(divider)
  /\ rem' = u32(dividend) % u32(divider)
  /\ stage' = "done"
  /\ UNCHANGED <<num, den, dividend, divider, locald, limit, shifts>>

Long ==
  /\ stage = "start" /\ ~Short /\ divider # 0
  /\ stage' = "outer"
  /\ UNCHANGED <<num, den, dividend, divider, result, locald, limit, shifts, rem>>

\* while (divider <= dividend)
Half(x) == __lshrdi3(x, 1)
Outer ==
  /\ stage = "outer" /\ divider <= dividend
  /\ locald' = divider /\ limit' = Half(dividend) /\ shifts' = 0
  /\ stage' = "inner"
  /\ UNCHANGED <<num, den, dividend, divider, result, rem>>

\* while (locald <= limit)
Inner ==
  /\ stage = "inner" /\ locald <= limit
  /\ shifts' = shifts + 1
  /\ locald' = u64(locald + locald)
  /\ UNCHANGED <<num, den, dividend, divider, result, limit, rem, stage>>

BitOfWord(n) == Power[n % Bits]
Bit(n) == __ashldi3(1, n)
Unreduced(d, l) == d
Left(d, l) == u64(d - l)
Subtract ==
  /\ stage = "inner" /\ ~(locald <= limit)
  /\ result' = With(result, Bit(shifts))
  /\ dividend' = Left(dividend, locald)
  /\ stage' = "outer"
  /\ UNCHANGED <<num, den, divider, locald, limit, shifts, rem>>

OuterDone ==
  /\ stage = "outer" /\ ~(divider <= dividend)
  /\ rem' = dividend
  /\ stage' = "done"
  /\ UNCHANGED <<num, den, dividend, divider, result, locald, limit, shifts>>

DivNext == \/ DivideByZero \/ ShortByLong \/ ShortByShort \/ Long
        \/ Outer \/ Inner \/ Subtract \/ OuterDone

\* A function of one thread goes on.
DivSpec == DivInit /\ [][DivNext]_divVars /\ WF_divVars(DivNext)

-----------------------------------------------------------------------------
(* Properties                                                              *)

\* A u64 holds every value: no doubling and no difference leaves it.
DivTypeOK ==
  /\ {dividend, divider, result, locald, limit, rem} \subseteq U64
  /\ shifts \in 0 .. 2 * Bits - 1

\* Typed; and while it runs, what has been subtracted is the result times
\* the divider, no bit of the result is set twice, and the shifted divider
\* does not exceed what is left of the dividend.  In the end the quotient is
\* that of the operands, and so is the remainder but for a short dividend and
\* a long divider, where it is the divider (div.c:67).
Exact ==
  /\ DivTypeOK
  /\ stage \in {"outer", "inner"} =>
       /\ result * den + dividend = num
       /\ stage = "inner" => /\ locald = den * Power[shifts] /\ locald <= dividend
                          /\ (result \div Power[shifts]) % 2 = 0
  /\ stage = "done" =>
       /\ result = num \div den
       /\ rem = IF num <= MAX_32BIT_UINT /\ den > MAX_32BIT_UINT THEN den ELSE num % den

\* A division ends, or faults if the divider is 0.
Ends == IF den = 0 THEN <>(stage = "fault") ELSE <>(stage = "done")
=============================================================================
