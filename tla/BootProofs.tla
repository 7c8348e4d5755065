----------------------------- MODULE BootProofs -----------------------------
(***************************************************************************)
(* required_modules_left is right whatever the archive holds, so exec runs *)
(* only with every required module loaded; and an archive of no more files *)
(* than the header table holds overruns neither array.                     *)
(* And for every archive that tar makes, tar_parse finds the files where   *)
(* tar has put them, so that the modules loaded, and whether exec is       *)
(* called, are a matter of the archive's files alone.                      *)
(* Then what exec and the timer make of processes, and Interrupts, for     *)
(* every set of contexts and of lines: interrupts are transparent to exec  *)
(* and to user code, and the timer handler never meets a half-built        *)
(* process.                                                                *)
(***************************************************************************)
EXTENDS Boot, Proc, FiniteSetTheorems, SequenceTheorems, WellFoundedInduction, TLAPS

\* The names left; LoadModule takes some of them away.
Left == {k \in DOMAIN Required : required[k] # ""}

\* modules is a sequence, empty before it is initialized; required is
\* required_modules with some names crossed off; exec comes after the check.
BootInv ==
  /\ \E S : modules.items \in Seq(S)
  /\ ~initialized => modules.items = <<>>
  /\ required \in [DOMAIN Required -> Names \cup {""}]
  /\ Counted
  /\ pc = "exec" => left = 0

LEMMA RequiredSeq ==
  /\ Required \in [1 .. Len(Required) -> Names]
  /\ Len(Required) \in Nat
  /\ DOMAIN Required = 1 .. Len(Required)
<1>1. Required \in Seq(Names)
  BY RequiredAssumption
<1> HIDE RequiredAssumption
<1> QED BY <1>1

LEMMA LeftFinite == IsFiniteSet(DOMAIN Required)
BY RequiredSeq, FS_Interval

LEMMA BootInit == Init => BootInv
<1> SUFFICES ASSUME Init PROVE BootInv
  OBVIOUS
<1>1. modules.items \in Seq({}) /\ modules.items = <<>>
  BY DEF Init, Uninitialized
<1>2. required \in [DOMAIN Required -> Names \cup {""}]
  BY RequiredSeq DEF Init
<1>3. \A k \in DOMAIN Required : required[k] = Required[k] /\ required[k] # ""
  BY RequiredAssumption DEF Init
<1>4. Left = 1 .. Len(Required) /\ Len(Required) \in Nat
  BY <1>3, RequiredSeq DEF Left
<1>5. left = Cardinality(Left)
  <2>1. Cardinality(1 .. Len(Required)) = Len(Required)
    <3>1. \A n \in Nat : Cardinality(1 .. n) = IF 1 > n THEN 0 ELSE n - 1 + 1
      BY FS_Interval
    <3>2. \A n \in Nat : (IF 1 > n THEN 0 ELSE n - 1 + 1) = n
      OBVIOUS
    <3> QED BY <3>1, <3>2, RequiredSeq
  <2>2. left = Len(Required)
    BY DEF Init
  <2> QED BY <1>4, <2>1, <2>2
<1>6. \A k \in DOMAIN Required : ~\E m \in DOMAIN modules.items : modules.items[m].name = Required[k]
  BY <1>1
<1>7. Counted
  BY <1>3, <1>5, <1>6 DEF Counted, Left
<1>8. pc # "exec"
  BY DEF Init
<1> QED BY <1>1, <1>2, <1>7, <1>8 DEF BootInv

\* One module more: its name is crossed off, and those are as many as left
\* goes down by.
LEMMA LoadModuleCounts ==
  ASSUME BootInv, LoadModule
  PROVE  BootInv'
<1> DEFINE x == mhdr
           hit == Found(mhdr.name)
<1>1. PICK S : modules.items \in Seq(S)
  BY DEF BootInv
<1>2. Kept.items = modules.items
  BY DEF BootInv, Kept, INIT_DYN_ARRAY
<1>3. modules'.items = Append(modules.items, x)
  BY <1>2 DEF LoadModule, DYN_ARRAY_ADD
<1>4. modules.items \in Seq(S \cup {x})
  BY <1>1
<1>5. modules'.items \in Seq(S \cup {x})
  BY <1>3, <1>4
<1>6. /\ DOMAIN modules'.items = DOMAIN modules.items \cup {Len(modules.items) + 1}
      /\ \A m \in DOMAIN modules.items : modules'.items[m] = modules.items[m]
      /\ modules'.items[Len(modules.items) + 1] = x
  BY <1>3, <1>4
<1>7. /\ required' = [k \in DOMAIN required |-> IF k \in hit THEN "" ELSE required[k]]
      /\ left' = left - Cardinality(hit)
      /\ initialized'
      /\ pc' # "exec"
  BY DEF LoadModule
<1>8. DOMAIN required = DOMAIN Required
  BY DEF BootInv
<1>9. required' \in [DOMAIN Required -> Names \cup {""}]
  BY <1>7, <1>8 DEF BootInv
<1>10. IsFiniteSet(Left) /\ left = Cardinality(Left)
  BY LeftFinite, FS_Subset DEF BootInv, Counted, Left
<1>11. hit = {k \in DOMAIN Required : required[k] # "" /\ x.name = required[k]}
  <2>1. CASE left # 0
    BY <2>1, <1>8 DEF Found, Matching
  <2>2. CASE left = 0
    <3>1. Left = {}
      BY <1>10, <2>2, FS_EmptySet
    <3> QED BY <2>2, <3>1 DEF Found, Left
  <2> QED BY <2>1, <2>2
<1>12. hit \subseteq Left /\ IsFiniteSet(hit)
  BY <1>10, <1>11, FS_Subset DEF Left
<1>13. \A k \in DOMAIN Required : required[k] # "" => required[k] = Required[k]
  BY DEF BootInv, Counted
<1>14. \A k \in DOMAIN Required :
         required'[k] = IF \E m \in DOMAIN modules'.items : modules'.items[m].name = Required[k]
                        THEN "" ELSE Required[k]
  <2> SUFFICES ASSUME NEW k \in DOMAIN Required
               PROVE  required'[k] = IF \E m \in DOMAIN modules'.items : modules'.items[m].name = Required[k]
                                     THEN "" ELSE Required[k]
    OBVIOUS
  <2>1. required[k] = IF \E m \in DOMAIN modules.items : modules.items[m].name = Required[k]
                      THEN "" ELSE Required[k]
    BY DEF BootInv, Counted
  <2>2. (\E m \in DOMAIN modules'.items : modules'.items[m].name = Required[k])
          <=> (\E m \in DOMAIN modules.items : modules.items[m].name = Required[k]) \/ x.name = Required[k]
    BY <1>6
  <2>3. Required[k] # ""
    BY RequiredAssumption
  <2>4. required'[k] = IF required[k] # "" /\ x.name = required[k] THEN "" ELSE required[k]
    BY <1>7, <1>8, <1>11
  <2> QED BY <2>1, <2>2, <2>3, <2>4
<1>15. Left' = Left \ hit
  <2>1. \A k \in DOMAIN Required : required'[k] # "" <=> required[k] # "" /\ k \notin hit
    BY <1>7, <1>8
  <2> QED BY <2>1 DEF Left
<1>16. Cardinality(Left') = Cardinality(Left) - Cardinality(hit)
  <2>1. Left \cap hit = hit
    BY <1>12
  <2>2. Cardinality(Left \ hit) = Cardinality(Left) - Cardinality(Left \cap hit)
    BY <1>10, <1>12, FS_Difference
  <2> QED BY <1>15, <2>1, <2>2
<1>17. Counted'
  BY <1>7, <1>10, <1>14, <1>16 DEF Counted, Left
<1> QED BY <1>5, <1>7, <1>9, <1>17 DEF BootInv

LEMMA BootStep == BootInv /\ [Next]_vars => BootInv'
<1> SUFFICES ASSUME BootInv, [Next]_vars PROVE BootInv'
  OBVIOUS
<1>1. ASSUME UNCHANGED <<modules.items, required, left>>, initialized => initialized',
             pc' = "exec" => pc = "exec" \/ left = 0
      PROVE  BootInv'
  BY <1>1 DEF BootInv, Counted
<1>2. Kept.items = modules.items
  BY DEF BootInv, Kept, INIT_DYN_ARRAY
<1>3. CASE kernel_main
  BY <1>1, <1>3 DEF kernel_main, array
<1>4. CASE ParseEntry
  BY <1>1, <1>4 DEF ParseEntry, array
<1>5. CASE ParseDone
  BY <1>1, <1>5 DEF ParseDone, array
<1>6. CASE RefuseModule
  BY <1>1, <1>2, <1>6 DEF RefuseModule, AtFile
<1>7. CASE LoadModule
  BY <1>7, LoadModuleCounts
<1>8. CASE WildHeader
  BY <1>1, <1>2, <1>8 DEF WildHeader
<1>9. CASE FindInit
  BY <1>1, <1>9 DEF FindInit, array
<1>10. CASE PassFile
  BY <1>1, <1>10 DEF PassFile, array
<1>11. CASE Exec
  BY <1>1, <1>11 DEF Exec, check_required_modules, array
<1>12. CASE Halt
  BY <1>1, <1>12 DEF Halt, array
<1>13. CASE UNCHANGED vars
  BY <1>1, <1>13 DEF vars, array
<1> QED BY <1>3, <1>4, <1>5, <1>6, <1>7, <1>8, <1>9, <1>10, <1>11, <1>12, <1>13 DEF Next

\* required_modules and required_modules_left say which required modules have
\* not been loaded, for any archive and any list of distinct or equal names.
THEOREM RequiredCounted == Spec => []Counted
<1>1. BootInv => Counted
  BY DEF BootInv
<1> QED BY <1>1, BootInit, BootStep, PTL DEF Spec

\* kernel_main calls exec only when each name of required_modules is that of
\* a module whose load has returned 0.
THEOREM ExecHasModules ==
  Spec => [](pc = "exec" =>
               \A k \in DOMAIN Required : \E m \in DOMAIN modules.items :
                 modules.items[m].name = Required[k])
<1>1. BootInv => (pc = "exec" =>
                    \A k \in DOMAIN Required : \E m \in DOMAIN modules.items :
                      modules.items[m].name = Required[k])
  <2> SUFFICES ASSUME BootInv, pc = "exec", NEW k \in DOMAIN Required
               PROVE  \E m \in DOMAIN modules.items : modules.items[m].name = Required[k]
    OBVIOUS
  <2>1. IsFiniteSet(Left) /\ Cardinality(Left) = 0
    BY LeftFinite, FS_Subset DEF BootInv, Counted, Left
  <2>2. Left = {}
    BY <2>1, FS_EmptySet
  <2>3. required[k] = "" /\ Required[k] # ""
    BY <2>2, RequiredAssumption DEF Left
  <2> QED BY <2>3 DEF BootInv, Counted
<1> QED BY <1>1, BootInit, BootStep, PTL DEF Spec

-----------------------------------------------------------------------------
(* The array of modules                                                    *)

\* Before the array of modules is full for the first time, it is the one
\* INIT_DYN_ARRAY has made; DYN_ARRAY_ADD has neither grown nor moved it.
\* Each file makes one module at the most.
AsMade ==
  initialized /\ Len(modules.items) < ArraySize =>
    modules.size = ArraySize /\ modules.bytes = PtrSize * ArraySize
BoundsInv ==
  /\ \E S : modules.items \in Seq(S)
  /\ i \in Nat /\ Len(modules.items) <= i
  /\ ~initialized => modules.items = <<>>
  /\ AsMade

LEMMA BoundsInit == Init => BoundsInv
<1> SUFFICES ASSUME Init PROVE BoundsInv
  OBVIOUS
<1>1. modules.items \in Seq({}) /\ modules.items = <<>> /\ Len(modules.items) = 0 /\ i = 0
  BY DEF Init, Uninitialized
<1> QED
  BY <1>1 DEF Init, BoundsInv, AsMade

\* The array load_module adds to.
LEMMA KeptAsMade ==
  ASSUME BoundsInv
  PROVE  /\ Kept.items = modules.items
         /\ Len(Kept.items) < ArraySize =>
              Kept.size = ArraySize /\ Kept.bytes = PtrSize * ArraySize
BY DEF BoundsInv, AsMade, Kept, INIT_DYN_ARRAY

\* One module more: an array that is still not full has had room for it.
LEMMA LoadModuleFits ==
  ASSUME BoundsInv, LoadModule
  PROVE  BoundsInv' /\ (i + 1 < ArraySize => Fits(modules'))
<1> DEFINE x == mhdr
           n == Len(modules.items)
<1>1. PICK S : modules.items \in Seq(S)
  BY DEF BoundsInv
<1>2. n \in Nat /\ i \in Nat /\ n <= i
  BY <1>1 DEF BoundsInv
<1>3. modules' = DYN_ARRAY_ADD(Kept, x) /\ initialized' /\ i' = i + 1
  BY DEF LoadModule
<1>4. /\ Kept.items = modules.items
      /\ n < ArraySize => Kept.size = ArraySize /\ Kept.bytes = PtrSize * ArraySize
  BY KeptAsMade
<1>5. /\ modules'.items = Append(modules.items, x)
      /\ n + 1 < ArraySize => modules'.size = Kept.size /\ modules'.bytes = Kept.bytes
  <2>2. ~(n + 1 >= Kept.size) =>
          DYN_ARRAY_ADD(Kept, x) =
            [items |-> Append(Kept.items, x), size |-> Kept.size, bytes |-> Kept.bytes]
    BY <1>4 DEF DYN_ARRAY_ADD
  <2>3. DYN_ARRAY_ADD(Kept, x).items = Append(Kept.items, x)
    BY DEF DYN_ARRAY_ADD
  <2>4. n + 1 < ArraySize => ~(n + 1 >= Kept.size)
    BY <1>2, <1>4, SizesAssumption
  <2> HIDE DEF n
  <2> QED BY <1>3, <1>4, <2>2, <2>3, <2>4
<1>6. modules'.items \in Seq(S \cup {x}) /\ Len(modules'.items) = n + 1
  BY <1>1, <1>5
<1>7. Len(modules'.items) < ArraySize =>
        /\ modules'.size = ArraySize /\ modules'.bytes = PtrSize * ArraySize
        /\ Fits(modules')
  BY <1>2, <1>4, <1>5, <1>6, SizesAssumption DEF Fits, PtrSize
<1> HIDE DEF n
<1>8. i' \in Nat /\ Len(modules'.items) <= i'
  BY <1>2, <1>3, <1>6
<1>9. i + 1 < ArraySize => Len(modules'.items) < ArraySize
  BY <1>2, <1>6, SizesAssumption
<1> QED BY <1>3, <1>6, <1>7, <1>8, <1>9 DEF BoundsInv, AsMade

LEMMA BoundsStep == BoundsInv /\ [Next]_vars => BoundsInv'
<1> SUFFICES ASSUME BoundsInv, [Next]_vars PROVE BoundsInv'
  OBVIOUS
<1>0. i \in Nat /\ Len(modules.items) \in Nat
  BY DEF BoundsInv
<1>1. ASSUME UNCHANGED <<initialized, modules>>, i' \in {i, i + 1} PROVE BoundsInv'
  <2>1. i' \in Nat /\ i <= i'
    BY <1>0, <1>1
  <2> QED
    BY <1>0, <1>1, <2>1 DEF BoundsInv, AsMade
<1>2. ASSUME modules' = Kept, initialized', i' \in {i, i + 1} PROVE BoundsInv'
  <2>1. i' \in Nat /\ i <= i'
    BY <1>0, <1>2
  <2> QED
    BY <1>0, <1>2, <2>1, KeptAsMade DEF BoundsInv, AsMade
<1>3. CASE kernel_main
  BY <1>1, <1>3 DEF kernel_main, array
<1>4. CASE ParseEntry
  BY <1>1, <1>4 DEF ParseEntry, array
<1>5. CASE ParseDone
  BY <1>1, <1>5 DEF ParseDone, array
<1>6. CASE RefuseModule
  BY <1>2, <1>6 DEF RefuseModule
<1>7. CASE LoadModule
  BY <1>7, LoadModuleFits
<1>8. CASE WildHeader
  BY <1>2, <1>8 DEF WildHeader
<1>9. CASE FindInit
  BY <1>1, <1>9 DEF FindInit, array
<1>10. CASE PassFile
  BY <1>1, <1>10 DEF PassFile, array
<1>11. CASE Exec
  BY <1>1, <1>11 DEF Exec, array
<1>12. CASE Halt
  BY <1>1, <1>12 DEF Halt, array
<1>13. CASE UNCHANGED vars
  BY <1>1, <1>13 DEF vars, array
<1> QED BY <1>3, <1>4, <1>5, <1>6, <1>7, <1>8, <1>9, <1>10, <1>11, <1>12, <1>13 DEF Next

-----------------------------------------------------------------------------
(* Functions defined by recursion                                          *)

LEMMA InductTo ==
  ASSUME NEW n \in Nat, NEW S, 0 \in S, \A k \in 1 .. n : k - 1 \in S => k \in S
  PROVE  0 .. n \subseteq S
<1> DEFINE R == OpToRel(<, Nat)
<1>1. IsWellFoundedOn(R, Nat)
  BY NatLessThanWellFounded, Zenon
<1>2. \A x, y \in Nat : x < y => <<x, y>> \in R
  BY DEF OpToRel
<1> HIDE DEF R
<1> DEFINE T == {k \in Nat : k \in 0 .. n /\ k \notin S}
<1> SUFFICES ASSUME T # {} PROVE FALSE
  OBVIOUS
<1>3. T \subseteq Nat
  OBVIOUS
<1>4. PICK x \in T : \A y \in T : ~(<<y, x>> \in R)
  <2> HIDE DEF T
  <2> QED
    BY <1>1, <1>3, WFMin
<1>5. x \in 1 .. n /\ x - 1 \in Nat /\ x - 1 < x /\ x - 1 \in 0 .. n /\ x \in Nat /\ x \notin S
  BY <1>4
<1>6. x - 1 \in S
  BY <1>2, <1>4, <1>5
<1> QED
  BY <1>5, <1>6

\* g starts with b, and st says what follows.
Follows(g, b, n, st) ==
  \A k \in 0 .. n : g[k] = IF k = 0 THEN b ELSE st[<<k, g[k - 1]>>]

LEMMA Recursion ==
  ASSUME NEW X, NEW b \in X, NEW n \in Nat, NEW st \in [(1 .. n) \X X -> X]
  PROVE  \E g \in [0 .. n -> X] : Follows(g, b, n, st)
<1> USE DEF Follows
<1> DEFINE Is(m, g) == Follows(g, b, m, st)
           I == {m \in 0 .. n : \E g \in [0 .. m -> X] : Is(m, g)}
<1>1. 0 \in I
  <2> DEFINE g == [k \in 0 .. 0 |-> b]
  <2>1. g \in [0 .. 0 -> X] /\ Is(0, g)
    OBVIOUS
  <2>2. 0 \in 0 .. n
    OBVIOUS
  <2> HIDE DEF g, Is
  <2> QED
    BY <2>1, <2>2
<1>2. ASSUME NEW m \in 1 .. n, m - 1 \in I PROVE m \in I
  <2>1. PICK g \in [0 .. m - 1 -> X] : Is(m - 1, g)
    BY <1>2
  <2> DEFINE x == st[<<m, g[m - 1]>>]
             h == [k \in 0 .. m |-> IF k = m THEN x ELSE g[k]]
  <2>2. m - 1 \in 0 .. m - 1 /\ g[m - 1] \in X /\ x \in X
    BY <2>1
  <2>3. \A k \in 0 .. m : k # m => k \in 0 .. m - 1
    OBVIOUS
  <2>4. h \in [0 .. m -> X]
    <3> HIDE DEF x
    <3> QED
      BY <2>1, <2>2, <2>3
  <2>5. ASSUME NEW k \in 0 .. m PROVE h[k] = IF k = 0 THEN b ELSE st[<<k, h[k - 1]>>]
    <3>1. CASE k = m
      <4>1. k # 0 /\ k - 1 \in 0 .. m /\ k - 1 # m /\ m \in 0 .. m
        BY <3>1
      <4>2. h[k] = x /\ h[k - 1] = g[m - 1]
        BY <3>1, <4>1
      <4> QED
        BY <3>1, <4>1, <4>2
    <3>2. CASE k # m
      <4>1. k \in 0 .. m - 1 /\ (k # 0 => k - 1 \in 0 .. m /\ k - 1 # m)
        BY <3>2
      <4>2. h[k] = g[k] /\ (k # 0 => h[k - 1] = g[k - 1])
        BY <3>2, <4>1
      <4>3. g[k] = IF k = 0 THEN b ELSE st[<<k, g[k - 1]>>]
        BY <2>1, <4>1
      <4> QED
        BY <4>2, <4>3
    <3> QED
      BY <3>1, <3>2
  <2>6. m \in 0 .. n
    OBVIOUS
  <2> HIDE DEF h
  <2> QED
    BY <2>4, <2>5, <2>6
<1>3. n \in I
  <2>1. n \in 0 .. n
    OBVIOUS
  <2> HIDE DEF I
  <2> QED
    BY <1>1, <1>2, <2>1, InductTo
<1> QED
  BY <1>3

-----------------------------------------------------------------------------
(* The sizes                                                               *)

LEMMA EightToFacts ==
  /\ EightTo[0] = 1
  /\ \A k \in 0 .. Digits : EightTo[k] \in Nat \ {0}
  /\ \A k \in 1 .. Digits : EightTo[k] = 8 * EightTo[k - 1]
<1> DEFINE Eq(g) == g = [k \in 0 .. Digits |-> IF k = 0 THEN 1 ELSE 8 * g[k - 1]]
           st == [x \in (1 .. Digits) \X Nat |-> 8 * x[2]]
<1>0. Digits \in Nat
  BY SizesAssumption
<1>1. st \in [(1 .. Digits) \X Nat -> Nat]
  OBVIOUS
<1>b. \A k \in 1 .. Digits, v \in Nat : st[<<k, v>>] = 8 * v
  OBVIOUS
<1> HIDE DEF st
<1>2. PICK g \in [0 .. Digits -> Nat] : Follows(g, 1, Digits, st)
  <2>1. 1 \in Nat
    OBVIOUS
  <2> QED
    BY <1>0, <1>1, <2>1, Recursion
<1>3. \A k \in 0 .. Digits : k # 0 => k \in 1 .. Digits /\ k - 1 \in 0 .. Digits
  BY <1>0
<1>4. \A k \in 0 .. Digits : g[k] = IF k = 0 THEN 1 ELSE 8 * g[k - 1]
  BY <1>2, <1>3, <1>b DEF Follows
<1>5. Eq(g)
  BY <1>2, <1>4
<1>6. Eq(EightTo)
  <2>1. \E f : Eq(f)
    BY <1>5
  <2> QED
    BY <2>1, Zenon DEF EightTo
<1>7. \A k \in 0 .. Digits : EightTo[k] = IF k = 0 THEN 1 ELSE 8 * EightTo[k - 1]
  BY <1>6
<1>8. EightTo[0] = 1 /\ \A k \in 1 .. Digits : EightTo[k] = 8 * EightTo[k - 1]
  <2>1. 0 \in 0 .. Digits /\ \A k \in 1 .. Digits : k \in 0 .. Digits /\ k # 0
    BY <1>0
  <2> QED
    BY <1>7, <2>1
<1> DEFINE I == {k \in 0 .. Digits : EightTo[k] \in Nat \ {0}}
<1>9. 0 \in I
  BY <1>0, <1>8
<1>10. ASSUME NEW k \in 1 .. Digits, k - 1 \in I PROVE k \in I
  BY <1>0, <1>8, <1>10
<1>11. 0 .. Digits \subseteq I
  <2> HIDE DEF I
  <2> QED
    BY <1>0, <1>9, <1>10, InductTo
<1> QED
  BY <1>8, <1>11

\* Quotient and remainder are the only ones.
LEMMA Quotient ==
  ASSUME NEW d \in Nat \ {0}, NEW q \in Nat, NEW r \in 0 .. d - 1
  PROVE  q = (q * d + r) \div d /\ r = (q * d + r) % d
<1> DEFINE x == q * d + r
           y == x \div d
           s == x % d
<1>1. x \in Nat
  OBVIOUS
<1> HIDE DEF x
<1>2. y \in Nat /\ s \in 0 .. d - 1 /\ x = d * y + s
  BY <1>1
<1> HIDE DEF y, s
<1>3. q * d + r = y * d + s
  BY <1>2 DEF x
<1>4. ASSUME NEW m \in Nat, NEW n \in Nat, m < n PROVE m * d + d <= n * d /\ m * d \in Nat
  <2>1. PICK e \in Nat : n = (m + 1) + e
    BY <1>4, n - (m + 1) \in Nat
  <2>2. n * d = (m + 1) * d + e * d /\ (m + 1) * d = m * d + d /\ e * d \in Nat /\ m * d \in Nat
    BY <2>1
  <2> QED
    BY <2>2
<1>5. q = y
  <2> SUFFICES ASSUME q # y PROVE FALSE
    OBVIOUS
  <2>1. CASE q < y
    <3>1. q * d + d <= y * d /\ q * d \in Nat /\ y * d \in Nat
      BY <1>2, <1>4, <2>1
    <3> QED
      BY <1>2, <1>3, <3>1
  <2>2. CASE y < q
    <3>1. y * d + d <= q * d /\ y * d \in Nat /\ q * d \in Nat
      BY <1>2, <1>4, <2>2
    <3> QED
      BY <1>2, <1>3, <3>1
  <2> QED
    BY <1>2, <2>1, <2>2
<1>6. r = s
  <2>1. q * d \in Nat
    OBVIOUS
  <2> QED
    BY <1>2, <1>3, <1>5, <2>1
<1> QED
  BY <1>5, <1>6 DEF x, y, s

\* One digit more, unless the number has none left and the weight has wrapped.
LEMMA OneDigit ==
  ASSUME NEW n \in Nat, n < Word, NEW p \in Nat \ {0}
  PROVE  ((n % p) + ((n \div p) % 8) * (p % Word)) % Word = n % (8 * p)
<1> DEFINE q == n \div p
           r == n % p
           Q == q \div 8
           R == q % 8
           m == p * R + r
<1>1. q \in Nat /\ r \in 0 .. p - 1 /\ n = p * q + r
  OBVIOUS
<1> HIDE DEF q, r
<1>2. Q \in Nat /\ R \in 0 .. 7 /\ q = 8 * Q + R
  BY <1>1
<1> HIDE DEF Q, R
<1>3. p * R \in Nat /\ p * R <= 7 * p
  <2>1. PICK e \in Nat : 7 = R + e
    BY <1>2, 7 - R \in Nat
  <2>2. p * 7 = p * R + p * e /\ p * R \in Nat /\ p * e \in Nat
    BY <1>2, <2>1
  <2> QED
    BY <2>2
<1>4. m \in 0 .. 8 * p - 1 /\ 8 * p \in Nat \ {0}
  <2> DEFINE x == p * R
  <2> HIDE DEF x
  <2>1. x \in Nat /\ x <= 7 * p /\ m = x + r
    BY <1>3 DEF x
  <2> HIDE DEF m
  <2> QED
    BY <1>1, <2>1
<1>5. n = Q * (8 * p) + m /\ Q * (8 * p) \in Nat
  <2>1. p * q = p * (8 * Q + R)
    BY <1>2
  <2>2. p * (8 * Q + R) = Q * (8 * p) + p * R /\ Q * (8 * p) \in Nat
    BY <1>2
  <2>3. m = p * R + r /\ p * R \in Nat /\ r \in Nat
    BY <1>1, <1>3
  <2> DEFINE x == p * R
             y == Q * (8 * p)
  <2>4. n = (y + x) + r /\ m = x + r /\ x \in Nat /\ y \in Nat
    BY <1>1, <2>1, <2>2, <2>3
  <2> HIDE DEF x, m
  <2>5. y \in Nat /\ n = y + m
    <3> HIDE DEF y
    <3> QED
      BY <2>3, <2>4
  <2> QED
    BY <2>5
<1> HIDE DEF m
<1>6. m = n % (8 * p)
  BY <1>2, <1>4, <1>5, Quotient
<1>7. m <= n /\ m < Word /\ m \in Nat
  <2>1. m \in Nat
    BY <1>4
  <2>2. \A y \in Nat : n = y + m => m <= n
    BY <2>1
  <2>3. m <= n
    BY <1>5, <2>2
  <2> QED
    BY <2>1, <2>3, SizesAssumption
<1>8. m % Word = m /\ Word \in Nat \ {0}
  BY <1>7, SizesAssumption
<1>9. R * (p % Word) = p * R
  <2>1. CASE p < Word
    <3>1. p % Word = p
      BY <1>8, <2>1
    <3> QED
      BY <1>2, <3>1
  <2>2. CASE ~(p < Word)
    <3>1. q = 0
      <4>1. n < p
        BY <1>8, <2>2
      <4>2. n = 0 * p + n /\ n \in 0 .. p - 1
        BY <4>1
      <4>3. 0 = n \div p
        BY <4>2, Quotient
      <4> QED
        BY <4>3 DEF q
    <3>2. R = 0
      BY <1>2, <3>1
    <3>3. p % Word \in Nat
      BY <1>8
    <3> QED
      BY <3>2, <3>3
  <2> QED
    BY <2>1, <2>2
<1>10. r + R * (p % Word) = m
  BY <1>1, <1>3, <1>9 DEF m
<1> QED
  BY <1>6, <1>8, <1>10 DEF q, r, R

\* tar_get_size reads what tar writes, of every size that fits.
LEMMA SizeIsRead ==
  ASSUME NEW n \in Nat, n < Word, n < EightTo[Digits]
  PROVE  tar_get_size(Octal(n)) = n
<1> DEFINE in == Octal(n)
           w(j) == in[Digits - j + 1] * (EightTo[j - 1] % Word)
           Eq(g) == g = [j \in 0 .. Digits |->
                           IF j = 0 THEN 0
                           ELSE (g[j - 1] + in[Digits - j + 1] * (EightTo[j - 1] % Word)) % Word]
           value == CHOOSE g : Eq(g)
           st == [x \in (1 .. Digits) \X Nat |-> (x[2] + w(x[1])) % Word]
<1>1. Digits \in Nat /\ Word \in Nat \ {0}
  BY SizesAssumption
<1>2. tar_get_size(in) = value[Digits]
  BY Zenon DEF tar_get_size
<1>3. ASSUME NEW j \in 1 .. Digits
      PROVE  /\ EightTo[j - 1] \in Nat \ {0} /\ EightTo[j] = 8 * EightTo[j - 1]
             /\ in[Digits - j + 1] = (n \div EightTo[j - 1]) % 8
             /\ w(j) \in Nat
  <2>1. j - 1 \in 0 .. Digits /\ Digits - j + 1 \in 1 .. Digits /\ Digits - (Digits - j + 1) = j - 1
    BY <1>1
  <2>2. EightTo[j - 1] \in Nat \ {0} /\ EightTo[j] = 8 * EightTo[j - 1]
    BY <2>1, EightToFacts
  <2>3. in[Digits - j + 1] = (n \div EightTo[j - 1]) % 8
    BY <2>1 DEF Octal
  <2>4. (n \div EightTo[j - 1]) % 8 \in Nat /\ EightTo[j - 1] % Word \in Nat
    <3> DEFINE p == EightTo[j - 1]
    <3>1. p \in Nat \ {0}
      BY <2>2
    <3> HIDE DEF p
    <3>2. n \div p \in Nat /\ p % Word \in Nat
      BY <1>1, <3>1
    <3>3. (n \div p) % 8 \in Nat
      BY <3>2
    <3> QED
      BY <3>2, <3>3 DEF p
  <2>5. \A x, y \in Nat : x * y \in Nat
    OBVIOUS
  <2> QED
    BY <2>2, <2>3, <2>4, <2>5
<1>4. value = [j \in 0 .. Digits |->
                 IF j = 0 THEN 0
                 ELSE (value[j - 1] + in[Digits - j + 1] * (EightTo[j - 1] % Word)) % Word]
  <2>1. st \in [(1 .. Digits) \X Nat -> Nat]
    <3>1. \A j \in 1 .. Digits, v \in Nat : (v + w(j)) % Word \in Nat
      <4> HIDE DEF w
      <4> QED
        BY <1>1, <1>3
    <3> HIDE DEF w
    <3> QED
      BY <3>1
  <2>2. \A j \in 1 .. Digits, v \in Nat : st[<<j, v>>] = (v + w(j)) % Word
    <3> HIDE DEF w
    <3> QED
      OBVIOUS
  <2> HIDE DEF st
  <2>3. PICK g \in [0 .. Digits -> Nat] : Follows(g, 0, Digits, st)
    <3>1. 0 \in Nat
      OBVIOUS
    <3> QED
      BY <1>1, <2>1, <3>1, Recursion
  <2>4. ASSUME NEW j \in 0 .. Digits, j # 0 PROVE g[j] = (g[j - 1] + w(j)) % Word
    <3>1. j \in 1 .. Digits /\ g[j - 1] \in Nat
      BY <1>1, <2>3, <2>4
    <3> QED
      BY <2>2, <2>3, <2>4, <3>1 DEF Follows
  <2>5. Eq(g)
    <3>1. g = [j \in 0 .. Digits |-> g[j]]
      BY <2>3
    <3>2. \A j \in 0 .. Digits : g[j] = IF j = 0 THEN 0 ELSE (g[j - 1] + w(j)) % Word
      BY <2>3, <2>4 DEF Follows
    <3> HIDE DEF in
    <3> QED
      BY <3>1, <3>2, Zenon
  <2>6. \E f : Eq(f)
    BY <2>5
  <2> HIDE DEF in
  <2> QED
    BY <2>6, Zenon
<1> HIDE DEF value
<1> DEFINE I == {j \in 0 .. Digits : value[j] = n % EightTo[j]}
<1>5. 0 \in I
  <2>1. 0 \in 0 .. Digits /\ EightTo[0] = 1 /\ n % 1 = 0
    BY <1>1, EightToFacts
  <2> QED
    BY <1>4, <2>1
<1>6. ASSUME NEW j \in 1 .. Digits, j - 1 \in I PROVE j \in I
  <2> DEFINE p == EightTo[j - 1]
  <2>1. p \in Nat \ {0} /\ EightTo[j] = 8 * p /\ in[Digits - j + 1] = (n \div p) % 8
    BY <1>3
  <2>2. value[j - 1] = n % p /\ j \in 0 .. Digits /\ j # 0
    BY <1>1, <1>6
  <2>3. value[j] = (value[j - 1] + in[Digits - j + 1] * (p % Word)) % Word
    BY <1>4, <2>2
  <2> HIDE DEF p, in
  <2>4. value[j] = ((n % p) + ((n \div p) % 8) * (p % Word)) % Word
    BY <2>1, <2>2, <2>3
  <2>5. value[j] = n % (8 * p)
    BY <2>1, <2>4, OneDigit
  <2> QED
    BY <2>1, <2>2, <2>5
<1>7. Digits \in I
  <2>1. Digits \in 0 .. Digits
    BY <1>1
  <2> HIDE DEF I
  <2> QED
    BY <1>1, <1>5, <1>6, <2>1, InductTo
<1>8. n % EightTo[Digits] = n
  <2>1. EightTo[Digits] \in Nat \ {0}
    BY <1>1, EightToFacts
  <2> QED
    BY <2>1
<1> QED
  BY <1>2, <1>7, <1>8

-----------------------------------------------------------------------------
(* The blocks                                                              *)

HeaderOf(k) == [kind |-> "header", filename |-> files[k].filename, size |-> Octal(files[k].size)]
Stuff == UNION {Elements(files[k].data) \cup {HeaderOf(k)} : k \in 1 .. Len(files)}

LEMMA FilesSeq ==
  ASSUME files \in Archives
  PROVE  Len(files) \in Nat /\ DOMAIN files = 1 .. Len(files)
BY ArchivesAssumption, LenProperties

\* tar_parse goes on by as many blocks as tar has written.
LEMMA BlocksAreCounted ==
  ASSUME NEW n \in Nat
  PROVE  /\ (n + BlockSize - 1) \div BlockSize \in Nat
         /\ n > 0 <=> (n + BlockSize - 1) \div BlockSize > 0
         /\ AfterFile(n) = BlockSize * ((n + BlockSize - 1) \div BlockSize + 1)
<1> DEFINE b == BlockSize
           q == n \div b
           r == n % b
<1>1. b \in Nat \ {0}
  BY SizesAssumption
<1> HIDE DEF b
<1>2. q \in Nat /\ r \in 0 .. b - 1 /\ n = b * q + r
  BY <1>1
<1>3. AfterFile(n) = (q + 1) * b + (IF r # 0 THEN b ELSE 0)
  BY DEF AfterFile, FullBlocks, b
<1> HIDE DEF q, r
<1>4. b * q \in Nat /\ (q + 1) * b = b * q + b /\ b * (q + 1) = b * q + b
      /\ b * (q + 2) = b * q + (b + b) /\ q * b = b * q
  BY <1>1, <1>2
<1> DEFINE t == b * q
           c == (n + b - 1) \div b
<1>5. CASE r = 0
  <2>1. n + b - 1 = q * b + (b - 1) /\ b - 1 \in 0 .. b - 1
    <3>1. t \in Nat /\ n = t + r /\ q * b = t
      BY <1>2, <1>4
    <3> HIDE DEF t
    <3> QED
      BY <1>1, <1>5, <3>1
  <2>2. q = c
    BY <1>1, <1>2, <2>1, Quotient
  <2>3. AfterFile(n) = b * (c + 1)
    BY <1>1, <1>2, <1>3, <1>4, <1>5, <2>2
  <2>4. n > 0 => q > 0
    <3>1. q = 0 => t = 0
      BY <1>1
    <3>2. n = t + 0
      BY <1>2, <1>4, <1>5
    <3> HIDE DEF t
    <3> QED
      BY <1>2, <3>1, <3>2
  <2>5. q > 0 => n > 0
    <3>1. q > 0 => t > 0
      BY <1>1, <1>2
    <3>2. n = t + 0 /\ t \in Nat
      BY <1>2, <1>4, <1>5
    <3> HIDE DEF t
    <3> QED
      BY <3>1, <3>2
  <2> QED
    BY <1>2, <2>2, <2>3, <2>4, <2>5 DEF b
<1>6. CASE r # 0
  <2>1. n + b - 1 = (q + 1) * b + (r - 1) /\ r - 1 \in 0 .. b - 1
    <3>1. t \in Nat /\ n = t + r /\ (q + 1) * b = t + b
      BY <1>2, <1>4
    <3> HIDE DEF t
    <3> QED
      BY <1>1, <1>2, <1>6, <3>1
  <2>2. q + 1 = c
    <3>1. q + 1 \in Nat
      BY <1>2
    <3> QED
      BY <1>1, <2>1, <3>1, Quotient
  <2>3. AfterFile(n) = b * (c + 1)
    <3>1. c + 1 = q + 2
      BY <1>2, <2>2
    <3>2. AfterFile(n) = (t + b) + b
      BY <1>3, <1>4, <1>6
    <3>3. b * (q + 2) = t + (b + b) /\ t \in Nat
      BY <1>4
    <3> HIDE DEF t, c
    <3> QED
      BY <1>1, <3>1, <3>2, <3>3
  <2>4. n > 0
    <3>1. t \in Nat /\ n = t + r
      BY <1>2, <1>4
    <3> HIDE DEF t
    <3> QED
      BY <1>2, <1>6, <3>1
  <2> QED
    BY <1>2, <2>2, <2>3, <2>4 DEF b
<1> QED
  BY <1>5, <1>6

LEMMA FileFacts ==
  ASSUME files \in Archives, NEW k \in 1 .. Len(files)
  PROVE  LET file == files[k] IN
         /\ file.size \in Nat /\ tar_get_size(Octal(file.size)) = file.size
         /\ file.data \in Seq(Stuff) /\ Len(file.data) \in Nat
         /\ file.size > 0 <=> Len(file.data) > 0
         /\ AfterFile(file.size) = BlockSize * (Len(file.data) + 1)
         /\ FileBlocks(file) \in Seq(Stuff) /\ Len(FileBlocks(file)) = Len(file.data) + 1
         /\ FileBlocks(file)[1] = HeaderOf(k)
         /\ Len(file.data) > 0 => FileBlocks(file)[2] = file.data[1]
<1> DEFINE file == files[k]
<1>1. /\ file.size \in Nat /\ file.size < Word /\ file.size < EightTo[Digits]
      /\ file.data \in Seq(Elements(file.data))
      /\ Len(file.data) = (file.size + BlockSize - 1) \div BlockSize
  BY ArchivesAssumption, FilesSeq
<1>2. tar_get_size(Octal(file.size)) = file.size
  BY <1>1, SizeIsRead
<1>3. /\ Len(file.data) \in Nat /\ (file.size > 0 <=> Len(file.data) > 0)
      /\ AfterFile(file.size) = BlockSize * (Len(file.data) + 1)
  BY <1>1, BlocksAreCounted
<1> DEFINE h == HeaderOf(k)
<1>4. Elements(file.data) \subseteq Stuff /\ h \in Stuff
  BY DEF Stuff
<1> HIDE DEF h
<1>5. file.data \in Seq(Stuff) /\ <<h>> \in Seq(Stuff) /\ Len(<<h>>) = 1
  <2>1. file.data \in [1 .. Len(file.data) -> Elements(file.data)]
    BY <1>1, LenProperties
  <2>2. file.data \in [1 .. Len(file.data) -> Stuff]
    BY <1>4, <2>1
  <2> QED
    BY <1>3, <1>4, <2>2, SeqDef
<1>6. FileBlocks(file) = <<h>> \o file.data
  BY DEF FileBlocks, h, HeaderOf
<1> DEFINE data == file.data
<1>7. data \in Seq(Stuff) /\ Len(data) \in Nat /\ FileBlocks(file) = <<h>> \o data
  BY <1>3, <1>5, <1>6
<1> HIDE DEF data
<1>8. /\ FileBlocks(file) \in Seq(Stuff) /\ Len(FileBlocks(file)) = Len(data) + 1
      /\ FileBlocks(file)[1] = h
      /\ Len(data) > 0 => FileBlocks(file)[2] = data[1]
  <2>1. /\ <<h>> \o data \in Seq(Stuff) /\ Len(<<h>> \o data) = 1 + Len(data)
        /\ \A p \in 1 .. 1 + Len(data) :
             (<<h>> \o data)[p] = IF p <= 1 THEN <<h>>[p] ELSE data[p - 1]
    BY <1>5, <1>7, ConcatProperties
  <2>2. (<<h>> \o data)[1] = h
    BY <1>7, <2>1
  <2>3. Len(data) > 0 => (<<h>> \o data)[2] = data[1]
    BY <1>7, <2>1
  <2> QED
    BY <1>7, <2>1, <2>2, <2>3
<1> QED
  BY <1>1, <1>2, <1>3, <1>5, <1>8 DEF data, h

\* What tar has written of the first k files.
LEMMA WrittenFacts ==
  ASSUME files \in Archives
  PROVE  /\ Written[0] = <<>>
         /\ \A k \in 0 .. Len(files) : Written[k] \in Seq(Stuff)
         /\ \A k \in 1 .. Len(files) : Written[k] = Written[k - 1] \o FileBlocks(files[k])
<1> DEFINE n == Len(files)
           blocks(k) == FileBlocks(files[k])
           Eq(g) == g = [k \in 0 .. n |-> IF k = 0 THEN <<>> ELSE g[k - 1] \o FileBlocks(files[k])]
           st == [x \in (1 .. n) \X Seq(Stuff) |-> x[2] \o blocks(x[1])]
<1>0. n \in Nat /\ \A k \in 1 .. n : blocks(k) \in Seq(Stuff)
  BY FilesSeq, FileFacts
<1> HIDE DEF blocks
<1>1. \A k \in 1 .. n, v \in Seq(Stuff) : v \o blocks(k) \in Seq(Stuff)
  BY <1>0, ConcatProperties
<1>2. /\ st \in [(1 .. n) \X Seq(Stuff) -> Seq(Stuff)]
      /\ \A k \in 1 .. n, v \in Seq(Stuff) : st[<<k, v>>] = v \o blocks(k)
  <2> DEFINE X == Seq(Stuff)
             join(v, k) == v \o blocks(k)
  <2>1. \A k \in 1 .. n, v \in X : join(v, k) \in X
    BY <1>1
  <2>2. st = [x \in (1 .. n) \X X |-> join(x[2], x[1])]
    OBVIOUS
  <2> HIDE DEF st, X, join, n
  <2>3. st \in [(1 .. n) \X X -> X] /\ \A k \in 1 .. n, v \in X : st[<<k, v>>] = join(v, k)
    BY <2>1, <2>2
  <2> QED
    BY <2>3 DEF X, join
<1> HIDE DEF st
<1>3. PICK g \in [0 .. n -> Seq(Stuff)] : Follows(g, <<>>, n, st)
  <2>1. <<>> \in Seq(Stuff)
    OBVIOUS
  <2> QED
    BY <1>0, <1>2, <2>1, Recursion
<1>4. Eq(g)
  <2>1. g = [k \in 0 .. n |-> g[k]]
    BY <1>3
  <2>2. ASSUME NEW k \in 0 .. n
        PROVE  g[k] = IF k = 0 THEN <<>> ELSE g[k - 1] \o FileBlocks(files[k])
    <3>1. CASE k = 0
      BY <1>3, <3>1 DEF Follows
    <3>2. CASE k # 0
      <4>1. k \in 1 .. n /\ k - 1 \in 0 .. n
        BY <1>0, <3>2
      <4>2. g[k] = st[<<k, g[k - 1]>>] /\ g[k - 1] \in Seq(Stuff)
        BY <1>3, <3>2, <4>1 DEF Follows
      <4> QED
        BY <1>2, <3>2, <4>1, <4>2 DEF blocks
    <3> QED
      BY <3>1, <3>2
  <2> QED
    BY <2>1, <2>2, Zenon
<1>5. Eq(Written)
  <2>1. \E f : Eq(f)
    BY <1>4
  <2> QED
    BY <2>1, Zenon DEF Written
<1>6. \A k \in 0 .. n : Written[k] = IF k = 0 THEN <<>> ELSE Written[k - 1] \o blocks(k)
  BY <1>5 DEF blocks
<1>7. Written[0] = <<>> /\ \A k \in 1 .. n : Written[k] = Written[k - 1] \o blocks(k)
  <2>1. 0 \in 0 .. n /\ \A k \in 1 .. n : k \in 0 .. n /\ k # 0
    BY <1>0
  <2> HIDE DEF n
  <2> QED
    BY <1>6, <2>1
<1> DEFINE I == {k \in 0 .. n : Written[k] \in Seq(Stuff)}
<1>8. 0 \in I
  <2>1. 0 \in 0 .. n /\ <<>> \in Seq(Stuff)
    BY <1>0
  <2> QED
    BY <1>7, <2>1
<1>9. ASSUME NEW k \in 1 .. n, k - 1 \in I PROVE k \in I
  <2>1. Written[k - 1] \in Seq(Stuff) /\ k \in 0 .. n
    BY <1>0, <1>9
  <2> HIDE DEF n
  <2> QED
    BY <1>1, <1>7, <2>1
<1>10. 0 .. n \subseteq I
  <2> HIDE DEF I, n
  <2> QED
    BY <1>0, <1>8, <1>9, InductTo
<1> QED
  BY <1>7, <1>10 DEF blocks

\* Its blocks stay where they are when more files are written.
LEMMA WrittenPrefix ==
  ASSUME files \in Archives, NEW k \in 0 .. Len(files)
  PROVE  \A n \in k .. Len(files) :
           /\ Len(Written[k]) \in Nat /\ Len(Written[n]) \in Nat
           /\ Len(Written[k]) <= Len(Written[n])
           /\ \A p \in 1 .. Len(Written[k]) : Written[n][p] = Written[k][p]
<1> DEFINE last == Len(files)
           G(n) == /\ Len(Written[k]) <= Len(Written[n])
                   /\ \A p \in 1 .. Len(Written[k]) : Written[n][p] = Written[k][p]
           I == {n \in 0 .. last : n >= k => G(n)}
<1>0. last \in Nat /\ \A n \in 0 .. last : Written[n] \in Seq(Stuff) /\ Len(Written[n]) \in Nat
  BY FilesSeq, WrittenFacts, LenProperties
<1>1. \A n \in 0 .. last : n = k => G(n)
  BY <1>0
<1>2. 0 \in I
  BY <1>0, <1>1
<1>3. ASSUME NEW n \in 1 .. last, n - 1 \in I PROVE n \in I
  <2> SUFFICES ASSUME n > k PROVE G(n)
    BY <1>0, <1>1
  <2> DEFINE x == Written[n - 1]
             y == FileBlocks(files[n])
  <2>1. n - 1 \in 0 .. last /\ n - 1 >= k /\ G(n - 1)
    BY <1>0, <1>3
  <2>2. x \in Seq(Stuff) /\ y \in Seq(Stuff) /\ Written[n] = x \o y
    BY <1>0, <2>1, WrittenFacts, FileFacts
  <2> HIDE DEF y
  <2>3. /\ Len(x \o y) = Len(x) + Len(y) /\ Len(x) \in Nat /\ Len(y) \in Nat
        /\ \A p \in 1 .. Len(x) + Len(y) : (x \o y)[p] = IF p <= Len(x) THEN x[p] ELSE y[p - Len(x)]
    BY <2>2, ConcatProperties, LenProperties
  <2>4. Len(Written[k]) <= Len(x) /\ \A p \in 1 .. Len(Written[k]) : x[p] = Written[k][p]
    BY <2>1
  <2>5. Len(Written[k]) \in Nat
    BY <1>0
  <2> HIDE DEF x
  <2>6. Len(Written[k]) <= Len(x \o y)
    BY <2>3, <2>4, <2>5
  <2>7. ASSUME NEW p \in 1 .. Len(Written[k]) PROVE (x \o y)[p] = Written[k][p]
    <3>1. p \in 1 .. Len(x) + Len(y) /\ p <= Len(x)
      BY <2>3, <2>4, <2>5
    <3> QED
      BY <2>3, <2>4, <3>1
  <2> QED
    BY <2>2, <2>6, <2>7
<1>4. 0 .. last \subseteq I
  <2> HIDE DEF I, last
  <2> QED
    BY <1>0, <1>2, <1>3, InductTo
<1> HIDE DEF G
<1>5. ASSUME NEW n \in k .. last PROVE G(n)
  BY <1>0, <1>4
<1> QED
  BY <1>0, <1>5 DEF G

\* A block of the disk: of the files, or the zeros behind them.
LEMMA DiskFacts ==
  ASSUME files \in Archives
  PROVE  LET last == Len(files) IN
         /\ Len(Written[last]) \in Nat
         /\ \A p \in 1 .. Len(Written[last]) : Disk[p] = Written[last][p]
         /\ Disk[Len(Written[last]) + 1] = Zeros
<1> DEFINE W == Written[Len(files)]
<1>1. W \in Seq(Stuff)
  BY FilesSeq, WrittenFacts
<1> DEFINE T == Stuff \cup {Zeros}
<1>2. W \in Seq(T) /\ <<Zeros, Zeros>> \in Seq(T) /\ Len(<<Zeros, Zeros>>) = 2
      /\ <<Zeros, Zeros>>[1] = Zeros /\ Len(W) \in Nat
  <2>1. W \in [1 .. Len(W) -> Stuff] /\ Len(W) \in Nat
    BY <1>1, LenProperties
  <2>2. W \in [1 .. Len(W) -> T]
    BY <2>1
  <2>3. Zeros \in T
    OBVIOUS
  <2> HIDE DEF T, W
  <2> QED
    BY <2>1, <2>2, <2>3, SeqDef
<1> DEFINE Z == <<Zeros, Zeros>>
<1>3. Disk = W \o Z
  BY DEF Disk
<1> HIDE DEF T, W, Z
<1>4. \A p \in 1 .. Len(W) + Len(Z) : (W \o Z)[p] = IF p <= Len(W) THEN W[p] ELSE Z[p - Len(W)]
  BY <1>2, ConcatProperties DEF Z
<1>5. Len(Z) = 2 /\ Z[1] = Zeros
  BY <1>2 DEF Z
<1>6. (W \o Z)[Len(W) + 1] = Z[1]
  <2> DEFINE l == Len(W)
  <2>1. l + 1 \in 1 .. l + 2 /\ ~(l + 1 <= l) /\ (l + 1) - l = 1
    BY <1>2
  <2> QED
    BY <1>4, <1>5, <2>1
<1>7. \A p \in 1 .. Len(W) : (W \o Z)[p] = W[p]
  BY <1>2, <1>4, <1>5
<1> QED
  BY <1>2, <1>3, <1>5, <1>6, <1>7 DEF W

\* Behind the first k files: the next one's header and then its data, or zeros.
LEMMA BlocksBehind ==
  ASSUME files \in Archives, NEW k \in 0 .. Len(files)
  PROVE  LET o == Len(Written[k]) IN
         /\ k < Len(files) =>
              /\ Disk[o + 1] = HeaderOf(k + 1)
              /\ files[k + 1].size > 0 => Disk[o + 2] = files[k + 1].data[1]
              /\ Len(Written[k + 1]) = o + 1 + Len(files[k + 1].data)
         /\ k = Len(files) => Disk[o + 1] = Zeros
<1> DEFINE last == Len(files)
           o == Len(Written[k])
<1>1. last \in Nat /\ o \in Nat
  BY FilesSeq, WrittenFacts, LenProperties
<1>2. CASE k < last
  <2> DEFINE x == Written[k]
             file == files[k + 1]
             y == FileBlocks(file)
  <2>1. k + 1 \in 1 .. last /\ k + 1 \in 0 .. last /\ (k + 1) - 1 = k /\ last \in k + 1 .. last
    BY <1>1, <1>2
  <2>2. /\ y \in Seq(Stuff) /\ Len(y) = Len(file.data) + 1 /\ Len(file.data) \in Nat
        /\ y[1] = HeaderOf(k + 1) /\ (file.size > 0 <=> Len(file.data) > 0)
        /\ Len(file.data) > 0 => y[2] = file.data[1]
    BY <2>1, FileFacts
  <2>3. x \in Seq(Stuff) /\ Written[k + 1] = x \o y
    <3> HIDE DEF y
    <3>1. Written[k + 1] = Written[(k + 1) - 1] \o FileBlocks(files[k + 1])
      BY <2>1, WrittenFacts
    <3> QED
      BY <2>1, <3>1, WrittenFacts DEF y
  <2>4. /\ Len(Written[k + 1]) <= Len(Written[last]) /\ Len(Written[last]) \in Nat
        /\ \A p \in 1 .. Len(Written[k + 1]) : Written[last][p] = Written[k + 1][p]
    BY <2>1, WrittenPrefix
  <2> HIDE DEF file, y
  <2>5. /\ Len(x \o y) = o + Len(y) /\ Len(x) = o
        /\ \A p \in 1 .. o + Len(y) : (x \o y)[p] = IF p <= o THEN x[p] ELSE y[p - o]
    BY <2>2, <2>3, ConcatProperties
  <2> DEFINE W == Written[last]
  <2>6. \A p \in 1 .. Len(W) : Disk[p] = W[p]
    BY DiskFacts
  <2>7. /\ Len(Written[k + 1]) = o + Len(y) /\ o + Len(y) <= Len(W) /\ Len(W) \in Nat
        /\ \A p \in 1 .. o + Len(y) : W[p] = (x \o y)[p]
    BY <2>3, <2>4, <2>5
  <2> HIDE DEF W, x, o
  <2>8. ASSUME NEW p \in 1 .. Len(y) PROVE Disk[o + p] = y[p]
    <3>1. Len(y) \in Nat
      BY <2>2
    <3>2. o + p \in 1 .. o + Len(y) /\ ~(o + p <= o) /\ (o + p) - o = p /\ o + p \in 1 .. Len(W)
      BY <1>1, <2>7, <3>1
    <3> QED
      BY <2>5, <2>6, <2>7, <3>2
  <2>9. Disk[o + 1] = HeaderOf(k + 1)
    <3>1. 1 \in 1 .. Len(y)
      BY <2>2
    <3> QED
      BY <2>2, <2>8, <3>1
  <2>10. file.size > 0 => Disk[o + 2] = file.data[1]
    <3>1. file.size > 0 => 2 \in 1 .. Len(y)
      BY <2>2
    <3> QED
      BY <2>2, <2>8, <3>1
  <2>11. Len(Written[k + 1]) = o + 1 + Len(file.data)
    <3>1. Len(Written[k + 1]) = o + Len(y) /\ Len(y) = Len(file.data) + 1 /\ Len(file.data) \in Nat
      BY <2>2, <2>7
    <3>2. \A a, l \in Nat : a + (l + 1) = a + 1 + l
      OBVIOUS
    <3> QED
      BY <1>1, <3>1, <3>2
  <2> QED
    BY <1>2, <2>9, <2>10, <2>11 DEF o, x, file
<1>3. CASE k = last
  <2>1. ~(k < last)
    BY <1>1, <1>3
  <2>2. Disk[o + 1] = Zeros
    BY <1>3, DiskFacts
  <2> HIDE DEF last
  <2> QED
    BY <2>1, <2>2 DEF last
<1> QED
  BY <1>1, <1>2, <1>3

\* An address in the archive, of the block p behind its start.
LEMMA BlockIs ==
  ASSUME NEW p \in Nat
  PROVE  Block(Base + BlockSize * p) = Disk[p + 1]
<1>1. BlockSize \in Nat \ {0} /\ Base \in Nat
  BY SizesAssumption
<1>2. p = (p * BlockSize + 0) \div BlockSize
  <2>1. 0 \in 0 .. BlockSize - 1
    BY <1>1
  <2> QED
    BY <1>1, <2>1, Quotient
<1>3. (Base + BlockSize * p) - Base = p * BlockSize + 0
  BY <1>1
<1> QED
  BY <1>2, <1>3 DEF Block

\* What load_module finds at the start of a file.
LEMMA StartFacts ==
  ASSUME files \in Archives, NEW k \in 1 .. Len(files)
  PROVE  /\ Block(Placed(k).start) = Disk[Len(Written[k - 1]) + 2]
         /\ files[k].size > 0 => Block(Placed(k).start) = files[k].data[1]
         /\ ~(files[k].size > 0) => Block(Placed(k).start).kind # "elf"
<1> DEFINE o == Len(Written[k - 1])
           last == Len(files)
           file == files[k]
<1>1. last \in Nat /\ k - 1 \in 0 .. last /\ k - 1 < last /\ (k - 1) + 1 = k /\ k \in 0 .. last
  BY FilesSeq
<1>2. o \in Nat
  BY <1>1, WrittenFacts, LenProperties
<1>3. Placed(k).start = Base + BlockSize * (o + 1)
  BY DEF Placed
<1>4. Block(Placed(k).start) = Disk[o + 2]
  <2>1. (o + 1) + 1 = o + 2 /\ o + 1 \in Nat
    BY <1>2
  <2> HIDE DEF o
  <2>2. Block(Base + BlockSize * (o + 1)) = Disk[(o + 1) + 1]
    BY <2>1, BlockIs
  <2> QED
    BY <1>3, <2>1, <2>2
<1>5. /\ file.size > 0 => Disk[o + 2] = file.data[1]
      /\ Len(Written[k]) = o + 1 + Len(file.data)
  BY <1>1, BlocksBehind
<1>6. ASSUME ~(file.size > 0) PROVE Disk[o + 2].kind # "elf"
  <2>1. Len(file.data) = 0
    BY <1>6, FileFacts
  <2>2. Len(Written[k]) = o + 1
    <3> HIDE DEF o, file
    <3> QED
      BY <1>2, <1>5, <2>1
  <2>3. Disk[(o + 1) + 1] = Zeros \/ \E j \in 1 .. last : Disk[(o + 1) + 1] = HeaderOf(j)
    <3>1. /\ k < last => Disk[Len(Written[k]) + 1] = HeaderOf(k + 1)
          /\ k = last => Disk[Len(Written[k]) + 1] = Zeros
      BY <1>1, BlocksBehind
    <3>2. (k < last /\ k + 1 \in 1 .. last) \/ k = last
      BY <1>1
    <3> HIDE DEF o, last
    <3> QED
      BY <2>2, <3>1, <3>2
  <2>4. (o + 1) + 1 = o + 2
    <3> HIDE DEF o
    <3> QED
      BY <1>2
  <2>5. Zeros.kind # "elf" /\ \A j \in 1 .. last : HeaderOf(j).kind # "elf"
    BY DEF Zeros, HeaderOf
  <2> HIDE DEF o
  <2> QED
    BY <2>3, <2>4, <2>5
<1> QED
  BY <1>4, <1>5, <1>6

-----------------------------------------------------------------------------
(* The modules of the files                                                *)

HeaderIn(file) == file.data[1].symbol[1]

LEMMA HeaderType ==
  ASSUME files \in Archives, NEW k \in 1 .. Len(files), Succeeds(files[k])
  PROVE  HeaderIn(files[k]) \in ModuleHeader
<1>1. files[k].size > 0 /\ files[k].data[1].kind = "elf" /\ files[k].data[1].symbol # <<>>
  BY DEF Succeeds
<1>2. files[k].data[1].symbol \in [{1} -> ModuleHeader]
  BY <1>1, ArchivesAssumption, FilesSeq
<1> QED
  BY <1>2 DEF HeaderIn

LEMMA SucceedingFacts ==
  ASSUME files \in Archives
  PROVE  /\ Succeeding[0] = <<>>
         /\ \A k \in 0 .. Len(files) : Succeeding[k] \in Seq(ModuleHeader)
         /\ \A k \in 1 .. Len(files) :
              Succeeding[k] = IF Succeeds(files[k]) THEN Append(Succeeding[k - 1], HeaderIn(files[k]))
                              ELSE Succeeding[k - 1]
<1> DEFINE n == Len(files)
           X == Seq(ModuleHeader)
           next(v, k) == IF Succeeds(files[k]) THEN Append(v, HeaderIn(files[k])) ELSE v
           Eq(g) == g = [k \in 0 .. n |->
                           IF k = 0 THEN <<>>
                           ELSE IF Succeeds(files[k]) THEN Append(g[k - 1], files[k].data[1].symbol[1])
                           ELSE g[k - 1]]
           st == [x \in (1 .. n) \X X |-> next(x[2], x[1])]
<1>0. n \in Nat
  BY FilesSeq
<1>1. \A k \in 1 .. n, v \in X : next(v, k) \in X
  BY HeaderType, AppendProperties
<1>2. st \in [(1 .. n) \X X -> X] /\ \A k \in 1 .. n, v \in X : st[<<k, v>>] = next(v, k)
  <2> HIDE DEF X, next, n
  <2> QED
    BY <1>1
<1> HIDE DEF st
<1>3. PICK g \in [0 .. n -> X] : Follows(g, <<>>, n, st)
  <2>1. <<>> \in X
    OBVIOUS
  <2> HIDE DEF X, n
  <2> QED
    BY <1>0, <1>2, <2>1, Recursion
<1> HIDE DEF X
<1>4. Eq(g)
  <2>1. g = [k \in 0 .. n |-> g[k]]
    BY <1>3
  <2>2. ASSUME NEW k \in 0 .. n
        PROVE  g[k] = IF k = 0 THEN <<>> ELSE next(g[k - 1], k)
    <3>1. CASE k = 0
      BY <1>3, <3>1 DEF Follows
    <3>2. CASE k # 0
      <4>1. k \in 1 .. n /\ k - 1 \in 0 .. n
        BY <1>0, <3>2
      <4>2. g[k] = st[<<k, g[k - 1]>>] /\ g[k - 1] \in X
        BY <1>3, <3>2, <4>1 DEF Follows
      <4> HIDE DEF next
      <4> QED
        BY <1>2, <3>2, <4>1, <4>2
    <3> QED
      BY <3>1, <3>2
  <2> QED
    BY <2>1, <2>2, Zenon DEF HeaderIn
<1>5. Eq(Succeeding)
  <2>1. \E f : Eq(f)
    BY <1>4
  <2> QED
    BY <2>1, Zenon DEF Succeeding
<1>6. \A k \in 0 .. n : Succeeding[k] = IF k = 0 THEN <<>> ELSE next(Succeeding[k - 1], k)
  BY <1>5 DEF HeaderIn
<1>7. Succeeding[0] = <<>> /\ \A k \in 1 .. n : Succeeding[k] = next(Succeeding[k - 1], k)
  <2>1. 0 \in 0 .. n /\ \A k \in 1 .. n : k \in 0 .. n /\ k # 0
    BY <1>0
  <2> HIDE DEF n, next
  <2> QED
    BY <1>6, <2>1
<1> DEFINE I == {k \in 0 .. n : Succeeding[k] \in X}
<1>8. 0 \in I
  <2>1. 0 \in 0 .. n /\ <<>> \in X
    BY <1>0 DEF X
  <2> QED
    BY <1>7, <2>1
<1>9. ASSUME NEW k \in 1 .. n, k - 1 \in I PROVE k \in I
  <2>1. Succeeding[k - 1] \in X /\ k \in 0 .. n
    BY <1>0, <1>9
  <2> HIDE DEF n, next
  <2> QED
    BY <1>1, <1>7, <2>1
<1>10. 0 .. n \subseteq I
  <2> HIDE DEF I, n
  <2> QED
    BY <1>0, <1>8, <1>9, InductTo
<1> QED
  BY <1>7, <1>10 DEF X

\* The first n files have the header x.
Succeeded(x, n) == \E k \in 1 .. n : Succeeds(files[k]) /\ x = HeaderIn(files[k])

LEMMA SucceedingMembers ==
  ASSUME files \in Archives, NEW n \in 0 .. Len(files)
  PROVE  /\ \A m \in DOMAIN Succeeding[n] : Succeeded(Succeeding[n][m], n)
         /\ \A x : Succeeded(x, n) => \E m \in DOMAIN Succeeding[n] : Succeeding[n][m] = x
<1> DEFINE last == Len(files)
           G(j) == /\ \A m \in DOMAIN Succeeding[j] : Succeeded(Succeeding[j][m], j)
                   /\ \A x : Succeeded(x, j) => \E m \in DOMAIN Succeeding[j] : Succeeding[j][m] = x
           I == {j \in 0 .. last : G(j)}
<1>0. last \in Nat
  BY FilesSeq
<1>1. 0 \in I
  BY <1>0, SucceedingFacts DEF Succeeded
<1>2. ASSUME NEW j \in 1 .. last, j - 1 \in I PROVE j \in I
  <2> DEFINE s == Succeeding[j - 1]
             h == HeaderIn(files[j])
  <2>1. s \in Seq(ModuleHeader) /\ j \in 0 .. last /\ G(j - 1)
    BY <1>0, <1>2, SucceedingFacts
  <2>2. \A x : Succeeded(x, j) <=> Succeeded(x, j - 1) \/ (Succeeds(files[j]) /\ x = h)
    <3>1. \A k \in 1 .. j : k \in 1 .. j - 1 \/ k = j
      BY <1>0
    <3>2. j \in 1 .. j /\ \A k \in 1 .. j - 1 : k \in 1 .. j
      BY <1>0
    <3> QED
      BY <3>1, <3>2 DEF Succeeded
  <2>3. CASE Succeeds(files[j])
    <3>1. h \in ModuleHeader /\ Succeeding[j] = Append(s, h)
      BY <2>3, HeaderType, SucceedingFacts
    <3> HIDE DEF h, s
    <3>2. /\ DOMAIN Append(s, h) = DOMAIN s \cup {Len(s) + 1}
          /\ \A m \in DOMAIN s : Append(s, h)[m] = s[m]
          /\ Append(s, h)[Len(s) + 1] = h
      BY <2>1, <3>1
    <3>3. /\ \A m \in DOMAIN s : Succeeded(s[m], j - 1)
          /\ \A x : Succeeded(x, j - 1) => \E m \in DOMAIN s : s[m] = x
      BY <2>1 DEF s
    <3>4. \A m \in DOMAIN Append(s, h) : Succeeded(Append(s, h)[m], j)
      BY <2>2, <2>3, <3>2, <3>3
    <3>5. \A x : Succeeded(x, j) => \E m \in DOMAIN Append(s, h) : Append(s, h)[m] = x
      BY <2>2, <3>2, <3>3
    <3> QED
      BY <2>1, <3>1, <3>4, <3>5
  <2>4. CASE ~Succeeds(files[j])
    <3>1. Succeeding[j] = s
      BY <2>4, SucceedingFacts
    <3> HIDE DEF h
    <3> QED
      BY <2>1, <2>2, <2>4, <3>1
  <2> QED
    BY <2>3, <2>4
<1>3. 0 .. last \subseteq I
  <2> HIDE DEF I, last
  <2> QED
    BY <1>0, <1>1, <1>2, InductTo
<1> HIDE DEF G
<1>4. G(n)
  BY <1>3
<1> QED
  BY <1>4 DEF G

-----------------------------------------------------------------------------
(* The archive                                                             *)

\* tar_parse has passed the first n files.
Passed(n) ==
  /\ entries = [k \in 1 .. n |-> Placed(k)]
  /\ addr = Base + BlockSize * Len(Written[n])

IsInit(k) == files[k].filename.ext = ".smpinit"
LastInit(k, n) == IsInit(k) /\ \A j \in k + 1 .. n : ~IsInit(j)

\* It is the address of the last initial executable among the first n files.
Among(address, n) ==
  \/ address = NULL /\ \A k \in 1 .. n : ~IsInit(k)
  \/ \E k \in 1 .. n : address = Placed(k).start /\ LastInit(k, n)

\* What kernel_main has made of the first i files.
SoFar ==
  /\ entries = [k \in 1 .. Len(files) |-> Placed(k)]
  /\ modules.items = Succeeding[i]
  /\ Among(init, i)

ArchiveInv ==
  /\ files \in Archives
  /\ TypeOK
  /\ pc \in {"start", "tar"} =>
       i = 0 /\ init = NULL /\ modules.items = <<>> /\ \E n \in 0 .. Len(files) : Passed(n)
  /\ pc \in {"tar", "files", "exec", "wild"} => present
  /\ pc \in {"files", "exec", "wild"} => SoFar
  /\ pc = "exec" => i = Len(files) /\ init # NULL
  /\ pc = "halted" => ~Ready

LEMMA Stays ==
  ASSUME files' = files
  PROVE  /\ Written' = Written /\ Succeeding' = Succeeding
         /\ \A k : Placed(k)' = Placed(k)
         /\ \A k : IsInit(k)' <=> IsInit(k)
<1>1. Written' = Written
  BY DEF Written
<1>2. Succeeding' = Succeeding
  BY DEF Succeeding, Succeeds
<1>3. \A k : Placed(k)' = Placed(k)
  BY <1>1 DEF Placed
<1>4. \A k : IsInit(k)' <=> IsInit(k)
  BY DEF IsInit
<1> QED
  BY <1>1, <1>2, <1>3, <1>4

\* left counts something.
LEMMA LeftType ==
  ASSUME NEW r, NEW l, l = Cardinality({k \in DOMAIN Required : r[k] # ""})
  PROVE  l \in Nat
<1>1. IsFiniteSet({k \in DOMAIN Required : r[k] # ""})
  BY LeftFinite, FS_Subset
<1> QED
  BY <1>1, FS_CardinalityType

\* The file kernel_main has come to, and what load_module makes of it.
LEMMA FileIs ==
  ASSUME ArchiveInv, AtFile
  PROVE  /\ i \in 0 .. Len(files) /\ i + 1 \in 1 .. Len(files) /\ (i + 1) - 1 = i
         /\ Len(entries) = Len(files)
         /\ File = Placed(i + 1) /\ File.filename = files[i + 1].filename
         /\ IsModule /\ Loads <=> Succeeds(files[i + 1])
         /\ IsModule /\ Loads => mhdr = HeaderIn(files[i + 1])
<1> DEFINE k == i + 1
           file == files[k]
<1>1. /\ files \in Archives /\ i \in 0 .. Len(entries) /\ i < Len(entries)
      /\ entries = [j \in 1 .. Len(files) |-> Placed(j)]
  BY DEF ArchiveInv, TypeOK, AtFile, SoFar
<1>2. Len(files) \in Nat
  BY <1>1, FilesSeq
<1>3. Len(entries) = Len(files)
  BY <1>1, <1>2
<1>4. i \in 0 .. Len(files) /\ k \in 1 .. Len(files) /\ k - 1 = i
  BY <1>1, <1>2, <1>3
<1> HIDE DEF k
<1>5. File = Placed(k)
  BY <1>1, <1>4 DEF File, k
<1>6. File.filename = file.filename
  BY <1>5 DEF Placed
<1>7. /\ file.size > 0 => Start = file.data[1]
      /\ ~(file.size > 0) => Start.kind # "elf"
  BY <1>1, <1>4, <1>5, StartFacts DEF Start
<1>8. Start.symbol # <<>> /\ load_elf64 = 0 => ~MissingHeader
  BY DEF MissingHeader
<1>9. Loads <=> load_elf64 = 0 /\ Start.symbol # <<>> /\ mhdr.name # "" /\ mhdr.load = 0
  BY DEF Loads, Accepted, MissingHeader
<1>10. load_elf64 = 0 <=> Start.kind = "elf" /\ Start.load_elf64 = 0
  BY DEF load_elf64
<1>11. IsModule /\ Loads <=> Succeeds(file)
  BY <1>6, <1>7, <1>9, <1>10 DEF IsModule, mhdr, Succeeds
<1>12. IsModule /\ Loads => mhdr = HeaderIn(file)
  BY <1>7, <1>9, <1>10 DEF mhdr, HeaderIn
<1> QED
  BY <1>3, <1>4, <1>5, <1>6, <1>11, <1>12 DEF k

LEMMA ArchiveInit == Init => ArchiveInv
<1> SUFFICES ASSUME Init PROVE ArchiveInv
  OBVIOUS
<1>1. files \in Archives /\ pc = "start" /\ i = 0 /\ init = NULL /\ entries = <<>> /\ addr = Base
      /\ initialized = FALSE /\ modules.items = <<>> /\ left \in Nat
  BY RequiredSeq DEF Init, Uninitialized
<1>2. required \in [DOMAIN Required -> Names \cup {""}]
  BY BootInit DEF BootInv
<1>3. TypeOK
  <2>1. i \in 0 .. Len(entries) /\ modules.items \in Seq(ModuleHeader)
    <3>1. Len(<<>>) = 0 /\ <<>> \in Seq(ModuleHeader) /\ 0 \in 0 .. 0
      OBVIOUS
    <3> QED
      BY <1>1, <3>1
  <2> QED
    BY <1>1, <1>2, <2>1 DEF TypeOK
<1>4. Passed(0) /\ 0 \in 0 .. Len(files)
  <2>1. Written[0] = <<>> /\ Len(files) \in Nat
    BY <1>1, WrittenFacts, FilesSeq
  <2>2. Base + BlockSize * 0 = Base
    BY SizesAssumption
  <2>3. Len(Written[0]) = 0
    BY <2>1
  <2> QED
    BY <1>1, <2>1, <2>2, <2>3 DEF Passed
<1> QED
  BY <1>1, <1>3, <1>4 DEF ArchiveInv

\* tar_parse reads a header, and finds the next where tar has put it.
LEMMA ParseEntryPasses ==
  ASSUME ArchiveInv, ParseEntry
  PROVE  \E n \in 0 .. Len(files) : Passed(n)'
<1>1. files \in Archives /\ pc = "tar" /\ files' = files
  BY DEF ArchiveInv, ParseEntry, ramdisk
<1>2. PICK n \in 0 .. Len(files) : Passed(n)
  BY <1>1 DEF ArchiveInv
<1> DEFINE last == Len(files)
           o == Len(Written[n])
           k == n + 1
           file == files[k]
<1>3. last \in Nat /\ o \in Nat /\ n \in Nat
  BY <1>1, FilesSeq, WrittenFacts, LenProperties
<1>4. addr = Base + BlockSize * o /\ entries = [j \in 1 .. n |-> Placed(j)]
  BY <1>2 DEF Passed
<1>5. Block(addr) = Disk[o + 1]
  BY <1>3, <1>4, BlockIs
<1>6. n < last
  <2>1. n = last => Disk[o + 1] = Zeros
    BY <1>1, BlocksBehind
  <2>2. Disk[o + 1].kind # "zeros"
    BY <1>5 DEF ParseEntry
  <2>3. n # last
    BY <2>1, <2>2 DEF Zeros
  <2> HIDE DEF last
  <2> QED
    BY <1>2, <1>3, <2>3 DEF last
<1>7. Disk[o + 1] = HeaderOf(k) /\ Len(Written[k]) = o + 1 + Len(file.data)
  BY <1>1, <1>6, BlocksBehind
<1>8. k \in 1 .. last /\ k \in 0 .. last /\ k - 1 = n
  BY <1>3, <1>6
<1>9. /\ tar_get_size(Octal(file.size)) = file.size
      /\ AfterFile(file.size) = BlockSize * (Len(file.data) + 1) /\ Len(file.data) \in Nat
  BY <1>1, <1>8, FileFacts
<1>10. Header(Block(addr)) = HeaderOf(k)
  BY <1>5, <1>7 DEF Header, HeaderOf
<1> HIDE DEF k, o, file
<1>11. /\ addr' = addr + AfterFile(file.size)
       /\ entries' = Append(entries, [filename |-> file.filename, size |-> file.size,
                                      start |-> addr + BlockSize])
  BY <1>9, <1>10 DEF ParseEntry, HeaderOf, file
<1>12. addr' = Base + BlockSize * Len(Written[k])
  <2> DEFINE l == Len(file.data)
             w == Len(Written[k])
  <2>1. addr' = addr + BlockSize * (l + 1) /\ addr = Base + BlockSize * o /\ w = o + 1 + l
    BY <1>4, <1>7, <1>9, <1>11
  <2>2. Base \in Nat /\ BlockSize \in Nat /\ o \in Nat /\ l \in Nat
    BY <1>3, <1>9, SizesAssumption
  <2> HIDE DEF l, w
  <2>3. \A b, x, s \in Nat : /\ b * s \in Nat /\ b * (x + 1) \in Nat
                              /\ b * (s + 1 + x) = b * s + b * (x + 1)
    OBVIOUS
  <2>4. Base + BlockSize * o + BlockSize * (l + 1) = Base + BlockSize * (o + 1 + l)
    BY <2>2, <2>3
  <2>5. addr' = Base + BlockSize * w
    BY <2>1, <2>4
  <2> QED
    BY <2>5 DEF w
<1>13. Placed(k) = [filename |-> file.filename, size |-> file.size, start |-> addr + BlockSize]
  <2>1. Placed(k) = [filename |-> file.filename, size |-> file.size,
                     start |-> Base + BlockSize * (o + 1)]
    BY <1>8 DEF Placed, file, o
  <2>2. \A a, b, s \in Nat : a + b * (s + 1) = a + b * s + b
    OBVIOUS
  <2>3. Base + BlockSize * (o + 1) = addr + BlockSize
    BY <1>3, <1>4, <2>2, SizesAssumption
  <2> QED
    BY <2>1, <2>3
<1>14. entries' = [j \in 1 .. k |-> Placed(j)]
  <2> DEFINE x == Placed(k)
             e == [j \in 1 .. n |-> Placed(j)]
             S == {Placed(j) : j \in 1 .. k}
  <2>1. \A j \in 1 .. n : j \in 1 .. k
    BY <1>3 DEF k
  <2>2. e \in Seq(S) /\ Len(e) = n
    <3>1. e \in [1 .. n -> S]
      BY <2>1
    <3> HIDE DEF e, S
    <3>2. e \in Seq(S)
      BY <1>3, <3>1, SeqDef
    <3>3. Len(e) = n
      BY <1>3, <3>1
    <3> QED
      BY <3>2, <3>3
  <2>3. k \in 1 .. k /\ k = n + 1
    BY <1>3 DEF k
  <2>4. x \in S
    BY <2>3
  <2>5. \A j \in 1 .. n : e[j] = Placed(j)
    OBVIOUS
  <2>6. Append(e, x) = [j \in 1 .. k |-> IF j = k THEN x ELSE e[j]]
    <3> HIDE DEF e, x, S
    <3>1. /\ DOMAIN Append(e, x) = 1 .. n + 1
          /\ \A j \in 1 .. n : Append(e, x)[j] = e[j]
          /\ Append(e, x)[n + 1] = x
          /\ Append(e, x) \in Seq(S)
      BY <2>2, <2>4, AppendProperties, LenProperties
    <3>2. \A j \in 1 .. k : j = k \/ j \in 1 .. n
      BY <1>3, <2>3
    <3>3. Append(e, x) = [j \in DOMAIN Append(e, x) |-> Append(e, x)[j]]
      <4>1. Append(e, x) \in [1 .. Len(Append(e, x)) -> S]
        BY <3>1, LenProperties
      <4> QED
        BY <4>1
    <3> QED
      BY <2>3, <3>1, <3>2, <3>3
  <2>7. \A j \in 1 .. k : j = k \/ j \in 1 .. n
    BY <1>3, <2>3
  <2>8. \A j \in 1 .. k : (IF j = k THEN x ELSE e[j]) = Placed(j)
    BY <2>5, <2>7
  <2>9. entries' = Append(e, x)
    BY <1>4, <1>11, <1>13
  <2> HIDE DEF e, x
  <2> QED
    BY <2>6, <2>8, <2>9
<1>15. Passed(k)'
  BY <1>1, <1>12, <1>14, Stays DEF Passed
<1> QED
  BY <1>1, <1>8, <1>15

\* It stops behind the last one.
LEMMA ParseDonePasses ==
  ASSUME ArchiveInv, ParseDone
  PROVE  entries = [k \in 1 .. Len(files) |-> Placed(k)]
<1>1. files \in Archives /\ pc = "tar"
  BY DEF ArchiveInv, ParseDone
<1>2. PICK n \in 0 .. Len(files) : Passed(n)
  BY <1>1 DEF ArchiveInv
<1> DEFINE o == Len(Written[n])
<1>3. Len(files) \in Nat /\ o \in Nat
  BY <1>1, FilesSeq, WrittenFacts, LenProperties
<1>4. addr = Base + BlockSize * o /\ entries = [j \in 1 .. n |-> Placed(j)]
  BY <1>2 DEF Passed
<1>5. Disk[o + 1].kind = "zeros"
  BY <1>3, <1>4, BlockIs DEF ParseDone
<1>6. n < Len(files) => Disk[o + 1] = HeaderOf(n + 1)
  BY <1>1, BlocksBehind
<1>7. ~(n < Len(files))
  BY <1>5, <1>6 DEF HeaderOf
<1>8. n = Len(files)
  BY <1>2, <1>3, <1>7
<1> QED
  BY <1>4, <1>8

LEMMA SoFarBehind ==
  ASSUME files' = files, entries' = entries, SoFar,
         NEW n, i' = n, modules'.items = Succeeding[n], Among(init', n)
  PROVE  SoFar'
<1>1. entries' = [k \in 1 .. Len(files') |-> Placed(k)']
  BY Stays DEF SoFar
<1>2. modules'.items = Succeeding'[i']
  BY Stays
<1>3. Among(init, i)'
  BY Stays DEF Among, LastInit, NULL
<1> QED
  BY <1>1, <1>2, <1>3 DEF SoFar

\* kernel_main goes on to the next file.
LEMMA NextFile ==
  ASSUME ArchiveInv, BootInv', AtFile,
         UNCHANGED <<files, present, entries>>, i' = i + 1,
         pc' \in {"files", "overrun"}, initialized' \in BOOLEAN,
         modules'.items = Succeeding[i + 1], Among(init', i + 1)
  PROVE  ArchiveInv'
<1> DEFINE k == i + 1
<1>1. files \in Archives /\ pc = "files" /\ present /\ SoFar
  BY DEF ArchiveInv, AtFile
<1>2. k \in 1 .. Len(files) /\ k \in 0 .. Len(files) /\ k \in 0 .. Len(entries)
  <2>1. Len(entries) = Len(files) /\ k \in 1 .. Len(files)
    BY FileIs
  <2> HIDE DEF k
  <2> QED
    BY <1>1, <2>1, FilesSeq
<1> HIDE DEF k
<1>3. SoFar'
  BY <1>1, SoFarBehind DEF k
<1>4. modules'.items \in Seq(ModuleHeader)
  BY <1>1, <1>2, SucceedingFacts DEF k
<1>5. required' \in [DOMAIN Required -> Names \cup {""}] /\ left' \in Nat
  BY LeftType DEF BootInv, Counted
<1>6. i' \in 0 .. Len(entries')
  BY <1>2 DEF k
<1>7. TypeOK'
  BY <1>4, <1>5, <1>6 DEF TypeOK
<1> QED
  BY <1>1, <1>3, <1>7 DEF ArchiveInv

\* A file that is no initial executable leaves init what it is.
LEMMA AmongNext ==
  ASSUME SoFar, NEW k \in Nat, k - 1 = i, i \in Nat, ~IsInit(k)
  PROVE  Among(init, k)
<1>1. \A j \in 1 .. k : j \in 1 .. i \/ j = k
  OBVIOUS
<1>2. i \in 0 .. k /\ \A j \in 1 .. i : j \in 1 .. k
  OBVIOUS
<1>3. \A j : \A l \in j + 1 .. k : l \in j + 1 .. i \/ l = k
  OBVIOUS
<1>4. CASE init = NULL /\ \A j \in 1 .. i : ~IsInit(j)
  BY <1>1, <1>4 DEF Among
<1>5. CASE \E j \in 1 .. i : init = Placed(j).start /\ LastInit(j, i)
  <2>1. PICK j \in 1 .. i : init = Placed(j).start /\ LastInit(j, i)
    BY <1>5
  <2>2. LastInit(j, k)
    BY <1>3, <2>1 DEF LastInit
  <2> QED
    BY <1>2, <2>1, <2>2 DEF Among
<1> QED
  BY <1>4, <1>5 DEF SoFar, Among

LEMMA ModuleStep ==
  ASSUME ArchiveInv, BootInv, BootInv', RefuseModule \/ LoadModule
  PROVE  ArchiveInv'
<1> DEFINE k == i + 1
<1>1. /\ AtFile /\ IsModule /\ UNCHANGED <<files, present, entries, init>> /\ i' = k
      /\ pc' \in {"files", "overrun"} /\ initialized' \in BOOLEAN
  BY DEF RefuseModule, LoadModule, ramdisk, AtFile
<1>2. /\ files \in Archives /\ SoFar /\ k \in 1 .. Len(files) /\ k - 1 = i
      /\ File.filename = files[k].filename
      /\ Loads <=> Succeeds(files[k])
      /\ Loads => mhdr = HeaderIn(files[k])
  BY <1>1, FileIs DEF ArchiveInv, AtFile
<1>3. Kept.items = modules.items
  BY DEF BootInv, Kept, INIT_DYN_ARRAY
<1>4. modules'.items = IF Loads THEN Append(modules.items, mhdr) ELSE modules.items
  <2>1. DYN_ARRAY_ADD(Kept, mhdr).items = Append(Kept.items, mhdr)
    BY DEF DYN_ARRAY_ADD
  <2>2. RefuseModule => ~Loads /\ modules' = Kept
    BY DEF RefuseModule
  <2>3. LoadModule => Loads /\ modules' = DYN_ARRAY_ADD(Kept, mhdr)
    BY DEF LoadModule
  <2> QED
    BY <1>3, <2>1, <2>2, <2>3
<1> HIDE DEF k
<1>5. modules.items = Succeeding[k - 1]
  BY <1>2 DEF SoFar
<1>6. modules'.items = Succeeding[k]
  BY <1>2, <1>4, <1>5, SucceedingFacts
<1>7. ~IsInit(k)
  BY <1>1, <1>2 DEF IsModule, IsInit
<1>8. Among(init', k)
  BY <1>1, <1>2, <1>7, FileIs, AmongNext DEF k
<1> QED
  BY <1>1, <1>6, <1>8, NextFile DEF k

LEMMA PassFileStep ==
  ASSUME ArchiveInv, BootInv', PassFile
  PROVE  ArchiveInv'
<1> DEFINE k == i + 1
<1>1. /\ AtFile /\ UNCHANGED <<files, present, entries, init, modules, pc, initialized>> /\ i' = k
      /\ File.filename.ext \notin {".smpm", ".smpinit"} /\ pc = "files"
  BY DEF PassFile, ramdisk, array, AtFile
<1>2. /\ files \in Archives /\ SoFar /\ k \in 1 .. Len(files) /\ k - 1 = i
      /\ File.filename = files[k].filename /\ initialized \in BOOLEAN
  BY <1>1, FileIs DEF ArchiveInv, AtFile, TypeOK
<1> HIDE DEF k
<1>3. ~Succeeds(files[k]) /\ ~IsInit(k)
  BY <1>1, <1>2 DEF Succeeds, IsInit
<1>4. modules'.items = Succeeding[k]
  BY <1>1, <1>2, <1>3, SucceedingFacts DEF SoFar
<1>5. Among(init', k)
  BY <1>1, <1>2, <1>3, FileIs, AmongNext DEF k
<1> QED
  BY <1>1, <1>2, <1>4, <1>5, NextFile DEF k

LEMMA FindInitStep ==
  ASSUME ArchiveInv, BootInv', FindInit
  PROVE  ArchiveInv'
<1> DEFINE k == i + 1
<1>1. /\ AtFile /\ UNCHANGED <<files, present, entries, modules, pc, initialized>> /\ i' = k
      /\ init' = File.start /\ File.filename.ext = ".smpinit" /\ pc = "files"
  BY DEF FindInit, ramdisk, array, AtFile
<1>2. /\ files \in Archives /\ SoFar /\ k \in 1 .. Len(files) /\ k - 1 = i
      /\ File = Placed(k) /\ File.filename = files[k].filename /\ initialized \in BOOLEAN
  BY <1>1, FileIs DEF ArchiveInv, AtFile, TypeOK
<1> HIDE DEF k
<1>3. ~Succeeds(files[k]) /\ IsInit(k)
  BY <1>1, <1>2 DEF Succeeds, IsInit
<1>4. modules'.items = Succeeding[k]
  BY <1>1, <1>2, <1>3, SucceedingFacts DEF SoFar
<1>5. Among(init', k)
  <2>1. \A j \in k + 1 .. k : FALSE
    BY <1>2
  <2>2. k \in 1 .. k
    BY <1>2
  <2> QED
    BY <1>1, <1>2, <1>3, <2>1, <2>2 DEF Among, LastInit
<1> QED
  BY <1>1, <1>2, <1>4, <1>5, NextFile DEF k

LEMMA WildStep ==
  ASSUME ArchiveInv, BootInv, BootInv', WildHeader
  PROVE  ArchiveInv'
<1>1. /\ AtFile /\ UNCHANGED <<files, present, entries, init, i>>
      /\ pc' = "wild" /\ initialized' = TRUE /\ modules' = Kept
  BY DEF WildHeader, ramdisk
<1>2. files \in Archives /\ present /\ SoFar /\ TypeOK
  BY <1>1 DEF ArchiveInv, AtFile
<1>3. modules'.items = modules.items
  BY <1>1 DEF BootInv, Kept, INIT_DYN_ARRAY
<1>4. SoFar'
  <2>1. Among(init', i) /\ modules'.items = Succeeding[i]
    BY <1>1, <1>2, <1>3 DEF SoFar, Among
  <2> QED
    BY <1>1, <1>2, <2>1, SoFarBehind
<1>5. required' \in [DOMAIN Required -> Names \cup {""}] /\ left' \in Nat
  BY LeftType DEF BootInv, Counted
<1>6. TypeOK'
  BY <1>1, <1>2, <1>3, <1>5 DEF TypeOK
<1> QED
  BY <1>1, <1>2, <1>4, <1>6 DEF ArchiveInv

\* tar_parse comes to its end, and the loop over the files begins.
LEMMA ParseDoneStep ==
  ASSUME ArchiveInv, ParseDone
  PROVE  ArchiveInv'
<1>1. /\ UNCHANGED <<files, present, entries, init, i, modules, initialized, required, left>>
      /\ pc = "tar" /\ pc' = "files"
  BY DEF ParseDone, ramdisk, array
<1>2. /\ files \in Archives /\ present /\ TypeOK /\ i = 0 /\ init = NULL /\ modules.items = <<>>
  BY <1>1 DEF ArchiveInv
<1>3. entries' = [k \in 1 .. Len(files') |-> Placed(k)']
  BY <1>1, ParseDonePasses, Stays
<1>4. modules'.items = Succeeding'[i']
  BY <1>1, <1>2, Stays, SucceedingFacts
<1>5. Among(init, i)'
  BY <1>1, <1>2 DEF Among, NULL
<1>6. SoFar'
  BY <1>3, <1>4, <1>5 DEF SoFar
<1>7. TypeOK'
  BY <1>1, <1>2 DEF TypeOK
<1> QED
  BY <1>1, <1>2, <1>6, <1>7 DEF ArchiveInv

LEMMA ParseEntryStep ==
  ASSUME ArchiveInv, ParseEntry
  PROVE  ArchiveInv'
<1>1. /\ UNCHANGED <<files, present, init, i, modules, initialized, required, left>>
      /\ pc = "tar" /\ pc' \in {"tar", "overrun"}
  BY DEF ParseEntry, ramdisk, array
<1>2. /\ files \in Archives /\ present /\ TypeOK /\ i = 0 /\ init = NULL /\ modules.items = <<>>
  BY <1>1 DEF ArchiveInv
<1>3. PICK n \in 0 .. Len(files) : Passed(n)'
  BY ParseEntryPasses
<1>4. i' \in 0 .. Len(entries')
  <2>1. Len(files) \in Nat
    BY <1>2, FilesSeq
  <2>2. entries' = [k \in 1 .. n |-> Placed(k)']
    BY <1>3 DEF Passed
  <2>3. Len(entries') \in Nat
    BY <2>1, <2>2
  <2> QED
    BY <1>1, <1>2, <2>3
<1>5. TypeOK'
  BY <1>1, <1>2, <1>4 DEF TypeOK
<1>6. NULL' = NULL
  BY DEF NULL
<1> QED
  BY <1>1, <1>2, <1>3, <1>5, <1>6 DEF ArchiveInv

\* Behind the last file.
LEMMA AllPassed ==
  ASSUME ArchiveInv, BootInv, pc = "files", i = Len(entries)
  PROVE  /\ i = Len(files) /\ DOMAIN files = 1 .. i
         /\ Ready <=> left = 0 /\ init # NULL
<1>1. files \in Archives /\ present /\ SoFar
  BY DEF ArchiveInv
<1>2. Len(files) \in Nat /\ DOMAIN files = 1 .. Len(files)
  BY <1>1, FilesSeq
<1>3. i = Len(files)
  BY <1>1, <1>2 DEF SoFar
<1>4. init # NULL <=> \E k \in 1 .. i : IsInit(k)
  <2>1. ASSUME NEW k \in 1 .. i PROVE Placed(k).start # NULL
    <3>1. k - 1 \in 0 .. Len(files)
      BY <1>2, <1>3
    <3>2. Len(Written[k - 1]) \in Nat
      BY <1>1, <3>1, WrittenFacts, LenProperties
    <3>3. \A a \in Nat, b \in Nat \ {0}, s \in Nat : a + b * (s + 1) > 0
      <4>1. \A b \in Nat \ {0}, s \in Nat : b * (s + 1) = b * s + b /\ b * s \in Nat
        OBVIOUS
      <4> QED
        BY <4>1
    <3>4. Base + BlockSize * (Len(Written[k - 1]) + 1) > 0
      BY <3>2, <3>3, SizesAssumption
    <3> QED
      BY <3>4 DEF Placed, NULL
  <2> QED
    BY <1>1, <2>1 DEF SoFar, Among, LastInit
<1>5. left = 0 <=> \A n \in DOMAIN Required : required[n] = ""
  <2>1. IsFiniteSet(Left) /\ left = Cardinality(Left)
    BY LeftFinite, FS_Subset DEF BootInv, Counted, Left
  <2>2. left = 0 <=> Left = {}
    BY <2>1, FS_EmptySet
  <2> QED
    BY <2>2 DEF Left
<1>6. \A n \in DOMAIN Required :
        required[n] = "" <=> \E k \in 1 .. i : Succeeds(files[k]) /\ HeaderIn(files[k]).name = Required[n]
  <2> TAKE n \in DOMAIN Required
  <2>1. required[n] = "" <=> \E m \in DOMAIN Succeeding[i] : Succeeding[i][m].name = Required[n]
    BY <1>1, RequiredAssumption DEF BootInv, Counted, SoFar
  <2>2. i \in 0 .. Len(files)
    BY <1>2, <1>3
  <2>3. /\ \A m \in DOMAIN Succeeding[i] : Succeeded(Succeeding[i][m], i)
        /\ \A x : Succeeded(x, i) => \E m \in DOMAIN Succeeding[i] : Succeeding[i][m] = x
    BY <1>1, <2>2, SucceedingMembers
  <2>4. ASSUME NEW k \in 1 .. i, Succeeds(files[k]), HeaderIn(files[k]).name = Required[n]
        PROVE  required[n] = ""
    <3>1. Succeeded(HeaderIn(files[k]), i)
      BY <2>4 DEF Succeeded
    <3>2. PICK m \in DOMAIN Succeeding[i] : Succeeding[i][m] = HeaderIn(files[k])
      BY <2>3, <3>1
    <3> QED
      BY <2>1, <2>4, <3>2
  <2>5. ASSUME NEW m \in DOMAIN Succeeding[i], Succeeding[i][m].name = Required[n]
        PROVE  \E k \in 1 .. i : Succeeds(files[k]) /\ HeaderIn(files[k]).name = Required[n]
    BY <2>3, <2>5 DEF Succeeded
  <2> QED
    BY <2>1, <2>4, <2>5
<1>7. Ready <=> left = 0 /\ init # NULL
  BY <1>1, <1>2, <1>3, <1>4, <1>5, <1>6 DEF Ready, IsInit, HeaderIn
<1> QED
  BY <1>2, <1>3, <1>7

LEMMA ReadyStays ==
  ASSUME UNCHANGED <<files, present>>
  PROVE  Ready' <=> Ready
BY DEF Ready, Succeeds

LEMMA ArchiveStep == ArchiveInv /\ BootInv /\ BootInv' /\ [Next]_vars => ArchiveInv'
<1> SUFFICES ASSUME ArchiveInv, BootInv, BootInv', [Next]_vars PROVE ArchiveInv'
  OBVIOUS
<1>1. ASSUME UNCHANGED <<files, present, entries, init, i, modules, initialized, required, left>>,
             pc' \in {"tar", "exec", "halted"} \cup {pc},
             pc = pc' => addr' = addr,
             pc' = "tar" => addr' = addr /\ present /\ pc \in {"start", "tar"},
             pc' = "exec" => pc \in {"files", "exec"} /\ i = Len(files) /\ init # NULL,
             pc' = "halted" => ~Ready
      PROVE  ArchiveInv'
  <2>1. files \in Archives /\ TypeOK
    BY DEF ArchiveInv
  <2>2. TypeOK'
    BY <1>1, <2>1 DEF TypeOK
  <2>3. ASSUME pc' \in {"start", "tar"}
        PROVE  i' = 0 /\ init' = NULL' /\ modules'.items = <<>> /\ \E n \in 0 .. Len(files') : Passed(n)'
    <3>1. pc \in {"start", "tar"} /\ addr' = addr
      BY <1>1, <2>3
    <3>2. PICK n \in 0 .. Len(files) : Passed(n)
      BY <3>1 DEF ArchiveInv
    <3>3. Passed(n)'
      BY <1>1, <3>1, <3>2, Stays DEF Passed
    <3> QED
      BY <1>1, <3>1, <3>3 DEF ArchiveInv, NULL
  <2>4. ASSUME pc' \in {"files", "exec", "wild"} PROVE SoFar'
    <3>1. pc \in {"files", "exec", "wild"}
      BY <1>1, <2>4
    <3>2. SoFar
      BY <3>1 DEF ArchiveInv
    <3>3. Among(init', i) /\ modules'.items = Succeeding[i]
      BY <1>1, <3>2 DEF SoFar, Among
    <3> QED
      BY <1>1, <3>2, <3>3, SoFarBehind
  <2>5. pc' \in {"tar", "files", "exec", "wild"} => present'
    BY <1>1 DEF ArchiveInv
  <2>6. pc' = "exec" => i' = Len(files') /\ init' # NULL'
    BY <1>1 DEF ArchiveInv, NULL
  <2>7. pc' = "halted" => ~Ready'
    BY <1>1, ReadyStays
  <2> QED
    BY <1>1, <2>1, <2>2, <2>3, <2>4, <2>5, <2>6, <2>7 DEF ArchiveInv
<1>2. CASE kernel_main
  <2>1. ~present => ~Ready
    BY DEF Ready
  <2> QED
    BY <1>1, <1>2, <2>1 DEF kernel_main, ramdisk, array
<1>3. CASE ParseEntry
  BY <1>3, ParseEntryStep
<1>4. CASE ParseDone
  BY <1>4, ParseDoneStep
<1>5. CASE RefuseModule \/ LoadModule
  BY <1>5, ModuleStep
<1>6. CASE WildHeader
  BY <1>6, WildStep
<1>7. CASE FindInit
  BY <1>7, FindInitStep
<1>8. CASE PassFile
  BY <1>8, PassFileStep
<1>9. CASE Exec
  BY <1>1, <1>9, AllPassed DEF Exec, ramdisk, array
<1>10. CASE Halt
  BY <1>1, <1>10, AllPassed DEF Halt, check_required_modules, ramdisk, array
<1>11. CASE UNCHANGED vars
  <2>1. pc = "halted" => ~Ready
    BY DEF ArchiveInv
  <2>2. pc = "exec" => i = Len(files) /\ init # NULL
    BY DEF ArchiveInv
  <2>3. pc = "tar" => present
    BY DEF ArchiveInv
  <2> QED
    BY <1>1, <1>11, <2>1, <2>2, <2>3 DEF vars, ramdisk, array
<1> QED
  BY <1>2, <1>3, <1>4, <1>5, <1>6, <1>7, <1>8, <1>9, <1>10, <1>11 DEF Next

LEMMA ArchiveAlways == Spec => [](ArchiveInv /\ BootInv)
<1> QED
  BY ArchiveInit, BootInit, ArchiveStep, BootStep, PTL DEF Spec

\* For any archive tar makes: kernel_main finds each file where its blocks
\* are, and has in modules, in the archive's order, the headers of those whose
\* load has returned 0, whatever became of the others.
THEOREM ArchiveLoaded == Spec => []Loaded
<1>1. ArchiveInv => Loaded
  <2> SUFFICES ASSUME ArchiveInv PROVE Loaded
    OBVIOUS
  <2>1. files \in Archives /\ TypeOK /\ (pc \in {"files", "exec", "wild"} => SoFar)
    BY DEF ArchiveInv
  <2>2. DOMAIN files = 1 .. Len(files)
    BY <2>1, FilesSeq
  <2>3. pc \in {"files", "exec"} => entries = [k \in DOMAIN files |-> Placed(k)]
    BY <2>1, <2>2 DEF SoFar
  <2> QED
    BY <2>1, <2>3 DEF Loaded, Parsed, SoFar
<1> QED
  BY <1>1, ArchiveAlways, PTL

\* tar_parse counts no more files than there are, and an array is overrun only
\* by more of them than it has room for.
LEMMA OverrunStep ==
  ASSUME ArchiveInv, BoundsInv, InBounds, [Next]_vars
  PROVE  InBounds'
<1> SUFFICES ASSUME Len(files') <= MaxEntries PROVE pc' # "overrun"
  BY DEF InBounds
<1>1. files' = files /\ files \in Archives
  BY DEF ArchiveInv, Next, vars, ramdisk, kernel_main, ParseEntry, ParseDone, RefuseModule,
         LoadModule, WildHeader, FindInit, PassFile, Exec, Halt
<1>2. Len(files) \in Nat /\ Len(files) <= MaxEntries /\ pc # "overrun"
  BY <1>1, FilesSeq DEF InBounds
<1>3. CASE ParseEntry
  <2>1. PICK n \in 0 .. Len(files) : entries' = [k \in 1 .. n |-> Placed(k)']
    BY <1>3, ParseEntryPasses DEF Passed
  <2>2. PICK m \in 0 .. Len(files) : entries = [k \in 1 .. m |-> Placed(k)]
    BY <1>3 DEF ArchiveInv, ParseEntry, Passed
  <2>3. PICK e : entries' = Append(entries, e)
    BY <1>3 DEF ParseEntry
  <2>4. n \in Nat /\ m \in Nat /\ n <= Len(files)
    BY <1>2
  <2>5. Len(entries') = n /\ Len(entries) = m
    BY <2>1, <2>2, <2>4
  <2>6. n = m + 1
    <3>1. \A k \in 1 .. m : entries[k] \in {Placed(j) : j \in 1 .. m}
      BY <2>2
    <3>2. entries \in Seq({Placed(j) : j \in 1 .. m})
      BY <2>2, <2>4, <3>1
    <3> QED
      BY <2>3, <2>5, <3>2
  <2>7. Len(entries) < MaxEntries
    BY <1>2, <2>4, <2>5, <2>6, SizesAssumption
  <2> QED
    BY <1>3, <2>7 DEF ParseEntry
<1>4. CASE LoadModule
  <2>1. i + 1 \in 1 .. Len(files)
    BY <1>4, FileIs DEF LoadModule
  <2>2. i + 1 < ArraySize
    BY <1>2, <2>1, SizesAssumption
  <2>3. Fits(modules')
    BY <1>4, <2>2, LoadModuleFits
  <2> QED
    BY <1>4, <2>3 DEF LoadModule
<1> QED
  BY <1>2, <1>3, <1>4 DEF Next, vars, kernel_main, ParseDone, RefuseModule, WildHeader,
                          FindInit, PassFile, Exec, Halt, AtFile

\* Whatever an archive of no more than 64 files holds, and whatever its modules
\* do, neither tar_parse nor load_module writes behind its array: for any such
\* numbers of entries and of modules, the second greater.
THEOREM ArraysInBounds == Spec => []InBounds
<1>1. Init => InBounds
  BY DEF Init, InBounds
<1>2. ArchiveInv /\ BoundsInv /\ InBounds /\ [Next]_vars => InBounds'
  BY OverrunStep
<1> QED
  BY <1>1, <1>2, BoundsInit, BoundsStep, ArchiveAlways, PTL DEF Spec

\* kernel_main runs the last initial executable of the archive if it has one
\* and every required module is among its files and succeeds, and halts if not.
THEOREM BootDecided == Spec => []Decided
<1>1. ArchiveInv /\ BootInv => Decided
  <2> SUFFICES ASSUME ArchiveInv, BootInv PROVE Decided
    OBVIOUS
  <2>1. pc = "halted" => ~Ready
    BY DEF ArchiveInv
  <2>2. ASSUME pc = "exec"
        PROVE  Ready /\ init = Placed(CHOOSE k \in DOMAIN files :
                 /\ files[k].filename.ext = ".smpinit"
                 /\ \A j \in k + 1 .. Len(files) : files[j].filename.ext # ".smpinit").start
    <3> DEFINE Last(k) == /\ files[k].filename.ext = ".smpinit"
                          /\ \A j \in k + 1 .. Len(files) : files[j].filename.ext # ".smpinit"
    <3>1. files \in Archives /\ present /\ SoFar /\ i = Len(files) /\ init # NULL /\ left = 0
      BY <2>2 DEF ArchiveInv, BootInv
    <3>2. DOMAIN files = 1 .. Len(files) /\ Len(files) \in Nat
      BY <3>1, FilesSeq
    <3>3. PICK k \in DOMAIN files : init = Placed(k).start /\ Last(k)
      BY <3>1, <3>2 DEF SoFar, Among, LastInit, IsInit
    <3>4. ASSUME NEW j \in DOMAIN files, Last(j) PROVE j = k
      <4>1. \A a, b \in 1 .. Len(files) : a = b \/ a \in b + 1 .. Len(files) \/ b \in a + 1 .. Len(files)
        BY <3>2
      <4> QED
        BY <3>2, <3>3, <3>4, <4>1
    <3>5. (CHOOSE l \in DOMAIN files : Last(l)) = k
      <4> HIDE DEF Last
      <4> QED
        BY <3>3, <3>4
    <3>6. Ready
      <4>1. \A n \in DOMAIN Required : \E m \in DOMAIN Succeeding[i] : Succeeding[i][m].name = Required[n]
        <5>1. IsFiniteSet(Left) /\ Cardinality(Left) = 0
          BY <3>1, LeftFinite, FS_Subset DEF BootInv, Counted, Left
        <5>2. Left = {}
          BY <5>1, FS_EmptySet
        <5> QED
          BY <3>1, <5>2, RequiredAssumption DEF BootInv, Counted, Left, SoFar
      <4>2. i \in 0 .. Len(files)
        BY <3>1, <3>2
      <4>3. \A m \in DOMAIN Succeeding[i] : Succeeded(Succeeding[i][m], i)
        BY <3>1, <4>2, SucceedingMembers
      <4> QED
        BY <3>1, <3>2, <3>3, <4>1, <4>3 DEF Ready, Succeeded, HeaderIn
    <3> QED
      BY <3>3, <3>5, <3>6
  <2> QED
    BY <2>1, <2>2 DEF Decided
<1> QED
  BY <1>1, ArchiveAlways, PTL
-----------------------------------------------------------------------------
(* Interrupts                                                              *)

\* Handlers, and what they lead to, run with the flag clear and a frame;
\* other code with the flag set and none; the frame of a line's handler names
\* the line, and still does when the handler has faulted.
Shape ==
  /\ ctx \in Code => iflag
  /\ ctx \in Stub => ~iflag
  /\ LineHandled => frames[1].int_no - 32 \in Lines \cup {7, 15}

IntInv == IntTypeOK /\ InService /\ Shape

\* Where the processor is when a second frame may be on the stack.
Deep == {"isr", "halted"}

\* Code has no frame and a handler has one, until it faults.
LEMMA OneFrame ==
  ASSUME IntInv
  PROVE  /\ ctx \in Code => frames = <<>> /\ isr = {} /\ ctx \notin Stub
         /\ ctx \in Stub \ Deep => \E f \in Outer : frames = <<f>> /\ Top = f /\ frames[1] = f
         /\ ctx \in Stub => \E f \in Outer : frames[1] = f /\ frames # <<>>
<1>1. Code \cap Stub = {} /\ {"irq", "eoi"} \subseteq Stub /\ Deep \subseteq Stub
  BY InterruptsAssumption DEF Stub, Deep
<1>2. CASE frames = <<>> /\ ctx \in Code
  BY <1>1, <1>2 DEF IntInv, InService, LineHandled
<1>3. CASE \E f \in Outer : frames = <<f>> /\ ctx \in Stub
  BY <1>1, <1>3 DEF Top
<1>4. CASE \E f \in Outer, g \in Inner : frames = <<f, g>> /\ ctx \in Deep
  BY <1>1, <1>4 DEF Top
<1> QED
  BY <1>2, <1>3, <1>4 DEF IntInv, IntTypeOK, Deep

\* What is under the frame pushed.
LEMMA Pushed ==
  ASSUME NEW f, NEW g
  PROVE  /\ Append(<<>>, f) = <<f>> /\ Len(<<f>>) = 1 /\ <<f>>[1] = f /\ <<f>> # <<>>
         /\ Append(<<f>>, g) = <<f, g>> /\ Len(<<f, g>>) = 2
         /\ <<f, g>>[1] = f /\ <<f, g>>[2] = g /\ <<f, g>> # <<>>
<1>1. Append(<<>>, f) = <<f>> /\ Len(<<f>>) = 1 /\ <<f>>[1] = f /\ <<f>> # <<>>
  OBVIOUS
<1>2. Len(<<f, g>>) = 2 /\ <<f, g>>[1] = f /\ <<f, g>>[2] = g /\ <<f, g>> # <<>>
  OBVIOUS
<1>3. Append(<<f>>, g) = <<f, g>>
  <2>1. <<f>> \in Seq({f, g})
    OBVIOUS
  <2>2. <<f, g>> \in Seq({f, g})
    OBVIOUS
  <2> DEFINE s == Append(<<f>>, g)
  <2>3. s \in Seq({f, g}) /\ Len(s) = 2 /\ s[1] = f /\ s[2] = g
    <3>1. /\ s \in Seq({f, g}) /\ Len(s) = Len(<<f>>) + 1
          /\ \A k \in 1 .. Len(<<f>>) : s[k] = <<f>>[k]
          /\ s[Len(<<f>>) + 1] = g
      <4>1. g \in {f, g}
        OBVIOUS
      <4> QED
        BY <2>1, <4>1, AppendProperties
    <3> QED
      BY <3>1, <1>1
  <2> HIDE DEF s
  <2>4. \A k \in 1 .. Len(s) : s[k] = <<f, g>>[k]
    BY <2>3, <1>2
  <2>5. s = <<f, g>>
    BY <2>2, <2>3, <2>4, <1>2, SeqEqual, Zenon
  <2> QED
    BY <2>5 DEF s
<1> QED
  BY <1>1, <1>2, <1>3

-----------------------------------------------------------------------------
(* What the end of interrupt does to the lines an acknowledge cycle set    *)

\* Ending the slave's line and then the master's releases both.
LEMMA EndReleases ==
  ASSUME NEW n \in Lines \cup {7, 15}, isr \in {Acknowledged(n), Acknowledged(n) \ {n}}
  PROVE  AfterEnd(n) = {}
<1>0. n \in 0 .. 15 /\ n # 2
  BY InterruptsAssumption
<1>1. CASE n >= 8
  <2>1. isr \in {{Cascade, n}, {Cascade}}
    BY <1>0, <1>1 DEF Acknowledged, Slave, Cascade
  <2>2. EndHighest(isr, Slave) = {Cascade}
    BY <1>0, <1>1, <2>1 DEF EndHighest, Slave, Cascade
  <2>3. EndHighest({Cascade}, Master) = {}
    BY DEF EndHighest, Master, Cascade
  <2> QED
    BY <1>1, <2>2, <2>3 DEF AfterEnd
<1>2. CASE n < 8
  <2>1. isr \in {{n}, {}}
    BY <1>0, <1>2 DEF Acknowledged, Slave
  <2>2. EndHighest({n}, Master) = {} /\ EndHighest({}, Master) = {}
    BY <1>0, <1>2 DEF EndHighest, Master
  <2>3. EndHighest(isr, Master) = {}
    BY <2>1, <2>2
  <2> QED
    BY <1>0, <1>2, <2>3 DEF AfterEnd
<1> QED
  BY <1>0, <1>1, <1>2

LEMMA AcknowledgedType ==
  ASSUME NEW n
  PROVE  /\ n \in Lines => Acknowledged(n) \subseteq Lines \cup {Cascade}
         /\ Acknowledged(n) \ {n} \subseteq {Cascade}
BY DEF Acknowledged

-----------------------------------------------------------------------------
\* The conjunction is inductive.
LEMMA IntInit_Inv == IntInit => IntInv
BY InterruptsAssumption
   DEF IntInit, IntInv, IntTypeOK, InService, LineHandled, Shape, Stub

\* Entry from code: one frame, which names what was taken.
LEMMA EntryInv ==
  ASSUME IntInv, ctx \in Code, NEW n \in Traps \cup {127} \cup 32 .. 47,
         NEW stub \in {"irq", "isr"}, Gate(n, stub),
         irr' \subseteq Lines, isr' \subseteq Lines \cup {Cascade},
         stub = "irq" => /\ n - 32 \in Lines \cup {7, 15}
                         /\ \/ isr' = Acknowledged(n - 32)
                            \/ n - 32 \in {7, 15} /\ isr' = Acknowledged(n - 32) \ {n - 32},
         stub = "isr" => isr' = isr
  PROVE  IntInv'
<1> DEFINE f == [int_no |-> n, regs |-> ctx]
<1>1. frames = <<>> /\ isr = {} /\ "irq" \notin Code /\ "isr" \notin Code
  BY OneFrame, InterruptsAssumption DEF Stub
<1>2. frames' = <<f>> /\ Top' = f /\ frames[1]' = f /\ frames' # <<>>
  BY <1>1, Pushed DEF Gate, Top
<1>3. f \in Outer
  BY DEF Outer
<1>4. ctx' = stub /\ iflag' = FALSE /\ ctx' \in Stub /\ ctx' \notin Code /\ Top'.regs # "irq"
  BY <1>1, <1>2 DEF Gate, Stub
<1>5. IntTypeOK'
  BY <1>2, <1>3, <1>4 DEF IntTypeOK
<1>6. InService'
  <2>1. CASE stub = "irq"
    BY <1>2, <1>4, <2>1 DEF InService, LineHandled
  <2>2. CASE stub = "isr"
    BY <1>1, <1>2, <1>4, <2>2 DEF InService, LineHandled
  <2> QED
    BY <2>1, <2>2
<1>7. Shape'
  BY <1>2, <1>4 DEF Shape, LineHandled
<1> QED
  BY <1>5, <1>6, <1>7 DEF IntInv

\* An exception of a handler: a second frame, from which nothing comes back.
LEMMA InnerInv ==
  ASSUME IntInv, ctx \in {"irq", "wild"}, NEW n \in Traps, Gate(n, "isr"),
         UNCHANGED <<irr, isr>>
  PROVE  IntInv'
<1> DEFINE g == [int_no |-> n, regs |-> ctx]
<1>1. ctx \in Stub \ Deep /\ ctx \notin Code /\ "isr" \notin Code
  BY InterruptsAssumption DEF Stub, Deep
<1>2. PICK f \in Outer : frames = <<f>> /\ Top = f /\ frames[1] = f
  BY <1>1, OneFrame
<1>3. frames' = <<f, g>> /\ Top' = g /\ frames[1]' = f /\ frames' # <<>>
  BY <1>2, Pushed DEF Gate, Top
<1>4. g \in Inner
  BY DEF Inner
<1>5. ctx' = "isr" /\ iflag' = FALSE /\ ctx' \in Stub /\ ctx' \notin Code
  BY <1>1 DEF Gate, Stub
<1>6. f.regs # "irq" /\ (LineHandled <=> ctx = "irq") /\ (LineHandled' <=> ctx = "irq")
  BY <1>2, <1>3, <1>5, InterruptsAssumption DEF LineHandled, Outer, Stub
<1>7. IntTypeOK'
  BY <1>3, <1>4, <1>5 DEF IntInv, IntTypeOK
<1>8. InService'
  BY <1>2, <1>3, <1>6 DEF IntInv, InService
<1>9. Shape'
  BY <1>2, <1>3, <1>5, <1>6 DEF IntInv, Shape
<1> QED
  BY <1>7, <1>8, <1>9 DEF IntInv

\* A handler's step that leaves the frames alone.
LEMMA InPlace ==
  ASSUME IntInv, ctx \in Stub, ctx' \in Stub, UNCHANGED <<irr, iflag, frames>>,
         isr' \subseteq Lines \cup {Cascade}, InService',
         ctx' \in {"irq", "eoi"} => LineHandled,
         ctx \in Deep => ctx' \in Deep \/ (\E f \in Outer : frames = <<f>>)
  PROVE  IntInv'
<1>1. ctx' \notin Code /\ ctx \notin Code
  BY InterruptsAssumption
<1>2. IntTypeOK'
  <2>1. CASE \E f \in Outer : frames = <<f>>
    BY <2>1 DEF IntInv, IntTypeOK
  <2>2. CASE ~ \E f \in Outer : frames = <<f>>
    BY <1>1, <2>2 DEF IntInv, IntTypeOK, Deep
  <2> QED
    BY <2>1, <2>2
<1>3. LineHandled' => LineHandled
  BY DEF LineHandled, Top
<1>4. Shape'
  BY <1>1, <1>3 DEF IntInv, Shape
<1> QED
  BY <1>2, <1>4 DEF IntInv

LEMMA IntNext_Inv == IntInv /\ [IntNext]_intVars => IntInv'
<1> SUFFICES ASSUME IntInv, [IntNext]_intVars PROVE IntInv'
  OBVIOUS
<1>0. IntTypeOK /\ InService /\ Shape /\ Code \cap Stub = {}
  BY InterruptsAssumption DEF IntInv
<1>1. ASSUME NEW n \in Lines, Raise(n) PROVE IntInv'
  BY <1>0, <1>1 DEF Raise, IntInv, IntTypeOK, InService, LineHandled, Shape, Top
<1>2. ASSUME NEW m \in Lines, Taken(m) PROVE IntInv'
  <2>1. ctx \in Code /\ frames = <<>> /\ isr = {} /\ irr' \subseteq Lines
    <3>1. iflag /\ irr' \subseteq irr
      BY <1>2 DEF Taken, Interrupt, Spurious
    <3> QED
      BY <1>0, <3>1, OneFrame DEF IntTypeOK, Shape
  <2>2. PICK n \in Lines \cup {7, 15} :
          /\ Gate(n + 32, "irq")
          /\ \/ n \in Lines /\ isr' = Acknowledged(n)
             \/ n \in {7, 15} /\ isr' = Acknowledged(n) \ {n}
    BY <1>2, <2>1 DEF Taken, Interrupt, Spurious
  <2>3. n + 32 \in 32 .. 47 /\ (n + 32) - 32 = n
    <3>1. n \in 0 .. 15
      BY InterruptsAssumption
    <3> QED
      BY <3>1
  <2>4. isr' \subseteq Lines \cup {Cascade}
    BY <2>2, AcknowledgedType
  <2> QED
    BY <2>1, <2>2, <2>3, <2>4, EntryInv
<1>3. ASSUME NEW n \in Traps \cup {127}, Trap(n) PROVE IntInv'
  <2>1. Gate(n, "isr") /\ UNCHANGED <<irr, isr>>
    BY <1>3 DEF Trap
  <2>2. CASE ctx \in Code
    BY <1>0, <2>1, <2>2, EntryInv DEF IntTypeOK
  <2>3. CASE ctx \in {"irq", "wild"} /\ n \in Traps
    BY <2>1, <2>3, InnerInv
  <2> QED
    BY <1>3, <2>2, <2>3 DEF Trap
<1>4. ASSUME irq_handler PROVE IntInv'
  <2>1. /\ ctx = "irq" /\ ctx' = "eoi" /\ UNCHANGED <<irr, isr, iflag, frames>>
        /\ ctx \in Stub /\ ctx' \in Stub /\ ctx \notin Deep
    BY <1>4 DEF irq_handler, Stub, Deep
  <2>2. LineHandled /\ InService' /\ isr' \subseteq Lines \cup {Cascade}
    BY <1>0, <2>1 DEF InService, LineHandled, IntTypeOK
  <2> QED
    BY <2>1, <2>2, InPlace
<1>5. ASSUME irq_end PROVE IntInv'
  <2>1. /\ ctx = "eoi" /\ ctx' = "return" /\ UNCHANGED <<irr, iflag, frames>>
        /\ ctx \in Stub /\ ctx' \in Stub /\ ctx \notin Deep /\ LineHandled
        /\ isr' = AfterEnd(Top.int_no - 32)
    BY <1>5 DEF irq_end, Stub, Deep, LineHandled
  <2>2. PICK f \in Outer : frames = <<f>> /\ Top = f /\ frames[1] = f
    BY <2>1, OneFrame
  <2>3. isr' = {}
    BY <1>0, <2>1, <2>2, EndReleases DEF InService, Shape
  <2>4. f.regs \in Code /\ "irq" \notin Code
    BY <1>0 DEF Outer, Stub
  <2>5. ~LineHandled'
    BY <2>1, <2>2, <2>4 DEF LineHandled, Top
  <2> QED
    BY <2>1, <2>3, <2>5, InPlace DEF InService
<1>6. ASSUME fault_handler PROVE IntInv'
  <2>1. /\ ctx = "isr" /\ UNCHANGED <<irr, isr, iflag, frames>>
        /\ ctx' = "halted" \/ (Top.int_no = 127 /\ ctx' \in {"return", "wild"})
        /\ ctx \in Stub /\ ctx' \in Stub /\ ctx' \notin {"irq", "eoi"}
    BY <1>6 DEF fault_handler, syscall_handler, Stub
  <2>2. LineHandled' <=> LineHandled
    BY <2>1 DEF LineHandled, Top
  <2>3. InService' /\ isr' \subseteq Lines \cup {Cascade}
    BY <1>0, <2>1, <2>2 DEF InService, IntTypeOK
  <2>4. ctx' \in Deep \/ \E f \in Outer : frames = <<f>>
    <3>1. ASSUME NEW f \in Outer, NEW g \in Inner, frames = <<f, g>>
          PROVE Top.int_no # 127
      <4>1. Top = g
        BY <3>1, Pushed DEF Top
      <4> QED
        BY <4>1, InterruptsAssumption DEF Inner
    <3> QED
      BY <1>0, <2>1, <3>1 DEF IntTypeOK, Deep
  <2> QED
    BY <2>1, <2>3, <2>4, InPlace
<1>7. ASSUME Return PROVE IntInv'
  <2>1. ctx = "return" /\ ctx \in Stub \ Deep /\ ctx \notin Code
    BY <1>0, <1>7 DEF Return, Stub, Deep
  <2>2. PICK f \in Outer : frames = <<f>> /\ Top = f /\ frames[1] = f
    BY <2>1, OneFrame
  <2>3. f.regs \in Code /\ f.regs \notin Stub /\ f.regs # "irq"
    BY <1>0 DEF Outer, Stub
  <2>4. ctx' = f.regs /\ frames' = <<>> /\ iflag' = TRUE /\ UNCHANGED <<irr, isr>>
    BY <1>7, <2>2 DEF Return
  <2>5. isr = {}
    BY <1>0, <2>1, <2>2, <2>3 DEF InService, LineHandled
  <2>6. ~LineHandled'
    BY <2>3, <2>4 DEF LineHandled, Stub
  <2>7. InService' /\ Shape'
    BY <2>3, <2>4, <2>5, <2>6 DEF InService, Shape
  <2>8. IntTypeOK'
    BY <1>0, <2>3, <2>4 DEF IntTypeOK
  <2> QED
    BY <2>7, <2>8 DEF IntInv
<1>8. ASSUME Step PROVE IntInv'
  <2>1. frames = <<>> /\ ctx \in Code /\ ctx' \in Code /\ UNCHANGED <<irr, isr, iflag, frames>>
    BY <1>8, OneFrame DEF Step
  <2>2. ~LineHandled /\ ~LineHandled'
    BY <1>0, <2>1 DEF LineHandled, Stub
  <2> QED
    BY <1>0, <2>1, <2>2 DEF IntInv, IntTypeOK, InService, Shape
<1>9. CASE UNCHANGED intVars
  BY <1>0, <1>9 DEF intVars, IntInv, IntTypeOK, InService, LineHandled, Shape, Top
<1> QED
  BY <1>1, <1>2, <1>3, <1>4, <1>5, <1>6, <1>7, <1>8, <1>9 DEF IntNext, Handling

LEMMA IntInvariant == IntSpec => []IntInv
<1>1. IntInit => IntInv
  BY IntInit_Inv
<1>2. IntInv /\ [IntNext]_intVars => IntInv'
  BY IntNext_Inv
<1> QED
  BY <1>1, <1>2, PTL DEF IntSpec

\* An exception inside a handler ends in panic, so that frames never stand
\* more than two deep, the system call of user code is never the inner one,
\* and what Return resumes is code: no handler is entered again or resumed
\* half way, though handlers and wild calls may fault.
THEOREM IntTypeCorrect == IntSpec => []IntTypeOK
<1>1. IntInv => IntTypeOK
  BY DEF IntInv
<1> QED
  BY <1>1, IntInvariant, PTL

\* irq_end leaves exactly nothing in service on either controller, and until
\* then, or for ever when its handler faults, exactly the line being handled.
THEOREM LinesReleased == IntSpec => []InService
<1>1. IntInv => InService
  BY DEF IntInv
<1> QED
  BY <1>1, IntInvariant, PTL

-----------------------------------------------------------------------------
(* exec and the timer                                                      *)

\* Where the code outside handlers is, even while a handler runs.
Here == IF frames = <<>> THEN ctx ELSE frames[1].regs

\* Sets of statements, named for what has been done before them.
Running == {"enter_userspace", "user"}
CurrentSet == Running \cup {"process_count"}
InTable == CurrentSet \cup {"current_process"}
Switched == InTable \cup {"register"}
Mapping == {"map_stack", "set_pml_2"}
Saving == Switched \cup Mapping \cup
  {"set_pml_1", "set_current_1", "set_current_2",
   "set_kernel_stack", "set_pml_3", "set_current_3"}
StackReady == Saving \cup {"kmalloc_context", "prev_space"}
SpaceReady == StackReady \cup {"kernel_stack"}

\* What exec has done so far, statement by statement.
ProcInv ==
  /\ Here \in ProcCode
  /\ Here \in SpaceReady => proc.address_space = Space
  /\ Here \in StackReady => proc.kernel_stack = Stack
  /\ Here \in Saving => prev_space = KernelSpace
  /\ cr3 = IF Here \in Switched \cup Mapping \cup {"set_current_1", "set_current_3"}
           THEN Space ELSE KernelSpace
  /\ current_pml4 = IF Here \in Switched \cup Mapping \cup {"set_current_2"}
                    THEN Space ELSE KernelSpace
  /\ Here \in InTable => processes[0] = P
  /\ Here \in CurrentSet => current_process = P
  /\ process_count = IF Here \in Running THEN 1 ELSE 0
  /\ cpid = 0
  /\ DOMAIN processes = 0 .. MaxProcesses - 1
  /\ DOMAIN proc = {"address_space", "kernel_stack", "context"}

-----------------------------------------------------------------------------
\* Each statement and the one after it.
LEMMA Order ==
  ASSUME NEW s, Run(s)
  PROVE  <<s, ctx'>> \in
           {<<"load_elf64", "check_entry">>, <<"check_entry", "kmalloc_proc">>,
            <<"kmalloc_proc", "copy_space">>, <<"copy_space", "kernel_stack">>,
            <<"kernel_stack", "kmalloc_context">>, <<"kmalloc_context", "prev_space">>,
            <<"prev_space", "set_pml_1">>, <<"set_pml_1", "set_current_1">>,
            <<"set_current_1", "map_stack">>, <<"map_stack", "set_pml_2">>,
            <<"set_pml_2", "set_current_2">>, <<"set_current_2", "set_kernel_stack">>,
            <<"set_kernel_stack", "set_pml_3">>, <<"set_pml_3", "set_current_3">>,
            <<"set_current_3", "register">>, <<"register", "current_process">>,
            <<"current_process", "process_count">>,
            <<"process_count", "enter_userspace">>}
BY DEF Run, Statements

LEMMA CodeMembers ==
  ProcCode = {"load_elf64", "check_entry", "kmalloc_proc", "copy_space", "kernel_stack",
              "kmalloc_context", "prev_space", "set_pml_1", "set_current_1", "map_stack",
              "set_pml_2", "set_current_2", "set_kernel_stack", "set_pml_3",
              "set_current_3", "register", "current_process", "process_count",
              "enter_userspace", "user", "idle"}
BY DEF ProcCode, Statements
-----------------------------------------------------------------------------
(* Every step of Proc is a step of Interrupts                              *)

\* schedule puts back the registers it saved: the frame does not change.
LEMMA ScheduleKeepsFrame ==
  ASSUME IntInv, ProcInv, proc_irq_handler, Top.int_no = 32, process_count # 0
  PROVE  /\ frames' = frames
         /\ proc'.address_space = proc.address_space
         /\ proc'.kernel_stack = proc.kernel_stack
         /\ DOMAIN proc' = DOMAIN proc
         /\ current_process' = P
         /\ cr3' = Space /\ current_pml4' = Space
         /\ cpid' = 0
         /\ UNCHANGED <<processes, process_count>>
<1>1. ctx = "irq" /\ schedule(processes[cpid]) /\ cpid' = NextCpid
      /\ UNCHANGED <<processes, process_count>>
  BY DEF proc_irq_handler, irq0_listener
<1>2. PICK f \in Outer : frames = <<f>> /\ frames[1] = f
  <2>1. ctx \in Stub \ Deep
    BY <1>1 DEF Stub, Deep
  <2> QED
    BY <2>1, OneFrame
<1>3. Here \in Running /\ current_process = P /\ processes[0] = P
      /\ process_count = 1 /\ cpid = 0 /\ proc.address_space = Space
  BY DEF ProcInv, Running, CurrentSet, InTable, Switched, Saving, StackReady, SpaceReady
<1>4. Saved(Top.regs) = f.regs /\ Len(frames) = 1
  BY <1>2, <1>3 DEF Saved, Top
<1>5. frames' = [frames EXCEPT ![1].regs = f.regs]
  BY <1>1, <1>4 DEF schedule
<1>6. frames' = frames
  BY <1>2, <1>5 DEF Outer
<1>7. cpid' = 0
  BY <1>1, <1>3 DEF NextCpid
<1>8. proc' = [proc EXCEPT !.context = f.regs]
  BY <1>1, <1>4 DEF schedule
<1> QED
  BY <1>1, <1>3, <1>6, <1>7, <1>8 DEF schedule, ProcInv

LEMMA RunIsStep ==
  ASSUME NEW s, Run(s)
  PROVE  Step
<1>1. ctx \in ProcCode /\ ctx' \in ProcCode
  BY Order, CodeMembers DEF Run
<1> QED
  BY <1>1, ProcAssumption DEF Run, Step

LEMMA NextImplements ==
  ASSUME IntInv, ProcInv, [ProcNext]_allVars
  PROVE  [IntNext]_intVars
<1>1. CASE exec
  <2>1. CASE check_entry
    BY <2>1, RunIsStep, CodeMembers, ProcAssumption DEF check_entry, Step, IntNext
  <2>2. CASE ctx = "enter_userspace" /\ ctx' = "user"
             /\ UNCHANGED <<irr, isr, iflag, frames, procVars>>
    BY <2>2, CodeMembers, ProcAssumption DEF Step, IntNext
  <2>3. CASE \E s : Run(s)
    BY <2>3, RunIsStep DEF IntNext
  <2> QED
    BY <1>1, <2>1, <2>2, <2>3 DEF exec, SetField, SetPml, SetCurrent
<1>2. CASE proc_irq_handler
  <2>1. frames' = frames
    BY <1>2, ScheduleKeepsFrame DEF proc_irq_handler, irq0_listener
  <2> QED
    BY <1>2, <2>1 DEF proc_irq_handler, irq_handler, IntNext, Handling
<1>3. CASE irq_end \/ fault_handler \/ Return
  BY <1>3 DEF IntNext, Handling
<1>4. CASE \E n \in Lines : Raise(n) \/ Taken(n)
  BY <1>4 DEF IntNext
<1>5. CASE \E n \in Traps \cup {127} : Trap(n)
  BY <1>5 DEF IntNext
<1>6. CASE UNCHANGED allVars
  BY <1>6 DEF allVars
<1> QED
  BY <1>1, <1>2, <1>3, <1>4, <1>5, <1>6 DEF ProcNext, ProcHandling

-----------------------------------------------------------------------------
(* ProcInv is inductive                                                    *)

LEMMA InitInvs == ProcInit => IntInit /\ IntInv /\ ProcInv
<1> SUFFICES ASSUME ProcInit PROVE IntInit /\ IntInv /\ ProcInv
  OBVIOUS
<1>1. IntInit
  BY CodeMembers, ProcAssumption DEF ProcInit, IntInit
<1>2. ProcInv
  BY CodeMembers
     DEF ProcInit, ProcInv, Here, Running, CurrentSet, InTable, Switched, Mapping,
         Saving, StackReady, SpaceReady
<1> QED
  BY <1>1, <1>2, IntInit_Inv

\* A step that leaves exec's variables and its place alone.
LEMMA SamePlace ==
  ASSUME ProcInv, UNCHANGED procVars, Here' = Here
  PROVE  ProcInv'
BY DEF ProcInv, procVars

\* Interrupts, traps and handlers do not move the code they interrupt.
LEMMA HereKept ==
  ASSUME IntInv,
         \/ \E n \in Lines : Raise(n) \/ Taken(n)
         \/ \E n \in Traps \cup {127} : Trap(n)
         \/ Handling
  PROVE  Here' = Here
<1>1. CASE \E n \in Lines : Raise(n)
  BY <1>1 DEF Raise, Here
<1>2. CASE \/ \E n \in Lines : Taken(n)
           \/ \E n \in Traps \cup {127} : Trap(n)
  <2>1. PICK n, stub : Gate(n, stub)
    BY <1>2 DEF Taken, Interrupt, Spurious, Trap
  <2>2. ctx \in Code \/ ctx \in {"irq", "wild"}
    BY <1>2 DEF Taken, Interrupt, Spurious, Trap, IntInv, IntTypeOK, Shape
  <2> DEFINE g == [int_no |-> n, regs |-> ctx]
  <2>3. CASE ctx \in Code
    <3>1. frames = <<>> /\ frames' = <<g>> /\ frames'[1] = g /\ frames' # <<>>
      BY <2>1, <2>3, OneFrame, Pushed DEF Gate
    <3> QED
      BY <3>1 DEF Here
  <2>4. CASE ctx \in {"irq", "wild"}
    <3>1. ctx \in Stub \ Deep
      BY <2>4 DEF Stub, Deep
    <3>2. PICK f \in Outer : frames = <<f>>
      BY <3>1, OneFrame
    <3>3. frames' = <<f, g>> /\ frames'[1] = f /\ frames' # <<>> /\ frames # <<>> /\ frames[1] = f
      BY <2>1, <3>2, Pushed DEF Gate
    <3> QED
      BY <3>3 DEF Here
  <2> QED
    BY <2>2, <2>3, <2>4
<1>3. CASE irq_handler \/ irq_end \/ fault_handler
  <2>1. ctx \in Stub /\ frames' = frames
    BY <1>3 DEF irq_handler, irq_end, fault_handler, syscall_handler, Stub
  <2>2. frames # <<>>
    BY <2>1, OneFrame
  <2> QED
    BY <2>1, <2>2 DEF Here
<1>4. CASE Return
  <2>1. ctx \in Stub \ Deep
    BY <1>4 DEF Return, Stub, Deep
  <2>2. PICK f \in Outer : frames = <<f>> /\ Top = f /\ frames[1] = f
    BY <2>1, OneFrame
  <2>3. frames' = <<>> /\ ctx' = f.regs
    BY <1>4, <2>2 DEF Return
  <2> QED
    BY <2>2, <2>3 DEF Here
<1> QED
  BY <1>1, <1>2, <1>3, <1>4 DEF Handling

LEMMA ExecKeeps ==
  ASSUME IntInv, ProcInv, exec
  PROVE  ProcInv'
<1>1. ctx \in Code /\ frames = <<>> /\ frames' = <<>> /\ Here = ctx /\ Here' = ctx'
  <2>1. ctx \in Code /\ frames' = frames
    <3>1. CASE \E s : Run(s)
      BY <3>1, RunIsStep DEF Run, Step
    <3>2. CASE check_entry
      BY <3>2, RunIsStep, CodeMembers, ProcAssumption DEF check_entry, Run, Step
    <3>3. CASE ctx = "enter_userspace" /\ frames' = frames
      BY <3>3, CodeMembers, ProcAssumption
    <3> QED
      BY <3>1, <3>2, <3>3 DEF exec, SetField, SetPml, SetCurrent
  <2> QED
    BY <2>1, OneFrame, RunIsStep DEF Here
<1> USE CodeMembers
     DEF Running, CurrentSet, InTable, Switched, Mapping, Saving, StackReady, SpaceReady
<1>2. CASE \E s \in {"load_elf64", "kmalloc_proc", "map_stack"} : Run(s) /\ UNCHANGED procVars
  BY <1>1, <1>2, Order DEF ProcInv, procVars, Run
<1>3. CASE check_entry
  <2>1. ctx = "check_entry" /\ ctx' \in {"kmalloc_proc", "idle"} /\ UNCHANGED procVars
    BY <1>3, Order DEF check_entry, Run
  <2> QED
    BY <1>1, <2>1 DEF ProcInv, procVars
<1>4. CASE SetField("copy_space", "address_space", Space)
  BY <1>1, <1>4, Order DEF ProcInv, SetField, Run
<1>5. CASE SetField("kernel_stack", "kernel_stack", Stack)
  BY <1>1, <1>5, Order DEF ProcInv, SetField, Run
<1>6. CASE SetField("kmalloc_context", "context", Garbage)
  BY <1>1, <1>6, Order DEF ProcInv, SetField, Run
<1>7. CASE /\ Run("prev_space")
           /\ prev_space' = current_pml4
           /\ UNCHANGED <<cr3, current_pml4, tss, rsp0, proc,
                          processes, process_count, cpid, current_process>>
  BY <1>1, <1>7, Order DEF ProcInv, Run
<1>8. CASE \/ SetPml("set_pml_1", proc.address_space)
           \/ SetPml("set_pml_2", prev_space)
           \/ SetPml("set_pml_3", proc.address_space)
  BY <1>1, <1>8, Order DEF ProcInv, SetPml, Run
<1>9. CASE \/ SetCurrent("set_current_1", proc.address_space)
           \/ SetCurrent("set_current_2", prev_space)
           \/ SetCurrent("set_current_3", proc.address_space)
  BY <1>1, <1>9, Order DEF ProcInv, SetCurrent, Run
<1>10. CASE /\ Run("set_kernel_stack")
            /\ UNCHANGED <<cr3, current_pml4, tss, proc, prev_space,
                           processes, process_count, cpid, current_process>>
  BY <1>1, <1>10, Order DEF ProcInv, Run
<1>11. CASE /\ Run("register")
            /\ processes' = [processes EXCEPT ![process_count] = P]
            /\ UNCHANGED <<cr3, current_pml4, tss, rsp0, proc, prev_space,
                           process_count, cpid, current_process>>
  BY <1>1, <1>11, Order, ProcAssumption DEF ProcInv, Run
<1>12. CASE /\ Run("current_process")
            /\ current_process' = P
            /\ UNCHANGED <<cr3, current_pml4, tss, rsp0, proc, prev_space,
                           processes, process_count, cpid>>
  BY <1>1, <1>12, Order DEF ProcInv, Run
<1>13. CASE /\ Run("process_count")
            /\ process_count' = process_count + 1
            /\ UNCHANGED <<cr3, current_pml4, tss, rsp0, proc, prev_space,
                           processes, cpid, current_process>>
  BY <1>1, <1>13, Order DEF ProcInv, Run
<1>14. CASE /\ ctx = "enter_userspace"
            /\ ctx' = "user"
            /\ UNCHANGED <<irr, isr, iflag, frames, procVars>>
  BY <1>1, <1>14 DEF ProcInv, procVars
<1> QED
  BY <1>2, <1>3, <1>4, <1>5, <1>6, <1>7, <1>8, <1>9, <1>10, <1>11, <1>12, <1>13, <1>14
     DEF exec

\* The timer handler, between any two statements.
LEMMA TimerKeeps ==
  ASSUME IntInv, ProcInv, proc_irq_handler
  PROVE  ProcInv'
<1>1. ctx = "irq" /\ frames # <<>>
  <2>1. ctx = "irq" /\ ctx \in Stub
    BY DEF proc_irq_handler, Stub
  <2> QED
    BY <2>1, OneFrame
<1>2. CASE Top.int_no = 32 /\ process_count # 0
  <2>1. Here' = Here
    BY <1>1, <1>2, ScheduleKeepsFrame DEF Here
  <2>2. Here \in Running
    BY <1>2 DEF ProcInv
  <2> QED
    BY <1>2, <2>1, <2>2, ScheduleKeepsFrame
       DEF proc_irq_handler, irq0_listener, ProcInv, Running, CurrentSet, InTable,
           Switched, Saving, StackReady, SpaceReady
<1>3. CASE ~(Top.int_no = 32 /\ process_count # 0)
  <2>1. UNCHANGED <<frames, procVars>>
    BY <1>3 DEF proc_irq_handler, irq0_listener
  <2>2. Here' = Here
    BY <1>1, <2>1 DEF Here
  <2> QED
    BY <2>1, <2>2, SamePlace
<1> QED
  BY <1>2, <1>3

LEMMA NextKeeps ==
  ASSUME IntInv, ProcInv, [ProcNext]_allVars
  PROVE  ProcInv'
<1>1. CASE exec
  BY <1>1, ExecKeeps
<1>2. CASE proc_irq_handler
  BY <1>2, TimerKeeps
<1>3. CASE /\ UNCHANGED procVars
           /\ \/ irq_end \/ fault_handler \/ Return
              \/ \E n \in Lines : Raise(n) \/ Taken(n)
              \/ \E n \in Traps \cup {127} : Trap(n)
  BY <1>3, HereKept, SamePlace DEF Handling
<1>4. CASE UNCHANGED allVars
  BY <1>4, SamePlace DEF allVars, intVars, Here
<1> QED
  BY <1>1, <1>2, <1>3, <1>4 DEF ProcNext, ProcHandling

LEMMA ProcInvariant == ProcSpec => [](IntInv /\ ProcInv)
<1>1. ProcInit => IntInv /\ ProcInv
  BY InitInvs
<1>2. (IntInv /\ ProcInv) /\ [ProcNext]_allVars => (IntInv /\ ProcInv)'
  BY NextImplements, NextKeeps, IntNext_Inv
<1> QED
  BY <1>1, <1>2, PTL DEF ProcSpec

-----------------------------------------------------------------------------
\* Interrupts are transparent: with the timer's copying of contexts, the
\* system still implements Interrupts, where a handler leaves the registers
\* it will restore alone.
THEOREM ContextsKept == ProcSpec => Transparent
<1>1. ProcInit => IntInit
  BY InitInvs
<1>2. (IntInv /\ ProcInv) /\ [ProcNext]_allVars => [IntNext]_intVars
  BY NextImplements
<1> QED
  BY <1>1, <1>2, ProcInvariant, PTL DEF ProcSpec, Transparent, IntSpec

\* The timer handler never meets a half-built process.
THEOREM ProcessesComplete == ProcSpec => []Registered
<1>1. ProcInv => Registered
  BY DEF ProcInv, Registered, Running, CurrentSet, InTable, Switched, Saving,
         StackReady, SpaceReady
<1> QED
  BY <1>1, ProcInvariant, PTL

\* The user stack is mapped, and user code runs, in the process's own space.
THEOREM SpacesSwitched == ProcSpec => []OwnSpace
<1>1. IntInv /\ ProcInv => OwnSpace
  <2> SUFFICES ASSUME IntInv, ProcInv, ctx \in {"map_stack", "user"}
               PROVE cr3 = Space /\ current_pml4 = Space
    BY DEF OwnSpace
  <2>1. Here = ctx
    BY CodeMembers, ProcAssumption, OneFrame DEF Here
  <2> QED
    BY <2>1 DEF ProcInv, Running, CurrentSet, InTable, Switched, Mapping
<1> QED
  BY <1>1, ProcInvariant, PTL
=============================================================================
