--------------------------- MODULE LibraryProofs ----------------------------
(***************************************************************************)
(* What the C library promises: the names strtok finds in a path, and the  *)
(* text printf makes of a format, for every path and every call.           *)
(***************************************************************************)
EXTENDS Strings, Printf, SequenceTheorems, WellFoundedInduction, TLAPS

-----------------------------------------------------------------------------
(* Sequences joined one after the other                                    *)

LEMMA Induct ==
  ASSUME NEW S, 0 \in S, \A n \in Nat : n \in S => n + 1 \in S
  PROVE  Nat \subseteq S
<1> DEFINE R == OpToRel(<, Nat)
<1>1. IsWellFoundedOn(R, Nat)
  BY NatLessThanWellFounded, Zenon
<1>2. \A x, y \in Nat : x < y => <<x, y>> \in R
  BY DEF OpToRel
<1> HIDE DEF R
<1> SUFFICES ASSUME Nat \ S # {} PROVE FALSE
  OBVIOUS
<1>3. PICK x \in Nat \ S : \A y \in Nat \ S : ~(<<y, x>> \in R)
  BY <1>1, WFMin
<1>4. x # 0 /\ x - 1 \in Nat /\ x - 1 < x /\ (x - 1) + 1 = x
  BY <1>3
<1>5. x - 1 \in S
  BY <1>2, <1>3, <1>4
<1> QED
  BY <1>3, <1>4, <1>5

\* What FlattenSeq has made of the first k of the sequences is g[k].
Joins(seqs, n, g) ==
  g = [k \in 1 .. n |-> IF k = 1 THEN seqs[k] ELSE g[k - 1] \o seqs[k]]

LEMMA JoinsExist ==
  ASSUME NEW seqs, NEW n \in Nat, n > 0
  PROVE  \E g : Joins(seqs, n, g)
<1> DEFINE I == {m \in Nat : \E g : Joins(seqs, m, g)}
<1>1. 0 \in I
  <2> DEFINE g == [k \in 1 .. 0 |-> seqs]
  <2>1. Joins(seqs, 0, g)
    BY DEF Joins
  <2> QED
    BY <2>1
<1>2. ASSUME NEW m \in Nat, m \in I PROVE m + 1 \in I
  <2>1. PICK g : Joins(seqs, m, g)
    BY <1>2
  <2> DEFINE h == [k \in 1 .. m + 1 |->
                     IF k = m + 1 THEN IF k = 1 THEN seqs[k] ELSE g[k - 1] \o seqs[k] ELSE g[k]]
  <2>2. ASSUME NEW k \in 1 .. m
        PROVE  g[k] = IF k = 1 THEN seqs[k] ELSE g[k - 1] \o seqs[k]
    BY <2>1 DEF Joins
  <2>3. ASSUME NEW k \in 1 .. m + 1
        PROVE  h[k] = IF k = 1 THEN seqs[k] ELSE h[k - 1] \o seqs[k]
    <3>1. CASE k = m + 1
      <4>1. k # 1 => k - 1 \in 1 .. m + 1 /\ k - 1 # m + 1
        BY <3>1
      <4> QED
        BY <3>1, <4>1
    <3>2. CASE k # m + 1
      <4>1. k \in 1 .. m /\ (k # 1 => k - 1 \in 1 .. m + 1 /\ k - 1 # m + 1)
        BY <3>2
      <4> QED
        BY <2>2, <3>2, <4>1
    <3> QED
      BY <3>1, <3>2
  <2>4. Joins(seqs, m + 1, h)
    <3>1. h = [k \in 1 .. m + 1 |-> h[k]]
      OBVIOUS
    <3> HIDE DEF h
    <3> QED
      BY <2>3, <3>1, Zenon DEF Joins
  <2> HIDE DEF h
  <2> QED
    BY <2>4
<1> HIDE DEF I
<1>3. n \in I
  BY <1>1, <1>2, Induct
<1> QED
  BY <1>3 DEF I

Joint(seqs) == CHOOSE g : Joins(seqs, Len(seqs), g)

\* The function FlattenSeq defines by recursion exists, so it is what its
\* definition says.
LEMMA JointIs ==
  ASSUME NEW S, NEW seqs \in Seq(Seq(S)), Len(seqs) > 0
  PROVE  FlattenSeq(seqs) = Joint(seqs)[Len(seqs)]
<1>1. Len(seqs) # 0
  OBVIOUS
<1> QED
  BY <1>1, Zenon DEF FlattenSeq, Joint, Joins

LEMMA JointFacts ==
  ASSUME NEW S, NEW seqs \in Seq(Seq(S)), Len(seqs) > 0
  PROVE  /\ Joint(seqs)[1] = seqs[1]
         /\ \A k \in 1 .. Len(seqs) : Joint(seqs)[k] \in Seq(S)
         /\ \A k \in 2 .. Len(seqs) : Joint(seqs)[k] = Joint(seqs)[k - 1] \o seqs[k]
<1> DEFINE g == Joint(seqs)
<1>1. Len(seqs) \in Nat /\ \A k \in 1 .. Len(seqs) : seqs[k] \in Seq(S)
  BY LenProperties, ElementOfSeq
<1>2. Joins(seqs, Len(seqs), g)
  BY <1>1, JoinsExist DEF Joint
<1>3. \A k \in 1 .. Len(seqs) : g[k] = IF k = 1 THEN seqs[k] ELSE g[k - 1] \o seqs[k]
  BY <1>2 DEF Joins
<1> HIDE DEF g
<1>4. 1 \in 1 .. Len(seqs)
  BY <1>1
<1>5. g[1] = seqs[1] /\ \A k \in 2 .. Len(seqs) : g[k] = g[k - 1] \o seqs[k]
  <2>1. g[1] = seqs[1]
    BY <1>3, <1>4
  <2>2. \A k \in 2 .. Len(seqs) : k \in 1 .. Len(seqs) /\ k # 1
    BY <1>1
  <2> QED
    BY <1>3, <2>1, <2>2
<1> DEFINE I == {k \in Nat : k + 1 <= Len(seqs) => g[k + 1] \in Seq(S)}
<1>6. 0 \in I
  BY <1>1, <1>4, <1>5
<1>7. ASSUME NEW k \in Nat, k \in I PROVE k + 1 \in I
  <2> SUFFICES ASSUME k + 2 <= Len(seqs) PROVE g[k + 2] \in Seq(S)
    OBVIOUS
  <2>1. k + 2 \in 2 .. Len(seqs) /\ k + 2 \in 1 .. Len(seqs) /\ (k + 2) - 1 = k + 1
    BY <1>1
  <2>2. g[k + 2] = g[k + 1] \o seqs[k + 2]
    BY <1>5, <2>1
  <2>3. g[k + 1] \in Seq(S) /\ seqs[k + 2] \in Seq(S)
    BY <1>1, <1>7, <2>1
  <2> QED
    BY <2>2, <2>3, ConcatProperties
<1>8. ASSUME NEW k \in 1 .. Len(seqs) PROVE g[k] \in Seq(S)
  <2>1. k - 1 \in Nat /\ (k - 1) + 1 = k /\ k <= Len(seqs)
    BY <1>1
  <2>2. k - 1 \in I
    <3> HIDE DEF I
    <3> QED
      BY <1>6, <1>7, <2>1, Induct
  <2> QED
    BY <2>1, <2>2
<1> QED
  BY <1>5, <1>8 DEF g

-----------------------------------------------------------------------------
(* strtok                                                                  *)

LEMMA LeastOf ==
  ASSUME NEW T, T \subseteq Nat, T # {}
  PROVE  \E n \in T : \A k \in T : n <= k
<1> DEFINE R == OpToRel(<, Nat)
<1>1. IsWellFoundedOn(R, Nat)
  BY NatLessThanWellFounded, Zenon
<1>2. \A x, y \in Nat : x < y => <<x, y>> \in R
  BY DEF OpToRel
<1> HIDE DEF R
<1>3. PICK x \in T : \A y \in T : ~(<<y, x>> \in R)
  BY <1>1, WFMin
<1>4. ASSUME NEW k \in T PROVE x <= k
  <2>1. k \in Nat /\ x \in Nat
    OBVIOUS
  <2>2. ~(k < x)
    BY <1>2, <1>3, <2>1
  <2> QED
    BY <2>1, <2>2
<1> QED
  BY <1>4

\* The first of the bytes is found, if there is one.
LEMMA SpanIs ==
  ASSUME NEW N \in Nat, NEW m, DOMAIN m = 1 .. N, NEW stop,
         NEW q \in 1 .. N, NEW z \in q .. N, m[z] \in stop
  PROVE  LET e == q + Span(m, q, stop) IN
         /\ Span(m, q, stop) \in Nat /\ e \in q .. z
         /\ m[e] \in stop
         /\ \A a \in q .. e - 1 : m[a] \notin stop
<1> DEFINE T == {n \in 0 .. N : q + n <= N /\ m[q + n] \in stop}
           Is(n) == /\ n >= 0 /\ m[q + n] \in stop
                    /\ \A k \in 0 .. n - 1 : m[q + k] \notin stop
           G == {a - q : a \in DOMAIN m}
<1>1. z - q \in T
  OBVIOUS
<1>2. PICK n \in T : \A k \in T : n <= k
  <2> HIDE DEF T
  <2>1. T \subseteq Nat
    BY DEF T
  <2> QED
    BY <1>1, <2>1, LeastOf
<1>3. n \in Nat /\ n <= z - q /\ n \in G /\ Is(n)
  <2>1. n \in Nat /\ n <= z - q /\ m[q + n] \in stop
    BY <1>1, <1>2
  <2>2. q + n \in DOMAIN m /\ n = (q + n) - q
    BY <2>1
  <2>3. n \in G
    BY <2>2
  <2>4. ASSUME NEW k \in 0 .. n - 1 PROVE m[q + k] \notin stop
    <3>1. k \in 0 .. N /\ q + k <= N /\ k < n
      BY <2>1
    <3> QED
      BY <1>2, <3>1
  <2> QED
    BY <2>1, <2>3, <2>4
<1>4. Span(m, q, stop) = CHOOSE x \in G : Is(x)
  BY DEF Span
<1>5. Span(m, q, stop) \in G /\ Is(Span(m, q, stop))
  <2> HIDE DEF G, Is
  <2> QED
    BY <1>3, <1>4
<1> DEFINE r == Span(m, q, stop)
<1>6. r \in Int
  BY <1>5
<1>7. r <= n
  <2> SUFFICES ASSUME n < r PROVE FALSE
    BY <1>3, <1>6
  <2>1. n \in 0 .. r - 1
    BY <1>3, <1>6
  <2> QED
    BY <1>3, <1>5, <2>1
<1> HIDE DEF r
<1>8. r \in Nat /\ q + r \in q .. z /\ m[q + r] \in stop
  BY <1>3, <1>5, <1>6, <1>7 DEF r
<1>9. ASSUME NEW a \in q .. q + r - 1 PROVE m[a] \notin stop
  <2>1. a - q \in 0 .. r - 1 /\ q + (a - q) = a
    BY <1>8
  <2> QED
    BY <1>5, <2>1 DEF r
<1> QED
  BY <1>8, <1>9 DEF r

\* A name that has been returned: from i to a NUL, where the path ends or
\* goes on with a slash.
Closed(s, m, i, e) ==
  /\ e \in i + 1 .. Len(s) + 1
  /\ m[e] = NUL
  /\ \A a \in i .. e - 1 : s[a] # "/"
  /\ e = Len(s) + 1 \/ s[e] = "/"

\* The copy m of the path s when strtok has returned b of it and stands at
\* q: only slashes in front of q have been overwritten, and no name that
\* starts there has been missed.
Stands(s, m, q, b) ==
  /\ s \in Seq(Byte \ {NUL})
  /\ m \in Seq(Byte) /\ Len(m) = Len(s) + 1 + Len(Behind)
  /\ m[Len(s) + 1] = NUL
  /\ \A a \in 1 .. Len(s) :
       m[a] # s[a] => /\ m[a] = NUL /\ s[a] = "/"
                      /\ q # 0 => a < q
  /\ q \in 0 .. Len(s) + 1
  /\ q > 1 => s[q - 1] = "/"
  /\ b \in Seq(Nat)
  /\ \A k, l \in DOMAIN b : k < l => b[k] < b[l]
  /\ \A k \in DOMAIN b : /\ b[k] \in Starts(s)
                         /\ q # 0 => b[k] < q
                         /\ \E e \in Nat : Closed(s, m, b[k], e)
  /\ \A i \in Starts(s) : \/ \E k \in DOMAIN b : b[k] = i
                          \/ q # 0 /\ q <= i

TokInv ==
  /\ Stands(path, heap, p, got)
  /\ done \in BOOLEAN
  /\ done => p = 0

LEMMA CopyStands ==
  ASSUME NEW s \in Seq(Byte \ {NUL})
  PROVE  Stands(s, strdup(s), 1, <<>>)
<1> DEFINE t == s \o <<NUL>>
           m == strdup(s)
<1>0. NUL \in Byte /\ Behind \in Seq(Byte) /\ s \in Seq(Byte) /\ <<NUL>> \in Seq(Byte)
  <2>1. s \in [1 .. Len(s) -> Byte] /\ Len(s) \in Nat
    BY LenProperties, ElementOfSeq
  <2> QED
    BY <2>1, StringsAssumption, SeqDef
<1>1. /\ Len(s) \in Nat /\ Len(Behind) \in Nat
      /\ DOMAIN s = 1 .. Len(s) /\ DOMAIN Behind = 1 .. Len(Behind)
  BY <1>0, LenProperties
<1>2. /\ t \in Seq(Byte) /\ Len(t) = Len(s) + 1
      /\ \A a \in 1 .. Len(s) : t[a] = s[a]
      /\ t[Len(s) + 1] = NUL
  BY <1>0, <1>1, ConcatProperties
<1>3. /\ m \in Seq(Byte) /\ Len(m) = Len(t) + Len(Behind)
      /\ \A a \in 1 .. Len(t) : m[a] = t[a]
  <2> HIDE DEF t
  <2> QED
    BY <1>0, <1>2, ConcatProperties DEF strdup, t
<1>4. Len(s) + 1 \in 1 .. Len(t) /\ \A a \in 1 .. Len(s) : a \in 1 .. Len(t)
  BY <1>1, <1>2
<1>5. m[Len(s) + 1] = NUL /\ \A a \in 1 .. Len(s) : m[a] = s[a]
  BY <1>2, <1>3, <1>4
<1>6. \A i \in Starts(s) : i \in Nat /\ 1 <= i
  BY <1>1 DEF Starts
<1>7. <<>> \in Seq(Nat) /\ DOMAIN <<>> = {}
  BY EmptySeq
<1> HIDE DEF m, t
<1>8. Len(m) = Len(s) + 1 + Len(Behind)
  BY <1>1, <1>2, <1>3
<1>9. Stands(s, m, 1, <<>>)
  BY <1>1, <1>3, <1>5, <1>6, <1>7, <1>8 DEF Stands
<1> QED
  BY <1>9 DEF m

\* From q the next name starts at str and ends at end, or there is none.
Cuts(s, m, q, str, end) ==
  /\ str \in q .. Len(s) + 1 /\ end \in str .. Len(s) + 1
  /\ \A a \in q .. str - 1 : m[a] = "/"
  /\ m[str] # "/"
  /\ \A a \in str .. end - 1 : m[a] # "/" /\ m[a] # NUL
  /\ m[end] = "/" \/ m[end] = NUL

LEMMA CutAt ==
  ASSUME NEW s, NEW m, NEW q, NEW b, Stands(s, m, q, b), q # 0
  PROVE  LET str == q + strspn(m, q, delim)
             end == str + strcspn(m, str, delim)
         IN Cuts(s, m, q, str, end)
<1> DEFINE str == q + strspn(m, q, delim)
           end == str + strcspn(m, str, delim)
           z == Len(s) + 1
<1>1. /\ Len(m) \in Nat /\ DOMAIN m = 1 .. Len(m) /\ Len(m) = Len(s) + 1 + Len(Behind)
      /\ Len(s) \in Nat /\ Len(Behind) \in Nat
      /\ z \in 1 .. Len(m) /\ q \in 1 .. z /\ m[z] = NUL
      /\ \A a \in 1 .. Len(m) : m[a] \in Byte
  <2>1. m \in Seq(Byte) /\ s \in Seq(Byte \ {NUL}) /\ Behind \in Seq(Byte)
    BY StringsAssumption DEF Stands
  <2> QED
    BY <2>1, LenProperties, ElementOfSeq DEF Stands
<1>2. NUL \notin delim /\ NUL \in Byte
  BY StringsAssumption DEF delim, NUL
<1>3. /\ str \in q .. z
      /\ m[str] \in Byte \ delim
      /\ \A a \in q .. str - 1 : m[a] \notin Byte \ delim
  <2>1. q \in 1 .. Len(m) /\ z \in q .. Len(m) /\ m[z] \in Byte \ delim
    BY <1>1, <1>2
  <2>2. str = q + Span(m, q, Byte \ delim)
    BY DEF strspn
  <2> DEFINE stop == Byte \ delim
             n == Span(m, q, stop)
  <2>3. m[z] \in stop
    BY <2>1
  <2> HIDE DEF str, stop
  <2>4. /\ n \in Nat /\ q + n \in q .. z
        /\ m[q + n] \in stop
        /\ \A a \in q .. q + n - 1 : m[a] \notin stop
    BY <1>1, <2>1, <2>3, SpanIs
  <2>5. str = q + n
    BY <2>2 DEF stop
  <2> HIDE DEF n
  <2> QED
    BY <1>1, <2>4, <2>5 DEF stop
<1> HIDE DEF str
<1>4. /\ end \in str .. z
      /\ m[end] \in delim \cup {NUL}
      /\ \A a \in str .. end - 1 : m[a] \notin delim \cup {NUL}
  <2>1. str \in 1 .. Len(m) /\ z \in str .. Len(m) /\ m[z] \in delim \cup {NUL}
    BY <1>1, <1>2, <1>3
  <2>2. end = str + Span(m, str, delim \cup {NUL})
    BY DEF strcspn
  <2> DEFINE stop == delim \cup {NUL}
             n == Span(m, str, stop)
  <2>3. m[z] \in stop
    BY <2>1
  <2> HIDE DEF end, stop
  <2>4. /\ n \in Nat /\ str + n \in str .. z
        /\ m[str + n] \in stop
        /\ \A a \in str .. str + n - 1 : m[a] \notin stop
    BY <1>1, <2>1, <2>3, SpanIs
  <2>5. end = str + n
    BY <2>2 DEF stop
  <2> HIDE DEF n
  <2> QED
    BY <1>1, <1>3, <2>4, <2>5 DEF stop
<1> HIDE DEF end
<1>5. \A a \in q .. str - 1 : m[a] = "/"
  <2> SUFFICES ASSUME NEW a \in q .. str - 1 PROVE m[a] = "/"
    OBVIOUS
  <2>1. a \in 1 .. Len(m)
    BY <1>1, <1>3
  <2> QED
    BY <1>1, <1>3, <2>1 DEF delim
<1>6. Cuts(s, m, q, str, end)
  BY <1>1, <1>3, <1>4, <1>5 DEF Cuts, delim
<1> QED
  BY <1>6 DEF str, end

LEMMA ScanStands ==
  ASSUME NEW s, NEW m, NEW q, NEW b, Stands(s, m, q, b), q # 0, Scan(m, q, b)
  PROVE  /\ Stands(s, heap', p', got')
         /\ done' \in BOOLEAN
         /\ done' => p' = 0
<1> DEFINE str == q + strspn(m, q, delim)
           end == str + strcspn(m, str, delim)
           z == Len(s) + 1
<1>1. Cuts(s, m, q, str, end)
  BY CutAt
<1>2. IF end = str
      THEN /\ p' = 0 /\ heap' = m /\ got' = b /\ done' = TRUE
      ELSE /\ p' = IF m[end] # NUL THEN end + 1 ELSE 0
           /\ heap' = IF m[end] # NUL THEN [m EXCEPT ![end] = NUL] ELSE m
           /\ got' = Append(b, str) /\ done' = FALSE
  BY DEF Scan, More
<1> HIDE DEF str, end
<1>3. /\ Len(m) \in Nat /\ DOMAIN m = 1 .. Len(m) /\ Len(m) = Len(s) + 1 + Len(Behind)
      /\ Len(s) \in Nat /\ Len(Behind) \in Nat /\ DOMAIN s = 1 .. Len(s)
      /\ z \in 1 .. Len(m) /\ q \in 1 .. z /\ m[z] = NUL
      /\ \A a \in 1 .. Len(s) : s[a] # NUL
      /\ NUL # "/"
  <2>1. m \in Seq(Byte) /\ s \in Seq(Byte \ {NUL}) /\ Behind \in Seq(Byte)
    BY StringsAssumption DEF Stands
  <2> QED
    BY <2>1, LenProperties, ElementOfSeq DEF Stands, NUL
\* From q on the copy is the path.
<1>4. \A a \in q .. Len(s) : m[a] = s[a]
  BY <1>3 DEF Stands
<1>5. /\ str \in q .. z /\ end \in str .. z
      /\ \A a \in q .. str - 1 : a \in 1 .. Len(s) /\ s[a] = "/"
      /\ \A a \in str .. end - 1 : a \in 1 .. Len(s) /\ s[a] # "/"
      /\ end <= Len(s) => s[end] = "/"
      /\ m[end] = NUL <=> end = z
      /\ end = str <=> str = z
  <2>1. /\ str \in q .. z /\ end \in str .. z
    BY <1>1 DEF Cuts
  <2>2. \A a \in q .. end - 1 : a \in q .. Len(s) /\ m[a] = s[a]
    BY <1>3, <1>4, <2>1
  <2>3. end \in q .. Len(s) => m[end] = s[end] /\ s[end] # NUL
    BY <1>3, <1>4
  <2>4. str \in q .. Len(s) => m[str] = s[str] /\ s[str] # NUL
    BY <1>3, <1>4
  <2>5. /\ \A a \in q .. str - 1 : m[a] = "/"
        /\ m[str] # "/"
        /\ \A a \in str .. end - 1 : m[a] # "/" /\ m[a] # NUL
        /\ m[end] = "/" \/ m[end] = NUL
    BY <1>1 DEF Cuts
  <2>6. end <= Len(s) => s[end] = "/"
    BY <1>3, <2>1, <2>3, <2>5
  <2>7. m[end] = NUL <=> end = z
    BY <1>3, <2>1, <2>3
  <2>8. end = str <=> str = z
    BY <1>3, <2>1, <2>4, <2>5, <2>6
  <2>9. \A a \in q .. str - 1 : a \in 1 .. Len(s) /\ s[a] = "/"
    BY <1>3, <2>1, <2>2, <2>5
  <2>10. \A a \in str .. end - 1 : a \in 1 .. Len(s) /\ s[a] # "/"
    BY <1>3, <2>1, <2>2, <2>5
  <2> QED
    BY <2>1, <2>6, <2>7, <2>8, <2>9, <2>10
\* No name starts between q and end, but at str.
<1>6. ASSUME NEW i \in Starts(s), q <= i, i # str PROVE end < i
  <2>1. i \in 1 .. Len(s) /\ s[i] # "/" /\ (i = 1 \/ s[i - 1] = "/")
    BY <1>3 DEF Starts
  <2>2. ~(i < str)
    <3> SUFFICES ASSUME i < str PROVE FALSE
      OBVIOUS
    <3>1. i \in q .. str - 1
      BY <1>3, <1>5, <1>6, <2>1
    <3> QED
      BY <1>5, <2>1, <3>1
  <2>3. ~(str < i /\ i <= end)
    <3> SUFFICES ASSUME str < i, i <= end PROVE FALSE
      OBVIOUS
    <3>1. i - 1 \in str .. end - 1 /\ i # 1
      BY <1>3, <1>5, <2>1
    <3> QED
      BY <1>5, <2>1, <3>1
  <2>4. str \in Int /\ end \in Int /\ i \in Int
    BY <1>3, <1>5, <2>1
  <2> QED
    BY <1>6, <2>2, <2>3, <2>4
<1>7. CASE end = str
  <2>1. \A i \in Starts(s) : i \in 1 .. Len(s)
    BY <1>3 DEF Starts
  <2>2. \A i \in Starts(s) : \E k \in DOMAIN b : b[k] = i
    <3> SUFFICES ASSUME NEW i \in Starts(s), q <= i PROVE FALSE
      BY DEF Stands
    <3>1. str = z /\ end = z /\ i # str
      BY <1>3, <1>5, <1>7, <2>1
    <3> QED
      BY <1>3, <1>6, <2>1, <3>1
  <2>3. Stands(s, m, 0, b)
    BY <1>3, <2>2 DEF Stands
  <2> QED
    BY <1>2, <1>7, <2>3
<1>8. CASE end # str
  <2> DEFINE cut == end # z
             m2 == IF cut THEN [m EXCEPT ![end] = NUL] ELSE m
             q2 == IF cut THEN end + 1 ELSE 0
             b2 == Append(b, str)
  <2>1. heap' = m2 /\ p' = q2 /\ got' = b2 /\ done' = FALSE
    BY <1>2, <1>5, <1>8
  <2>2. /\ str \in q .. Len(s) /\ str < end /\ str \in Nat /\ end \in 1 .. z
        /\ cut => end <= Len(s) /\ s[end] = "/"
    BY <1>3, <1>5, <1>8
  <2>3. /\ m2 \in Seq(Byte) /\ Len(m2) = Len(m)
        /\ \A a \in 1 .. Len(m) : m2[a] = IF cut /\ a = end THEN NUL ELSE m[a]
    <3>1. CASE cut
      <4>1. NUL \in Byte /\ m \in Seq(Byte)
        BY StringsAssumption DEF Stands
      <4>2. [m EXCEPT ![end] = NUL] \in Seq(Byte) /\ Len([m EXCEPT ![end] = NUL]) = Len(m)
        BY <1>3, <2>2, <4>1, ExceptSeq
      <4> QED
        BY <1>3, <2>2, <3>1, <4>2
    <3>2. CASE ~cut
      BY <3>2 DEF Stands
    <3> QED
      BY <3>1, <3>2
  <2>4. /\ b2 \in Seq(Nat) /\ Len(b) \in Nat /\ Len(b2) = Len(b) + 1
        /\ DOMAIN b = 1 .. Len(b) /\ DOMAIN b2 = 1 .. Len(b) + 1
        /\ \A k \in 1 .. Len(b) : b2[k] = b[k]
        /\ b2[Len(b) + 1] = str
    <3>1. b \in Seq(Nat) /\ str \in Nat
      BY <2>2 DEF Stands
    <3> QED
      BY <3>1, AppendProperties, LenProperties
  <2>5. m2[z] = NUL /\ m2[end] = NUL
    BY <1>3, <1>5, <2>2, <2>3
  <2> HIDE DEF m2, b2
  <2>6. \A a \in 1 .. Len(s) :
          m2[a] # s[a] => /\ m2[a] = NUL /\ s[a] = "/"
                          /\ q2 # 0 => a < q2
    <3> SUFFICES ASSUME NEW a \in 1 .. Len(s), m2[a] # s[a]
                 PROVE  m2[a] = NUL /\ s[a] = "/" /\ (q2 # 0 => a < q2)
      OBVIOUS
    <3>1. a \in 1 .. Len(m)
      BY <1>3
    <3>2. CASE cut /\ a = end
      BY <2>2, <2>3, <3>1, <3>2
    <3>3. CASE ~(cut /\ a = end)
      <4>1. m[a] # s[a] /\ m2[a] = m[a]
        BY <2>3, <3>1, <3>3
      <4>2. m[a] = NUL /\ s[a] = "/" /\ a < q
        BY <4>1 DEF Stands
      <4> QED
        BY <1>3, <2>2, <4>1, <4>2
    <3> QED
      BY <3>2, <3>3
  <2>7. q2 \in 0 .. z /\ (q2 > 1 => s[q2 - 1] = "/")
    BY <1>3, <2>2
  <2>8. \A k \in 1 .. Len(b) : b[k] \in Nat /\ b[k] < str /\ b[k] \in Starts(s)
    <3> SUFFICES ASSUME NEW k \in 1 .. Len(b)
                 PROVE  b[k] \in Nat /\ b[k] < str /\ b[k] \in Starts(s)
      OBVIOUS
    <3>1. b[k] \in Starts(s) /\ b[k] < q
      BY <2>4 DEF Stands
    <3>2. b[k] \in 1 .. Len(s)
      BY <1>3, <3>1 DEF Starts
    <3> QED
      BY <1>3, <2>2, <3>1, <3>2
  <2>9. \A k, l \in DOMAIN b2 : k < l => b2[k] < b2[l]
    <3> SUFFICES ASSUME NEW k \in DOMAIN b2, NEW l \in DOMAIN b2, k < l PROVE b2[k] < b2[l]
      OBVIOUS
    <3>1. k \in 1 .. Len(b)
      BY <2>4
    <3>2. CASE l \in 1 .. Len(b)
      BY <2>4, <3>1, <3>2 DEF Stands
    <3>3. CASE l = Len(b) + 1
      BY <2>4, <2>8, <3>1, <3>3
    <3> QED
      BY <2>4, <3>2, <3>3
  <2>10. str \in Starts(s)
    <3>1. str \in DOMAIN s /\ s[str] # "/"
      BY <1>3, <1>5, <2>2
    <3>2. CASE str = q
      <4>1. q = 1 \/ s[q - 1] = "/"
        BY <1>3 DEF Stands
      <4> QED
        BY <3>1, <3>2, <4>1 DEF Starts
    <3>3. CASE str # q
      <4>1. str - 1 \in q .. str - 1
        BY <1>3, <2>2, <3>3
      <4> QED
        BY <1>5, <3>1, <4>1 DEF Starts
    <3> QED
      BY <3>2, <3>3
  <2>11. \A k \in DOMAIN b2 : /\ b2[k] \in Starts(s)
                              /\ q2 # 0 => b2[k] < q2
                              /\ \E e \in Nat : Closed(s, m2, b2[k], e)
    <3> SUFFICES ASSUME NEW k \in 1 .. Len(b) + 1
                 PROVE  /\ b2[k] \in Starts(s)
                        /\ q2 # 0 => b2[k] < q2
                        /\ \E e \in Nat : Closed(s, m2, b2[k], e)
      BY <2>4
    <3>1. CASE k \in 1 .. Len(b)
      <4>1. b2[k] = b[k] /\ b[k] \in Nat /\ b[k] < str /\ b[k] \in Starts(s)
        BY <2>4, <2>8, <3>1
      <4>2. PICK e \in Nat : Closed(s, m, b[k], e)
        BY <2>4, <3>1 DEF Stands
      <4>3. e \in 1 .. Len(m) /\ m[e] = NUL
        BY <1>3, <4>1, <4>2 DEF Closed
      <4>4. m2[e] = NUL
        BY <2>3, <4>3
      <4>5. Closed(s, m2, b[k], e)
        BY <4>2, <4>4 DEF Closed
      <4> QED
        BY <2>2, <4>1, <4>5
    <3>2. CASE k = Len(b) + 1
      <4>1. Closed(s, m2, str, end)
        BY <1>3, <1>5, <2>2, <2>5 DEF Closed
      <4> QED
        BY <2>2, <2>4, <2>10, <3>2, <4>1
    <3> QED
      BY <3>1, <3>2
  <2>12. \A i \in Starts(s) : \/ \E k \in DOMAIN b2 : b2[k] = i
                              \/ q2 # 0 /\ q2 <= i
    <3> SUFFICES ASSUME NEW i \in Starts(s), ~(q2 # 0 /\ q2 <= i)
                 PROVE  \E k \in DOMAIN b2 : b2[k] = i
      OBVIOUS
    <3>0. i \in 1 .. Len(s)
      BY <1>3 DEF Starts
    <3>1. CASE i = str
      BY <2>4, <3>1
    <3>2. CASE i # str
      <4>1. ~(q <= i)
        <5> SUFFICES ASSUME q <= i PROVE FALSE
          OBVIOUS
        <5>1. end < i
          BY <1>6, <3>2
        <5> QED
          BY <1>3, <2>2, <3>0, <5>1
      <4>2. PICK k \in DOMAIN b : b[k] = i
        BY <4>1 DEF Stands
      <4> QED
        BY <2>4, <4>2
    <3> QED
      BY <3>1, <3>2
  <2>13. Stands(s, m2, q2, b2)
    BY <1>3, <2>3, <2>4, <2>5, <2>6, <2>7, <2>9, <2>11, <2>12 DEF Stands
  <2> QED
    BY <2>1, <2>13
<1> QED
  BY <1>7, <1>8

LEMMA TokInitInv == TokInit => TokInv
<1> SUFFICES ASSUME TokInit PROVE TokInv
  OBVIOUS
<1>1. <<>> \in Seq(Byte \ {NUL})
  BY EmptySeq
<1>2. Stands(<<>>, heap, 1, <<>>)
  BY <1>1, CopyStands DEF TokInit
<1>3. DOMAIN <<>> = {} /\ Len(<<>>) = 0 /\ Starts(<<>>) = {}
  BY EmptySeq DEF Starts
<1>4. Stands(<<>>, heap, 0, <<>>)
  BY <1>2, <1>3 DEF Stands
<1> QED
  BY <1>4 DEF TokInit, TokInv

LEMMA TokStep == TokInv /\ [TokNext]_tokVars => TokInv'
<1> SUFFICES ASSUME TokInv, [TokNext]_tokVars PROVE TokInv'
  OBVIOUS
<1>1. CASE \E s \in Paths : strtok(s)
  <2>1. PICK s \in Paths : strtok(s)
    BY <1>1
  <2>2. s \in Seq(Byte \ {NUL})
    BY StringsAssumption
  <2>3. Stands(s, strdup(s), 1, <<>>)
    BY <2>2, CopyStands
  <2>4. path' = s /\ Scan(strdup(s), 1, <<>>)
    BY <2>1 DEF strtok
  <2>5. Stands(s, heap', p', got') /\ done' \in BOOLEAN /\ (done' => p' = 0)
    BY <2>3, <2>4, ScanStands
  <2> QED
    BY <2>4, <2>5 DEF TokInv
<1>2. CASE strtok_next
  <2>1. p # 0 /\ Scan(heap, p, got) /\ path' = path
    BY <1>2 DEF strtok_next
  <2>2. Stands(path, heap, p, got)
    BY DEF TokInv
  <2>3. Stands(path, heap', p', got') /\ done' \in BOOLEAN /\ (done' => p' = 0)
    BY <2>1, <2>2, ScanStands
  <2> QED
    BY <2>1, <2>3 DEF TokInv
<1>3. CASE strtok_none
  BY <1>3 DEF strtok_none, TokInv
<1>4. CASE UNCHANGED tokVars
  BY <1>4 DEF tokVars, TokInv
<1> QED
  BY <1>1, <1>2, <1>3, <1>4 DEF TokNext

\* What is read at a name that has been returned.
LEMMA ReadName ==
  ASSUME NEW s, NEW m, NEW q, NEW b, Stands(s, m, q, b),
         NEW i \in Starts(s), NEW e \in Nat, Closed(s, m, i, e)
  PROVE  String(m, i) = NameAt(s, i)
<1> DEFINE z == Len(s) + 1
<1>1. /\ Len(m) \in Nat /\ DOMAIN m = 1 .. Len(m) /\ Len(m) = Len(s) + 1 + Len(Behind)
      /\ Len(s) \in Nat /\ Len(Behind) \in Nat /\ DOMAIN s = 1 .. Len(s)
      /\ \A a \in 1 .. Len(s) : s[a] # NUL
  <2>1. m \in Seq(Byte) /\ s \in Seq(Byte \ {NUL}) /\ Behind \in Seq(Byte)
    BY StringsAssumption DEF Stands
  <2> QED
    BY <2>1, LenProperties, ElementOfSeq DEF Stands
<1>2. /\ i \in 1 .. Len(s) /\ e \in i + 1 .. z /\ m[e] = NUL
      /\ \A a \in i .. e - 1 : s[a] # "/"
      /\ e = z \/ s[e] = "/"
  BY <1>1 DEF Starts, Closed
<1>3. \A a \in i .. e - 1 : a \in 1 .. Len(s) /\ m[a] = s[a] /\ m[a] # NUL
  <2> SUFFICES ASSUME NEW a \in i .. e - 1
               PROVE  a \in 1 .. Len(s) /\ m[a] = s[a] /\ m[a] # NUL
    OBVIOUS
  <2>1. a \in 1 .. Len(s) /\ s[a] # "/"
    BY <1>1, <1>2
  <2> QED
    BY <1>1, <2>1 DEF Stands
<1>4. strlen(m, i) = e - i
  <2> DEFINE r == Span(m, i, {NUL})
  <2>1. /\ i \in 1 .. Len(m) /\ e \in i .. Len(m) /\ m[e] \in {NUL}
    BY <1>1, <1>2
  <2>2. r \in Nat /\ i + r \in i .. e /\ m[i + r] \in {NUL}
    BY <1>1, <2>1, SpanIs
  <2> HIDE DEF r
  <2>3. i + r = e
    BY <1>2, <1>3, <2>2
  <2>4. r = e - i
    BY <1>2, <2>2, <2>3
  <2> QED
    BY <2>4 DEF r, strlen
<1> DEFINE Is(j) == /\ \A k \in i .. j : s[k] # "/"
                    /\ j = Len(s) \/ s[j + 1] = "/"
<1>5. (CHOOSE j \in i .. Len(s) : Is(j)) = e - 1
  <2>1. e - 1 \in i .. Len(s) /\ Is(e - 1)
    BY <1>1, <1>2
  <2>2. ASSUME NEW j \in i .. Len(s), Is(j) PROVE j = e - 1
    <3>0. Len(s) \in Int /\ i \in Int
      BY <1>1, <1>2
    <3>1. ~(j < e - 1)
      <4> SUFFICES ASSUME j < e - 1 PROVE FALSE
        OBVIOUS
      <4>1. j \in Int /\ e \in Int /\ e <= Len(s) + 1 /\ i <= j
        BY <1>1, <1>2
      <4>2. j + 1 \in i .. e - 1 /\ j # Len(s)
        BY <3>0, <4>1
      <4> QED
        BY <1>2, <2>2, <4>2
    <3>2. ~(e - 1 < j)
      <4> SUFFICES ASSUME e - 1 < j PROVE FALSE
        OBVIOUS
      <4>1. e \in i .. j /\ e # z
        BY <1>1, <1>2
      <4> QED
        BY <1>2, <2>2, <4>1
    <3> QED
      BY <1>1, <1>2, <3>1, <3>2
  <2> HIDE DEF Is
  <2>3. (CHOOSE j \in i .. Len(s) : Is(j)) \in i .. Len(s)
        /\ Is(CHOOSE j \in i .. Len(s) : Is(j))
    BY <2>1
  <2> QED
    BY <2>2, <2>3
<1>6. NameAt(s, i) = SubSeq(s, i, e - 1)
  BY <1>5 DEF NameAt
<1>7. SubSeq(s, i, e - 1) = [k \in 1 .. e - i |-> m[i + k - 1]]
  <2> DEFINE t == SubSeq(s, i, e - 1)
             u == [k \in 1 .. e - i |-> m[i + k - 1]]
  <2>1. \A a \in i .. e - 1 : s[a] \in Byte \ {NUL}
    <3>1. s \in Seq(Byte \ {NUL})
      BY DEF Stands
    <3> QED
      BY <1>1, <1>3, <3>1, ElementOfSeq
  <2>2. i \in Int /\ e - 1 \in Int /\ i <= e - 1 /\ (e - 1) - i + 1 = e - i /\ e - i \in Nat
    BY <1>2
  <2>3. /\ t \in Seq(Byte \ {NUL}) /\ Len(t) = e - i
        /\ \A k \in 1 .. e - i : t[k] = s[i + k - 1]
    BY <2>1, <2>2, SubSeqProperties
  <2>4. DOMAIN t = 1 .. e - i /\ t \in [1 .. e - i -> Byte \ {NUL}]
    BY <2>3, LenProperties
  <2>5. ASSUME NEW k \in 1 .. e - i PROVE t[k] = u[k]
    <3>1. i + k - 1 \in i .. e - 1
      BY <2>2
    <3> QED
      BY <1>3, <2>3, <3>1
  <2> HIDE DEF t
  <2> QED
    BY <2>4, <2>5 DEF t
<1> QED
  BY <1>4, <1>6, <1>7 DEF String

LEMMA TokensRead == TokInv => PathTokens
<1> SUFFICES ASSUME TokInv PROVE PathTokens
  OBVIOUS
<1>1. Stands(path, heap, p, got) /\ done \in BOOLEAN /\ (done => p = 0)
  BY DEF TokInv
<1>2. /\ DOMAIN heap = 1 .. Len(path) + 1 + Len(Behind)
      /\ DOMAIN path = 1 .. Len(path) /\ Len(path) \in Nat
  <2>1. heap \in Seq(Byte) /\ path \in Seq(Byte \ {NUL})
    BY <1>1 DEF Stands
  <2> QED
    BY <1>1, <2>1, LenProperties DEF Stands
<1>3. \A k \in DOMAIN got : got[k] \in Starts(path) /\ got[k] \in 1 .. Len(path)
  BY <1>1, <1>2 DEF Stands, Starts
<1>4. \A k \in DOMAIN got : String(heap, got[k]) = NameAt(path, got[k])
  <2> SUFFICES ASSUME NEW k \in DOMAIN got
               PROVE  String(heap, got[k]) = NameAt(path, got[k])
    OBVIOUS
  <2>1. PICK e \in Nat : Closed(path, heap, got[k], e)
    BY <1>1 DEF Stands
  <2> QED
    BY <1>1, <1>3, <2>1, ReadName
<1>5. \A i \in Starts(path) :
        \/ \E k \in DOMAIN got : got[k] = i
        \/ ~done /\ \A k \in DOMAIN got : got[k] < i
  <2> SUFFICES ASSUME NEW i \in Starts(path), ~(\E k \in DOMAIN got : got[k] = i)
               PROVE  ~done /\ \A k \in DOMAIN got : got[k] < i
    OBVIOUS
  <2>1. p # 0 /\ p <= i /\ i \in 1 .. Len(path) /\ p \in Nat
    BY <1>1, <1>2 DEF Stands, Starts
  <2>2. \A k \in DOMAIN got : got[k] < p
    BY <1>1, <2>1 DEF Stands
  <2> QED
    BY <1>1, <1>3, <2>1, <2>2
<1>6. TokTypeOK
  BY <1>1, <1>2, <1>3 DEF TokTypeOK, Stands
<1>7. \A k, l \in DOMAIN got : k < l => got[k] < got[l]
  BY <1>1 DEF Stands
<1> QED
  BY <1>3, <1>4, <1>5, <1>6, <1>7 DEF PathTokens

\* On every path strtok returns the path's names, in their order, each still
\* reading as it did after all later calls, and 0 behind the last: the cuts
\* it makes in the copy touch no name and hide none.
THEOREM Strings_PathTokens == TokSpec => []PathTokens
<1>1. TokInit => TokInv
  BY TokInitInv
<1>2. TokInv /\ [TokNext]_tokVars => TokInv'
  BY TokStep
<1>3. TokInv => PathTokens
  BY TokensRead
<1> QED
  BY <1>1, <1>2, <1>3, PTL DEF TokSpec

-----------------------------------------------------------------------------
(***************************************************************************)
(* printf.  Two readings of a format are compared.  The code's is a loop   *)
(* over characters: it reads a directive field by field into flags, width  *)
(* and precision, and converts an argument with a buffer that holds a      *)
(* number backwards.  The standard's is a function of each directive.      *)
(*                                                                         *)
(* The invariant, PrintInv, says at the loop's top that what is left of    *)
(* format and arguments belongs to the pieces behind the first n, and that *)
(* exactly the first n have been printed; within a directive, that what is *)
(* left starts with the fields not read yet, and that those read are in    *)
(* the variables.  It rests on the lemmas about sequences, about numerals  *)
(* (printing and _atoi), about the buffer, about the two ways to put a     *)
(* number together and about how each field is read, in this order.        *)
(***************************************************************************)

(* Sequences joined, and the parts they are joined of.                     *)

LEMMA Regroup ==
  ASSUME NEW S, NEW a \in Seq(S), NEW b \in Seq(S), NEW c \in Seq(S)
  PROVE  /\ (a \o b) \o c = a \o (b \o c)
         /\ a \o b \in Seq(S) /\ b \o c \in Seq(S) /\ a \o (b \o c) \in Seq(S)
<1>1. a \o b \in Seq(S) /\ b \o c \in Seq(S)
  BY ConcatProperties
<1>2. a \o (b \o c) \in Seq(S)
  BY <1>1, ConcatProperties
<1> QED
  BY <1>1, <1>2, ConcatAssociative

Joined(f, a, b) == f = a \o b

LEMMA SplitOff ==
  ASSUME NEW S, NEW f, NEW g, NEW a \in Seq(S), NEW b \in Seq(S), NEW t \in Seq(S),
         Joined(f, g, t), Joined(g, a, b)
  PROVE  Joined(f, a, b \o t) /\ b \o t \in Seq(S)
BY Regroup DEF Joined

LEMMA Cancel ==
  ASSUME NEW S, NEW a \in Seq(S), NEW b \in Seq(S), NEW c \in Seq(S), a \o b = a \o c
  PROVE  b = c
BY ConcatSimplifications

LEMMA SameBehind ==
  ASSUME NEW S, NEW f, NEW g, NEW a \in Seq(S), NEW b \in Seq(S), NEW r \in Seq(S), NEW t \in Seq(S),
         Joined(f, a, r), Joined(f, g, t), Joined(g, a, b)
  PROVE  Joined(r, b, t)
<1>1. b \o t \in Seq(S) /\ a \o r = a \o (b \o t)
  BY Regroup DEF Joined
<1> QED
  BY <1>1, Cancel DEF Joined

\* The first n sequences joined.
Up(seqs, n) == IF n = 0 THEN <<>> ELSE Joint(seqs)[n]

LEMMA UpFacts ==
  ASSUME NEW S, NEW seqs \in Seq(Seq(S))
  PROVE  /\ Len(seqs) \in Nat
         /\ Up(seqs, 0) = <<>>
         /\ \A n \in 0 .. Len(seqs) : Up(seqs, n) \in Seq(S)
         /\ \A n \in 1 .. Len(seqs) : seqs[n] \in Seq(S) /\ Up(seqs, n) = Up(seqs, n - 1) \o seqs[n]
         /\ FlattenSeq(seqs) = Up(seqs, Len(seqs))
<1>1. Len(seqs) \in Nat /\ \A k \in 1 .. Len(seqs) : seqs[k] \in Seq(S)
  BY LenProperties, ElementOfSeq
<1>2. Up(seqs, 0) = <<>>
  BY DEF Up
<1>3. CASE Len(seqs) = 0
  <2>1. seqs = <<>>
    BY <1>3, EmptySeq
  <2>2. FlattenSeq(seqs) = seqs
    BY <1>3 DEF FlattenSeq
  <2>3. \A n \in 0 .. Len(seqs) : n = 0
    BY <1>3
  <2>4. \A n \in 0 .. Len(seqs) : Up(seqs, n) \in Seq(S)
    BY <1>2, <2>3, EmptySeq
  <2>5. \A n \in 1 .. Len(seqs) : FALSE
    BY <1>3
  <2>6. FlattenSeq(seqs) = Up(seqs, Len(seqs))
    BY <1>2, <1>3, <2>1, <2>2
  <2> QED
    BY <1>1, <1>2, <2>4, <2>5, <2>6
<1>4. CASE Len(seqs) # 0
  <2> DEFINE N == Len(seqs)
  <2>1. N \in Nat /\ N > 0
    BY <1>1, <1>4
  <2>2. FlattenSeq(seqs) = Joint(seqs)[N]
    BY <2>1, JointIs
  <2>3. /\ Joint(seqs)[1] = seqs[1]
        /\ \A k \in 1 .. N : Joint(seqs)[k] \in Seq(S)
        /\ \A k \in 2 .. N : Joint(seqs)[k] = Joint(seqs)[k - 1] \o seqs[k]
    BY <2>1, JointFacts
  <2> HIDE DEF N
  <2>4. \A n \in 1 .. N : Up(seqs, n) = Joint(seqs)[n]
    BY <2>1 DEF Up
  <2>5. ASSUME NEW n \in 0 .. N PROVE Up(seqs, n) \in Seq(S)
    <3>1. CASE n = 0
      BY <1>2, <3>1, EmptySeq
    <3>2. CASE n # 0
      <4>1. n \in 1 .. N
        BY <2>1, <3>2
      <4> QED
        BY <2>3, <2>4, <4>1
    <3> QED
      BY <3>1, <3>2
  <2>6. ASSUME NEW n \in 1 .. N PROVE Up(seqs, n) = Up(seqs, n - 1) \o seqs[n]
    <3>1. CASE n = 1
      <4>1. seqs[1] \in Seq(S) /\ n - 1 = 0
        BY <1>1, <2>1, <3>1 DEF N
      <4> QED
        BY <1>2, <2>3, <2>4, <3>1, <4>1, ConcatEmptySeq
    <3>2. CASE n # 1
      <4>1. n \in 2 .. N /\ n - 1 \in 1 .. N
        BY <2>1, <3>2
      <4> QED
        BY <2>3, <2>4, <4>1
    <3> QED
      BY <3>1, <3>2
  <2>7. FlattenSeq(seqs) = Up(seqs, N)
    BY <2>1, <2>2, <2>4
  <2> QED
    BY <1>1, <1>2, <2>5, <2>6, <2>7 DEF N
<1> QED
  BY <1>3, <1>4

Stacked(S, N, u, q) ==
  /\ \A k \in 0 .. N : u[k] \in Seq(S)
  /\ \A k \in 1 .. N : q[k] \in Seq(S) /\ u[k] = u[k - 1] \o q[k]

Begins(S, f, g) == \E t \in Seq(S) : f = g \o t

LEMMA Suffix ==
  ASSUME NEW S, NEW N \in Nat, NEW u, NEW q, Stacked(S, N, u, q), NEW n \in 0 .. N
  PROVE  Begins(S, u[N], u[n])
<1> DEFINE E(k) == Begins(S, u[N], u[k])
           I == {j \in Nat : j <= N => E(N - j)}
<1>1. 0 \in I
  <2>1. N - 0 = N /\ N \in 0 .. N
    OBVIOUS
  <2> QED
    BY <2>1, EmptySeq, ConcatEmptySeq DEF Stacked, Begins
<1>2. ASSUME NEW j \in Nat, j \in I PROVE j + 1 \in I
  <2>1. ASSUME j + 1 <= N PROVE E(N - (j + 1))
    <3> DEFINE m == N - (j + 1)
    <3>1. N - j \in 1 .. N /\ (N - j) - 1 = m /\ m \in 0 .. N /\ j <= N
      BY <2>1
    <3> HIDE DEF m
    <3>2. PICK t \in Seq(S) : u[N] = u[N - j] \o t
      BY <1>2, <3>1 DEF Begins
    <3> DEFINE a == u[m]
               b == q[N - j]
               g == u[N - j]
               f == u[N]
    <3>3. a \in Seq(S) /\ b \in Seq(S) /\ Joined(f, g, t) /\ Joined(g, a, b)
      BY <3>1, <3>2 DEF Stacked, Joined
    <3> HIDE DEF a, b, f, g
    <3>4. Joined(f, a, b \o t) /\ b \o t \in Seq(S)
      BY <3>3, SplitOff
    <3>5. E(m)
      BY <3>4 DEF a, f, Begins, Joined
    <3> QED
      BY <3>5 DEF m
  <2> HIDE DEF E
  <2> QED
    BY <2>1
<1> HIDE DEF I
<1>3. N - n \in Nat /\ N - n <= N /\ N - (N - n) = n
  OBVIOUS
<1>4. N - n \in I
  BY <1>1, <1>2, <1>3, Induct
<1> QED
  BY <1>3, <1>4 DEF I

NextBehind(S, f, g, x, r) == \E t \in Seq(S) : r = x \o t /\ f = g \o t

LEMMA NextStacked ==
  ASSUME NEW S, NEW N \in Nat, NEW u, NEW q, Stacked(S, N, u, q), NEW n \in 0 .. N, NEW m \in 0 .. N,
         m = n + 1, NEW r \in Seq(S), Joined(u[N], u[n], r)
  PROVE  NextBehind(S, u[N], u[m], q[m], r)
<1>1. Begins(S, u[N], u[m])
  BY Suffix
<1>2. PICK t \in Seq(S) : Joined(u[N], u[m], t)
  BY <1>1 DEF Begins, Joined
<1>3. u[n] \in Seq(S) /\ q[m] \in Seq(S) /\ Joined(u[m], u[n], q[m])
  <2>1. m \in 1 .. N /\ m - 1 = n
    OBVIOUS
  <2> QED
    BY <2>1 DEF Stacked, Joined
<1>4. Joined(r, q[m], t)
  BY <1>2, <1>3, SameBehind
<1> QED
  BY <1>2, <1>4 DEF NextBehind, Joined

\* What is behind the first n, of which there are more, begins with the next.
LEMMA NextOne ==
  ASSUME NEW S, NEW seqs \in Seq(Seq(S)), NEW n \in 0 .. Len(seqs) - 1,
         NEW r \in Seq(S), FlattenSeq(seqs) = Up(seqs, n) \o r
  PROVE  /\ n + 1 \in 1 .. Len(seqs)
         /\ \E t \in Seq(S) : r = seqs[n + 1] \o t /\ FlattenSeq(seqs) = Up(seqs, n + 1) \o t
<1> DEFINE N == Len(seqs)
           u == [k \in 0 .. N |-> Up(seqs, k)]
<1>1. /\ N \in Nat
      /\ \A k \in 0 .. N : Up(seqs, k) \in Seq(S)
      /\ \A k \in 1 .. N : seqs[k] \in Seq(S) /\ Up(seqs, k) = Up(seqs, k - 1) \o seqs[k]
      /\ FlattenSeq(seqs) = Up(seqs, N)
  BY UpFacts
<1>2. n + 1 \in 1 .. N /\ n \in 0 .. N /\ n \in 0 .. N - 1 /\ n + 1 \in 0 .. N /\ N \in 0 .. N
  BY <1>1
<1> HIDE DEF N
<1>3. Stacked(S, N, u, seqs) /\ u[n] = Up(seqs, n) /\ u[n + 1] = Up(seqs, n + 1) /\ u[N] = FlattenSeq(seqs)
  <2>1. \A k \in 0 .. N : u[k] = Up(seqs, k)
    OBVIOUS
  <2>2. \A k \in 1 .. N : k \in 0 .. N /\ k - 1 \in 0 .. N
    BY <1>1
  <2> HIDE DEF u
  <2> QED
    BY <1>1, <1>2, <2>1, <2>2 DEF Stacked
<1> HIDE DEF u
<1>4. \E t \in Seq(S) : r = seqs[n + 1] \o t /\ u[N] = u[n + 1] \o t
  <2> DEFINE m == n + 1
  <2>1. Joined(u[N], u[n], r) /\ m = n + 1 /\ m \in 0 .. N
    BY <1>2, <1>3 DEF Joined
  <2> HIDE DEF m
  <2>2. NextBehind(S, u[N], u[m], seqs[m], r)
    BY <1>1, <1>2, <1>3, <2>1, NextStacked
  <2> QED
    BY <2>2 DEF m, NextBehind
<1> QED
  BY <1>2, <1>3, <1>4 DEF N

\* Nothing is left behind all of them.
LEMMA NoneLeft ==
  ASSUME NEW S, NEW seqs \in Seq(Seq(S)), NEW r \in Seq(S),
         FlattenSeq(seqs) = Up(seqs, Len(seqs)) \o r
  PROVE  r = <<>>
<1>1. Len(seqs) \in 0 .. Len(seqs)
  BY UpFacts
<1>2. Up(seqs, Len(seqs)) \in Seq(S) /\ FlattenSeq(seqs) = Up(seqs, Len(seqs))
  BY <1>1, UpFacts
<1> DEFINE u == Up(seqs, Len(seqs))
<1>3. u \in Seq(S) /\ u \o r = u
  BY <1>2
<1> HIDE DEF u
<1>4. u \o r = u \o <<>> /\ <<>> \in Seq(S)
  BY <1>3, EmptySeq, ConcatEmptySeq
<1> QED
  BY <1>3, <1>4, Cancel, Zenon

LEMMA InFront ==
  ASSUME NEW S, NEW c \in S, NEW s \in Seq(S)
  PROVE  /\ <<c>> \in Seq(S) /\ <<c>> \o s \in Seq(S)
         /\ <<c>> \o s # <<>> /\ Head(<<c>> \o s) = c /\ Tail(<<c>> \o s) = s
         /\ (<<c>> \o s)[1] = c /\ Len(<<c>> \o s) = Len(s) + 1
<1>1. <<c>> \in Seq(S) /\ Len(<<c>>) = 1 /\ <<c>>[1] = c
  OBVIOUS
<1>2. Len(s) \in Nat
  BY LenProperties
<1> DEFINE t == <<c>> \o s
<1>3. /\ t \in Seq(S) /\ Len(t) = Len(s) + 1
      /\ \A i \in 1 .. Len(s) + 1 : t[i] = IF i <= 1 THEN <<c>>[i] ELSE s[i - 1]
  BY <1>1, <1>2, ConcatProperties
<1> HIDE DEF t
<1>4. t # <<>> /\ t[1] = c /\ Head(t) = t[1]
  <2>1. 1 \in 1 .. Len(s) + 1
    BY <1>2
  <2>2. t[1] = c
    BY <1>1, <1>3, <2>1
  <2>3. t # <<>>
    BY <1>2, <1>3
  <2> QED
    BY <1>3, <2>2, <2>3
<1>5. Tail(t) = s
  <2>1. Tail(t) \in Seq(S) /\ Len(Tail(t)) = Len(s) /\ \A i \in 1 .. Len(Tail(t)) : Tail(t)[i] = t[i + 1]
    BY <1>2, <1>3, <1>4, HeadTailProperties
  <2>2. ASSUME NEW i \in 1 .. Len(s) PROVE Tail(t)[i] = s[i]
    <3>1. i + 1 \in 1 .. Len(s) + 1 /\ ~(i + 1 <= 1) /\ (i + 1) - 1 = i
      BY <1>2
    <3> QED
      BY <1>3, <2>1, <3>1
  <2> QED
    BY <2>1, <2>2, SeqEqual
<1> QED
  BY <1>1, <1>3, <1>4, <1>5 DEF t

\* The elements of C that a begins with, when what is behind has none.
LEMMA LeadingIs ==
  ASSUME NEW S, NEW C, NEW a \in Seq(S), NEW b \in Seq(S),
         \A k \in 1 .. Len(a) : a[k] \in C, b = <<>> \/ b[1] \notin C
  PROVE  Leading(a \o b, C) = Len(a) /\ After(a \o b, Len(a)) = b
<1> DEFINE s == a \o b
<1>1. Len(a) \in Nat /\ Len(b) \in Nat
  BY LenProperties
<1>2. /\ s \in Seq(S) /\ Len(s) = Len(a) + Len(b)
      /\ \A i \in 1 .. Len(a) + Len(b) : s[i] = IF i <= Len(a) THEN a[i] ELSE b[i - Len(a)]
  BY ConcatProperties
<1> HIDE DEF s
<1> DEFINE Is(n) == (n = Len(s) \/ s[n + 1] \notin C) /\ \A k \in 1 .. n : s[k] \in C
<1>3. Len(a) \in 0 .. Len(s) /\ Is(Len(a))
  <2>1. \A k \in 1 .. Len(a) : s[k] \in C
    BY <1>1, <1>2
  <2>2. CASE b = <<>>
    <3>1. Len(b) = 0
      BY <2>2
    <3> QED
      BY <1>1, <1>2, <2>1, <3>1
  <2>3. CASE b # <<>>
    <3>1. Len(b) > 0
      BY <2>3, EmptySeq
    <3>2. Len(a) + 1 \in 1 .. Len(a) + Len(b) /\ ~(Len(a) + 1 <= Len(a)) /\ (Len(a) + 1) - Len(a) = 1
      BY <1>1, <3>1
    <3>3. s[Len(a) + 1] = b[1]
      BY <1>2, <3>2
    <3> QED
      BY <1>1, <1>2, <2>1, <2>3, <3>3
  <2> QED
    BY <2>2, <2>3
<1>4. ASSUME NEW n \in 0 .. Len(s), Is(n) PROVE n = Len(a)
  <2>1. n \in Nat /\ n <= Len(s)
    BY <1>1, <1>2
  <2>2. CASE n < Len(a)
    <3>1. n + 1 \in 1 .. Len(a) /\ n # Len(s)
      BY <1>1, <1>2, <2>1, <2>2
    <3> QED
      BY <1>3, <1>4, <3>1
  <2>3. CASE Len(a) < n
    <3>1. Len(a) + 1 \in 1 .. n /\ Len(a) # Len(s)
      BY <1>1, <1>2, <2>1, <2>3
    <3> QED
      BY <1>3, <1>4, <3>1
  <2> QED
    BY <1>1, <2>1, <2>2, <2>3
<1>5. Leading(s, C) = Len(a)
  <2>1. Leading(s, C) = CHOOSE n \in 0 .. Len(s) : Is(n)
    BY DEF Leading
  <2> HIDE DEF Is
  <2> QED
    BY <1>3, <1>4, <2>1
<1>6. After(s, Len(a)) = b
  <2>1. \A i \in Len(a) + 1 .. Len(s) : s[i] \in S
    <3> SUFFICES ASSUME NEW i \in Len(a) + 1 .. Len(s) PROVE s[i] \in S
      OBVIOUS
    <3>1. i \in 1 .. Len(s)
      BY <1>1, <1>2
    <3> QED
      BY <1>2, <3>1, ElementOfSeq
  <2> DEFINE u == SubSeq(s, Len(a) + 1, Len(s))
  <2>2. /\ u \in Seq(S)
        /\ Len(u) = IF Len(a) + 1 <= Len(s) THEN Len(s) - (Len(a) + 1) + 1 ELSE 0
        /\ \A i \in 1 .. Len(s) - (Len(a) + 1) + 1 : u[i] = s[(Len(a) + 1) + i - 1]
    <3>1. Len(a) + 1 \in Int /\ Len(s) \in Int
      BY <1>1, <1>2
    <3> QED
      BY <2>1, <3>1, SubSeqProperties
  <2> HIDE DEF u
  <2>3. Len(u) = Len(b)
    BY <1>1, <1>2, <2>2
  <2>4. ASSUME NEW i \in 1 .. Len(u) PROVE u[i] = b[i]
    <3>1. /\ i \in 1 .. Len(s) - (Len(a) + 1) + 1 /\ (Len(a) + 1) + i - 1 = Len(a) + i
          /\ Len(a) + i \in 1 .. Len(a) + Len(b) /\ ~(Len(a) + i <= Len(a)) /\ (Len(a) + i) - Len(a) = i
      BY <1>1, <1>2, <2>3
    <3>2. u[i] = s[Len(a) + i]
      BY <2>2, <3>1
    <3> QED
      BY <1>2, <3>1, <3>2
  <2>5. u = b
    BY <2>2, <2>3, <2>4, SeqEqual
  <2> QED
    BY <2>5 DEF u, After
<1> QED
  BY <1>5, <1>6 DEF s

LEMMA FlattenBoth ==
  ASSUME NEW S, NEW e \in Seq(Seq(S)), NEW q \in Seq(Seq(S))
  PROVE  FlattenSeq(e \o q) = FlattenSeq(e) \o FlattenSeq(q)
<1> DEFINE s == e \o q
           M == Len(e)
           N == Len(q)
<1>1. /\ s \in Seq(Seq(S)) /\ M \in Nat /\ N \in Nat /\ Len(s) = M + N
      /\ \A i \in 1 .. M + N : s[i] = IF i <= M THEN e[i] ELSE q[i - M]
  BY LenProperties, ConcatProperties
<1>2. /\ Up(e, 0) = <<>> /\ \A n \in 0 .. M : Up(e, n) \in Seq(S)
      /\ \A n \in 1 .. M : e[n] \in Seq(S) /\ Up(e, n) = Up(e, n - 1) \o e[n]
      /\ FlattenSeq(e) = Up(e, M)
  BY UpFacts
<1>3. /\ Up(q, 0) = <<>> /\ \A n \in 0 .. N : Up(q, n) \in Seq(S)
      /\ \A n \in 1 .. N : q[n] \in Seq(S) /\ Up(q, n) = Up(q, n - 1) \o q[n]
      /\ FlattenSeq(q) = Up(q, N)
  BY UpFacts
<1>4. /\ Up(s, 0) = <<>>
      /\ \A n \in 1 .. M + N : Up(s, n) = Up(s, n - 1) \o s[n]
      /\ FlattenSeq(s) = Up(s, M + N)
  BY <1>1, UpFacts
<1> HIDE DEF s, M, N
<1> DEFINE I == {k \in Nat : k <= M => Up(s, k) = Up(e, k)}
           J == {k \in Nat : k <= N => Joined(Up(s, M + k), Up(e, M), Up(q, k))}
<1>5. 0 \in I
  BY <1>2, <1>4
<1>6. ASSUME NEW k \in Nat, k \in I PROVE k + 1 \in I
  <2> SUFFICES ASSUME k + 1 <= M PROVE Up(s, k + 1) = Up(e, k + 1)
    OBVIOUS
  <2>1. k + 1 \in 1 .. M /\ k + 1 \in 1 .. M + N /\ (k + 1) - 1 = k /\ k <= M
    BY <1>1
  <2>2. s[k + 1] = e[k + 1] /\ Up(s, k) = Up(e, k)
    BY <1>1, <1>6, <2>1
  <2> QED
    BY <1>2, <1>4, <2>1, <2>2
<1> HIDE DEF I
<1>7. M \in I
  BY <1>1, <1>5, <1>6, Induct
<1>8. Up(s, M) = Up(e, M) /\ Up(e, M) \in Seq(S)
  BY <1>1, <1>2, <1>7 DEF I
<1>9. 0 \in J
  <2>1. M + 0 = M
    BY <1>1
  <2> QED
    BY <1>3, <1>8, <2>1, ConcatEmptySeq DEF Joined
<1>10. ASSUME NEW k \in Nat, k \in J PROVE k + 1 \in J
  <2> SUFFICES ASSUME k + 1 <= N PROVE Joined(Up(s, M + (k + 1)), Up(e, M), Up(q, k + 1))
    OBVIOUS
  <2> DEFINE m == M + (k + 1)
  <2>1. /\ k + 1 \in 1 .. N /\ m \in 1 .. M + N /\ (k + 1) - 1 = k /\ m - 1 = M + k /\ k \in 0 .. N
        /\ ~(m <= M) /\ m - M = k + 1 /\ k <= N
    BY <1>1
  <2> HIDE DEF m
  <2> DEFINE a == Up(e, M)
             b == Up(q, k)
             c == q[k + 1]
             d == Up(q, k + 1)
             f == Up(s, m)
             g == Up(s, M + k)
  <2>2. Joined(g, a, b)
    BY <1>10, <2>1
  <2>3. Joined(d, b, c) /\ b \in Seq(S) /\ c \in Seq(S)
    BY <1>3, <2>1 DEF Joined
  <2>4. Joined(f, g, c) /\ a \in Seq(S)
    BY <1>1, <1>4, <1>8, <2>1 DEF Joined
  <2> HIDE DEF a, b, c, d, f, g
  <2>5. Joined(f, a, b \o c)
    BY <2>2, <2>3, <2>4, SplitOff
  <2>6. Joined(f, a, d)
    BY <2>3, <2>5 DEF Joined
  <2> QED
    BY <2>6 DEF a, d, f, m
<1> HIDE DEF J
<1>11. N \in J
  BY <1>1, <1>9, <1>10, Induct
<1>12. Joined(Up(s, M + N), Up(e, M), Up(q, N))
  BY <1>1, <1>11 DEF J
<1>13. FlattenSeq(s) = FlattenSeq(e) \o FlattenSeq(q)
  BY <1>2, <1>3, <1>4, <1>12 DEF Joined
<1> QED
  BY <1>13 DEF s

\* What putchar is called with for a text.
Sends(text) == [n \in DOMAIN text |-> IF text[n] = EOS THEN <<>> ELSE <<text[n]>>]

LEMMA SendsIs ==
  ASSUME NEW S, NEW a \in Seq(S)
  PROVE  /\ Sends(a) \in Seq(Seq(S)) /\ Len(Sends(a)) = Len(a)
         /\ \A n \in 1 .. Len(a) : Sends(a)[n] = IF a[n] = EOS THEN <<>> ELSE <<a[n]>>
<1>1. Len(a) \in Nat /\ DOMAIN a = 1 .. Len(a) /\ \A n \in 1 .. Len(a) : a[n] \in S
  BY LenProperties, ElementOfSeq
<1>2. \A n \in 1 .. Len(a) : (IF a[n] = EOS THEN <<>> ELSE <<a[n]>>) \in Seq(S)
  <2> SUFFICES ASSUME NEW n \in 1 .. Len(a) PROVE (IF a[n] = EOS THEN <<>> ELSE <<a[n]>>) \in Seq(S)
    OBVIOUS
  <2>1. a[n] \in S
    BY <1>1
  <2>2. <<a[n]>> \in Seq(S)
    BY <2>1
  <2> QED
    BY <2>2, EmptySeq
<1>3. Sends(a) = [n \in 1 .. Len(a) |-> IF a[n] = EOS THEN <<>> ELSE <<a[n]>>]
  BY <1>1 DEF Sends
<1>4. Sends(a) \in [1 .. Len(a) -> Seq(S)]
  BY <1>2, <1>3
<1> QED
  BY <1>1, <1>3, <1>4

LEMMA SentBoth ==
  ASSUME NEW S, NEW a \in Seq(S), NEW b \in Seq(S)
  PROVE  _out_char(a \o b) = _out_char(a) \o _out_char(b)
<1> DEFINE s == a \o b
<1>1. Len(a) \in Nat /\ Len(b) \in Nat
  BY LenProperties
<1>2. /\ s \in Seq(S) /\ Len(s) = Len(a) + Len(b)
      /\ \A i \in 1 .. Len(a) + Len(b) : s[i] = IF i <= Len(a) THEN a[i] ELSE b[i - Len(a)]
  BY ConcatProperties
<1> HIDE DEF s
<1>3. /\ Sends(a) \in Seq(Seq(S)) /\ Len(Sends(a)) = Len(a)
      /\ \A n \in 1 .. Len(a) : Sends(a)[n] = IF a[n] = EOS THEN <<>> ELSE <<a[n]>>
  BY SendsIs
<1>4. /\ Sends(b) \in Seq(Seq(S)) /\ Len(Sends(b)) = Len(b)
      /\ \A n \in 1 .. Len(b) : Sends(b)[n] = IF b[n] = EOS THEN <<>> ELSE <<b[n]>>
  BY SendsIs
<1>5. /\ Sends(s) \in Seq(Seq(S)) /\ Len(Sends(s)) = Len(a) + Len(b)
      /\ \A n \in 1 .. Len(a) + Len(b) : Sends(s)[n] = IF s[n] = EOS THEN <<>> ELSE <<s[n]>>
  BY <1>2, SendsIs
<1>6. Sends(s) = Sends(a) \o Sends(b)
  <2> DEFINE t == Sends(a) \o Sends(b)
  <2>1. /\ t \in Seq(Seq(S)) /\ Len(t) = Len(a) + Len(b)
        /\ \A i \in 1 .. Len(a) + Len(b) :
             t[i] = IF i <= Len(a) THEN Sends(a)[i] ELSE Sends(b)[i - Len(a)]
    <3> DEFINE V == Seq(S)
               e == Sends(a)
               q == Sends(b)
    <3>1. e \in Seq(V) /\ q \in Seq(V) /\ Len(e) = Len(a) /\ Len(q) = Len(b)
      BY <1>3, <1>4
    <3> HIDE DEF V, e, q
    <3>2. /\ e \o q \in Seq(V) /\ Len(e \o q) = Len(e) + Len(q)
          /\ \A i \in 1 .. Len(e) + Len(q) : (e \o q)[i] = IF i <= Len(e) THEN e[i] ELSE q[i - Len(e)]
      BY <3>1, ConcatProperties
    <3> QED
      BY <3>1, <3>2 DEF V, e, q
  <2> HIDE DEF t
  <2>2. ASSUME NEW i \in 1 .. Len(a) + Len(b) PROVE Sends(s)[i] = t[i]
    <3>1. CASE i <= Len(a)
      <4>1. i \in 1 .. Len(a)
        BY <1>1, <3>1
      <4> QED
        BY <1>2, <1>3, <1>5, <2>1, <3>1, <4>1
    <3>2. CASE ~(i <= Len(a))
      <4>1. i - Len(a) \in 1 .. Len(b)
        BY <1>1, <3>2
      <4> QED
        BY <1>2, <1>4, <1>5, <2>1, <3>2, <4>1
    <3> QED
      BY <3>1, <3>2
  <2>3. Sends(s) = t
    <3> DEFINE u == Sends(s)
               V == Seq(S)
    <3>1. u \in Seq(V) /\ t \in Seq(V) /\ Len(u) = Len(t) /\ \A i \in 1 .. Len(u) : u[i] = t[i]
      BY <1>5, <2>1, <2>2
    <3> HIDE DEF u, V
    <3>2. u = t
      BY <3>1, SeqEqual
    <3> QED
      BY <3>2 DEF u
  <2> QED
    BY <2>3 DEF t
<1>7. FlattenSeq(Sends(s)) = FlattenSeq(Sends(a)) \o FlattenSeq(Sends(b))
  BY <1>3, <1>4, <1>6, FlattenBoth
<1> QED
  BY <1>7 DEF s, _out_char, Sends

-----------------------------------------------------------------------------
(* printf: numerals                                                        *)

LEMMA StrongInduct ==
  ASSUME NEW N \in Nat, NEW T,
         \A v \in 0 .. N : (\A w \in 0 .. v - 1 : w \in T) => v \in T
  PROVE  \A v \in 0 .. N : v \in T
<1> DEFINE U == {v \in 0 .. N : v \notin T}
<1> SUFFICES ASSUME U # {} PROVE FALSE
  OBVIOUS
<1>1. U \subseteq Nat
  OBVIOUS
<1>2. PICK v \in U : \A k \in U : v <= k
  <2> HIDE DEF U
  <2> QED
    BY <1>1, LeastOf
<1>3. ASSUME NEW w \in 0 .. v - 1 PROVE w \in T
  <2>1. w \in 0 .. N /\ ~(v <= w)
    OBVIOUS
  <2> QED
    BY <1>2, <2>1
<1> QED
  BY <1>2, <1>3

Bases == {2, 8, 10, 16}

LEMMA DigitOut ==
  ASSUME NEW base \in Bases, NEW v \in Nat
  PROVE  /\ v \div base \in Nat /\ v % base \in 0 .. base - 1
         /\ v = (v \div base) * base + (v % base)
         /\ v \div base <= v
         /\ v > 0 => v \div base < v
         /\ v \div base = 0 <=> v < base
         /\ v < base => v % base = v
<1> DEFINE q == v \div base
           r == v % base
           Facts == /\ q \in Nat /\ r \in 0 .. base - 1 /\ v = q * base + r /\ q <= v
                    /\ v > 0 => q < v
                    /\ q = 0 <=> v < base
                    /\ v < base => r = v
<1>1. ASSUME base = 2 PROVE Facts
  <2>1. q = v \div 2 /\ r = v % 2
    BY <1>1
  <2> HIDE DEF q, r
  <2>2. q \in Nat /\ r \in 0 .. 1 /\ v = q * 2 + r
    BY <2>1
  <2> QED
    BY <1>1, <2>2
<1>2. ASSUME base = 8 PROVE Facts
  <2>1. q = v \div 8 /\ r = v % 8
    BY <1>2
  <2> HIDE DEF q, r
  <2>2. q \in Nat /\ r \in 0 .. 7 /\ v = q * 8 + r
    BY <2>1
  <2> QED
    BY <1>2, <2>2
<1>3. ASSUME base = 10 PROVE Facts
  <2>1. q = v \div 10 /\ r = v % 10
    BY <1>3
  <2> HIDE DEF q, r
  <2>2. q \in Nat /\ r \in 0 .. 9 /\ v = q * 10 + r
    BY <2>1
  <2> QED
    BY <1>3, <2>2
<1>4. ASSUME base = 16 PROVE Facts
  <2>1. q = v \div 16 /\ r = v % 16
    BY <1>4
  <2> HIDE DEF q, r
  <2>2. q \in Nat /\ r \in 0 .. 15 /\ v = q * 16 + r
    BY <2>1
  <2> QED
    BY <1>4, <2>2
<1>5. Facts
  <2> HIDE DEF Facts
  <2> QED
    BY <1>1, <1>2, <1>3, <1>4 DEF Bases
<1> HIDE DEF q, r
<1>6. /\ q \in Nat /\ r \in 0 .. base - 1 /\ v = q * base + r /\ q <= v
      /\ v > 0 => q < v
      /\ q = 0 <=> v < base
      /\ v < base => r = v
  BY <1>5 DEF Facts
<1>7. v \div base \in Nat /\ v % base \in 0 .. base - 1
  BY <1>6 DEF q, r
<1>8. v = (v \div base) * base + (v % base)
  BY <1>6 DEF q, r
<1>9. v \div base <= v /\ (v > 0 => v \div base < v)
  BY <1>6, Zenon DEF q, r
<1>10. (v \div base = 0 <=> v < base) /\ (v < base => v % base = v)
  BY <1>6, Zenon DEF q, r
<1> QED
  BY <1>7, <1>8, <1>9, <1>10, Zenon

NumeralOf(base, letters, f, v) ==
  IF v < base THEN <<letters[v + 1]>> ELSE Append(f[v \div base], letters[1 + (v % base)])
Numerals(base, letters, n, f) == f = [v \in 0 .. n |-> NumeralOf(base, letters, f, v)]
DivisionsOf(base, letters, f, v) ==
  <<letters[1 + (v % base)]>> \o (IF v \div base = 0 THEN <<>> ELSE f[v \div base])
Dividings(base, letters, n, f) == f = [v \in 0 .. n |-> DivisionsOf(base, letters, f, v)]

LEMMA NumeralsExist ==
  ASSUME NEW base \in Bases, NEW letters, NEW n \in Nat
  PROVE  (\E f : Numerals(base, letters, n, f)) /\ \E f : Dividings(base, letters, n, f)
<1> DEFINE I == {m \in Nat : \E f : Numerals(base, letters, m, f)}
           J == {m \in Nat : \E f : Dividings(base, letters, m, f)}
           Go(f, v) == NumeralOf(base, letters, f, v)
           By(f, v) == DivisionsOf(base, letters, f, v)
<1>1. 0 \in I
  <2> DEFINE f == [v \in 0 .. 0 |-> <<letters[v + 1]>>]
  <2>1. f[0] = Go(f, 0)
    BY DEF NumeralOf, Bases
  <2>2. f = [v \in 0 .. 0 |-> Go(f, v)]
    <3>1. f = [v \in 0 .. 0 |-> f[v]] /\ \A v \in 0 .. 0 : f[v] = Go(f, v)
      BY <2>1
    <3> HIDE DEF f, Go
    <3> QED
      BY <3>1
  <2> HIDE DEF f
  <2> QED
    BY <2>2 DEF Numerals
<1>2. 0 \in J
  <2> DEFINE f == [v \in 0 .. 0 |-> <<letters[1 + (v % base)]>> \o <<>>]
  <2>1. f[0] = By(f, 0)
    <3>1. 0 \div base = 0
      BY DigitOut DEF Bases
    <3> QED
      BY <3>1 DEF DivisionsOf
  <2>2. f = [v \in 0 .. 0 |-> By(f, v)]
    <3>1. f = [v \in 0 .. 0 |-> f[v]] /\ \A v \in 0 .. 0 : f[v] = By(f, v)
      BY <2>1
    <3> HIDE DEF f, By
    <3> QED
      BY <3>1
  <2> HIDE DEF f
  <2> QED
    BY <2>2 DEF Dividings
<1>3. ASSUME NEW m \in Nat PROVE \A v \in 0 .. m + 1 : v >= base => v \div base \in 0 .. m
  BY DigitOut DEF Bases
<1>4. ASSUME NEW m \in Nat PROVE \A v \in 0 .. m + 1 : v \div base # 0 => v \div base \in 0 .. m
  BY DigitOut DEF Bases
<1>5. ASSUME NEW m \in Nat, m \in I PROVE m + 1 \in I
  <2>1. PICK f : Numerals(base, letters, m, f)
    BY <1>5
  <2>2. \A v \in 0 .. m : f[v] = Go(f, v)
    BY <2>1 DEF Numerals
  <2> DEFINE h == [v \in 0 .. m + 1 |-> Go(f, v)]
  <2>3. \A v \in 0 .. m : h[v] = f[v]
    <3>1. \A v \in 0 .. m : v \in 0 .. m + 1
      OBVIOUS
    <3> HIDE DEF Go
    <3> QED
      BY <2>2, <3>1
  <2>4. ASSUME NEW v \in 0 .. m + 1 PROVE h[v] = Go(h, v)
    <3>1. h[v] = Go(f, v)
      BY DEF h
    <3> HIDE DEF h
    <3>2. v \in Nat /\ base \in Nat
      BY DEF Bases
    <3>3. ~(v < base) => h[v \div base] = f[v \div base]
      <4>1. ~(v < base) => v >= base
        BY <3>2
      <4>2. v >= base => v \div base \in 0 .. m
        BY <1>3
      <4> QED
        BY <2>3, <4>1, <4>2
    <3>4. Go(f, v) = Go(h, v)
      BY <3>3 DEF NumeralOf
    <3> QED
      BY <3>1, <3>4
  <2>5. h = [v \in 0 .. m + 1 |-> Go(h, v)]
    <3>1. h = [v \in 0 .. m + 1 |-> h[v]]
      OBVIOUS
    <3> HIDE DEF h, Go
    <3> QED
      BY <2>4, <3>1
  <2> HIDE DEF h
  <2> QED
    BY <2>5 DEF Numerals
<1>6. ASSUME NEW m \in Nat, m \in J PROVE m + 1 \in J
  <2>1. PICK f : Dividings(base, letters, m, f)
    BY <1>6
  <2>2. \A v \in 0 .. m : f[v] = By(f, v)
    BY <2>1 DEF Dividings
  <2> DEFINE h == [v \in 0 .. m + 1 |-> By(f, v)]
  <2>3. \A v \in 0 .. m : h[v] = f[v]
    <3>1. \A v \in 0 .. m : v \in 0 .. m + 1
      OBVIOUS
    <3> HIDE DEF By
    <3> QED
      BY <2>2, <3>1
  <2>4. ASSUME NEW v \in 0 .. m + 1 PROVE h[v] = By(h, v)
    <3>1. h[v] = By(f, v)
      BY DEF h
    <3> HIDE DEF h
    <3>2. v \div base # 0 => h[v \div base] = f[v \div base]
      BY <1>4, <2>3
    <3>3. By(f, v) = By(h, v)
      BY <3>2 DEF DivisionsOf
    <3> QED
      BY <3>1, <3>3
  <2>5. h = [v \in 0 .. m + 1 |-> By(h, v)]
    <3>1. h = [v \in 0 .. m + 1 |-> h[v]]
      OBVIOUS
    <3> HIDE DEF h, By
    <3> QED
      BY <2>4, <3>1
  <2> HIDE DEF h
  <2> QED
    BY <2>5 DEF Dividings
<1> HIDE DEF I, J
<1>7. n \in I
  BY <1>1, <1>5, Induct
<1>8. n \in J
  BY <1>2, <1>6, Induct
<1> QED
  BY <1>7, <1>8 DEF I, J

LEMMA NumeralIs ==
  ASSUME NEW base \in Bases, NEW letters, NEW v \in 0 .. ULLONG_MAX
  PROVE  Numeral(base, letters)[v] = NumeralOf(base, letters, Numeral(base, letters), v)
<1>1. ULLONG_MAX \in Nat
  BY PrintfAssumption
<1> DEFINE F == CHOOSE f : Numerals(base, letters, ULLONG_MAX, f)
<1>2. Numeral(base, letters) = F
  BY Zenon DEF Numeral, Numerals, NumeralOf
<1>3. Numerals(base, letters, ULLONG_MAX, F)
  BY <1>1, NumeralsExist
<1> HIDE DEF F
<1>4. F[v] = NumeralOf(base, letters, F, v)
  BY <1>3 DEF Numerals
<1> QED
  BY <1>2, <1>4

LEMMA DivisionsIs ==
  ASSUME NEW base \in Bases, NEW letters, NEW v \in 0 .. ULLONG_MAX
  PROVE  Divisions(base, letters)[v] = DivisionsOf(base, letters, Divisions(base, letters), v)
<1>1. ULLONG_MAX \in Nat
  BY PrintfAssumption
<1> DEFINE F == CHOOSE f : Dividings(base, letters, ULLONG_MAX, f)
<1>2. Divisions(base, letters) = F
  BY Zenon DEF Divisions, Dividings, DivisionsOf
<1>3. Dividings(base, letters, ULLONG_MAX, F)
  BY <1>1, NumeralsExist
<1> HIDE DEF F
<1>4. F[v] = DivisionsOf(base, letters, F, v)
  BY <1>3 DEF Dividings
<1> QED
  BY <1>2, <1>4

LEMMA ReverseIs ==
  ASSUME NEW S, NEW s \in Seq(S)
  PROVE  /\ Reverse(s) \in Seq(S) /\ Len(Reverse(s)) = Len(s)
         /\ \A i \in 1 .. Len(s) : Reverse(s)[i] = s[(Len(s) - i) + 1]
<1> DEFINE r == [i \in 1 .. Len(s) |-> s[(Len(s) - i) + 1]]
<1>1. Len(s) \in Nat
  BY LenProperties
<1>2. \A i \in 1 .. Len(s) : s[(Len(s) - i) + 1] \in S
  <2> SUFFICES ASSUME NEW i \in 1 .. Len(s) PROVE s[(Len(s) - i) + 1] \in S
    OBVIOUS
  <2>1. (Len(s) - i) + 1 \in 1 .. Len(s)
    BY <1>1
  <2> QED
    BY <2>1, ElementOfSeq
<1>3. r \in [1 .. Len(s) -> S]
  BY <1>2
<1>4. r \in Seq(S) /\ Len(r) = Len(s)
  BY <1>1, <1>3
<1>5. \A i \in 1 .. Len(s) : r[i] = s[(Len(s) - i) + 1]
  OBVIOUS
<1>6. Reverse(s) = r
  BY DEF Reverse
<1> HIDE DEF r
<1> QED
  BY <1>4, <1>5, <1>6

LEMMA ReverseBoth ==
  ASSUME NEW S, NEW a \in Seq(S), NEW b \in Seq(S)
  PROVE  Reverse(a \o b) = Reverse(b) \o Reverse(a)
<1> DEFINE s == a \o b
           e == Reverse(a)
           q == Reverse(b)
           r == Reverse(s)
           t == q \o e
           M == Len(a)
           N == Len(b)
<1>1. M \in Nat /\ N \in Nat
  BY LenProperties
<1>2. s \in Seq(S) /\ Len(s) = M + N /\ \A i \in 1 .. M + N : s[i] = IF i <= M THEN a[i] ELSE b[i - M]
  BY ConcatProperties
<1>3. e \in Seq(S) /\ Len(e) = M /\ \A i \in 1 .. M : e[i] = a[(M - i) + 1]
  BY ReverseIs
<1>4. q \in Seq(S) /\ Len(q) = N /\ \A i \in 1 .. N : q[i] = b[(N - i) + 1]
  BY ReverseIs
<1> HIDE DEF s, e, q, M, N
<1>5. r \in Seq(S) /\ Len(r) = M + N /\ \A i \in 1 .. M + N : r[i] = s[((M + N) - i) + 1]
  <2>1. r \in Seq(S) /\ Len(r) = Len(s) /\ \A i \in 1 .. Len(s) : r[i] = s[(Len(s) - i) + 1]
    BY <1>2, ReverseIs
  <2> HIDE DEF r
  <2> QED
    BY <1>2, <2>1
<1>6. t \in Seq(S) /\ Len(t) = N + M /\ \A i \in 1 .. N + M : t[i] = IF i <= N THEN q[i] ELSE e[i - N]
  <2>1. /\ t \in Seq(S) /\ Len(t) = Len(q) + Len(e)
        /\ \A i \in 1 .. Len(q) + Len(e) : t[i] = IF i <= Len(q) THEN q[i] ELSE e[i - Len(q)]
    BY <1>3, <1>4, ConcatProperties
  <2> HIDE DEF t
  <2> QED
    BY <1>3, <1>4, <2>1
<1> HIDE DEF r, t
<1>7. ASSUME NEW i \in 1 .. M + N PROVE r[i] = t[i]
  <2> DEFINE j == ((M + N) - i) + 1
  <2>1. j \in 1 .. M + N /\ i \in 1 .. N + M
    BY <1>1
  <2>2. r[i] = s[j]
    BY <1>5
  <2>3. CASE i <= N
    <3>1. ~(j <= M) /\ j - M = (N - i) + 1 /\ i \in 1 .. N
      BY <1>1, <2>3
    <3> HIDE DEF j
    <3>2. s[j] = b[(N - i) + 1]
      BY <1>2, <2>1, <3>1
    <3> QED
      BY <1>4, <1>6, <2>1, <2>2, <2>3, <3>1, <3>2
  <2>4. CASE ~(i <= N)
    <3>1. j <= M /\ i - N \in 1 .. M /\ (M - (i - N)) + 1 = j
      BY <1>1, <2>4
    <3> HIDE DEF j
    <3>2. s[j] = a[j]
      BY <1>2, <2>1, <3>1
    <3> QED
      BY <1>3, <1>6, <2>1, <2>2, <2>4, <3>1, <3>2
  <2> QED
    BY <2>3, <2>4
<1>8. M + N = N + M
  BY <1>1
<1>9. r = t
  BY <1>5, <1>6, <1>7, <1>8, SeqEqual
<1> QED
  BY <1>9 DEF r, t, s, e, q

LEMMA ReverseOne ==
  ASSUME NEW S, NEW c \in S
  PROVE  <<c>> \in Seq(S) /\ Reverse(<<c>>) = <<c>>
<1>1. <<c>> \in Seq(S) /\ Len(<<c>>) = 1 /\ <<c>>[1] = c
  OBVIOUS
<1> DEFINE s == <<c>>
<1> HIDE DEF s
<1>2. s \in Seq(S) /\ Len(s) = 1
  BY <1>1 DEF s
<1>3. Reverse(s) \in Seq(S) /\ Len(Reverse(s)) = 1 /\ Reverse(s)[1] = s[1]
  BY <1>2, ReverseIs
<1>4. Reverse(s) = s
  <2>1. \A i \in 1 .. Len(Reverse(s)) : Reverse(s)[i] = s[i]
    BY <1>3
  <2> QED
    BY <1>2, <1>3, <2>1, SeqEqual
<1> QED
  BY <1>1, <1>4 DEF s

LEMMA CopiesAre ==
  ASSUME NEW S, NEW c \in S, NEW n \in Int
  PROVE  /\ Copies(c, n) \in Seq(S) /\ Len(Copies(c, n)) = IF n > 0 THEN n ELSE 0
         /\ \A i \in 1 .. n : Copies(c, n)[i] = c
         /\ Reverse(Copies(c, n)) = Copies(c, n)
         /\ n <= 0 => Copies(c, n) = <<>>
<1> DEFINE s == Copies(c, n)
           N == IF n > 0 THEN n ELSE 0
<1>1. N \in Nat
  OBVIOUS
<1>2. s \in Seq(S) /\ Len(s) = N /\ \A i \in 1 .. N : s[i] = c
  <2>1. CASE n > 0
    <3>1. s = [k \in 1 .. n |-> c] /\ n \in Nat /\ N = n
      BY <2>1 DEF Copies
    <3>2. [k \in 1 .. n |-> c] \in [1 .. n -> S]
      OBVIOUS
    <3> QED
      BY <3>1, <3>2
  <2>2. CASE ~(n > 0)
    <3>1. s = <<>> /\ N = 0
      BY <2>2 DEF Copies
    <3> QED
      BY <3>1, EmptySeq
  <2> QED
    BY <2>1, <2>2
<1>3. n <= 0 => s = <<>>
  BY DEF Copies
<1> HIDE DEF s
<1>4. Reverse(s) = s
  <2>1. Reverse(s) \in Seq(S) /\ Len(Reverse(s)) = Len(s) /\ \A i \in 1 .. Len(s) : Reverse(s)[i] = s[(Len(s) - i) + 1]
    BY <1>2, ReverseIs
  <2>2. ASSUME NEW i \in 1 .. Len(Reverse(s)) PROVE Reverse(s)[i] = s[i]
    <3>1. (Len(s) - i) + 1 \in 1 .. N /\ i \in 1 .. N /\ i \in 1 .. Len(s)
      BY <1>1, <1>2, <2>1
    <3> QED
      BY <1>2, <2>1, <3>1
  <2> QED
    BY <1>2, <2>1, <2>2, SeqEqual
<1>5. \A i \in 1 .. n : s[i] = c
  BY <1>1, <1>2
<1> QED
  BY <1>2, <1>3, <1>4, <1>5 DEF s

\* A numeral is not empty, consists of letters of the base, and begins with
\* none for zero, but for zero's own.
Spells(S, base, letters, v, s) ==
  /\ s \in Seq(S) /\ Len(s) >= 1
  /\ \A k \in 1 .. Len(s) : \E d \in 1 .. base : s[k] = letters[d]
  /\ v > 0 => \E d \in 2 .. base : s[1] = letters[d]

LEMMA NumeralSpells ==
  ASSUME NEW S, NEW base \in Bases, NEW letters, \A k \in 1 .. base : letters[k] \in S,
         NEW n \in 0 .. ULLONG_MAX
  PROVE  Spells(S, base, letters, n, Numeral(base, letters)[n])
<1> DEFINE F == Numeral(base, letters)
           T == {v \in 0 .. ULLONG_MAX : Spells(S, base, letters, v, F[v])}
<1>1. ULLONG_MAX \in Nat /\ base \in Nat /\ base > 0
  BY PrintfAssumption DEF Bases
<1>2. \A v \in 0 .. ULLONG_MAX : F[v] = NumeralOf(base, letters, F, v)
  BY NumeralIs
<1> HIDE DEF F
<1>3. ASSUME NEW v \in 0 .. ULLONG_MAX, \A w \in 0 .. v - 1 : w \in T
      PROVE  v \in T
  <2> SUFFICES Spells(S, base, letters, v, F[v])
    OBVIOUS
  <2>1. CASE v < base
    <3> DEFINE c == letters[v + 1]
    <3>1. v + 1 \in 1 .. base /\ (v > 0 => v + 1 \in 2 .. base)
      BY <1>1, <2>1
    <3>2. c \in S
      BY <3>1
    <3>3. F[v] = <<c>>
      BY <1>2, <2>1 DEF NumeralOf
    <3> DEFINE s == <<c>>
    <3>4. s \in Seq(S) /\ Len(s) = 1 /\ s[1] = c
      BY <3>2
    <3> HIDE DEF s
    <3>5. Spells(S, base, letters, v, s)
      BY <3>1, <3>4 DEF Spells
    <3> QED
      BY <3>3, <3>5 DEF s
  <2>2. CASE ~(v < base)
    <3> DEFINE q == v \div base
               r == 1 + (v % base)
               c == letters[r]
               s == F[q]
               t == F[v]
    <3>1. q \in Nat /\ r \in 1 .. base /\ q < v /\ q > 0
      BY <1>1, <2>2, DigitOut
    <3>2. t = Append(s, c)
      BY <1>2, <2>2 DEF NumeralOf
    <3> HIDE DEF q, r
    <3>3. Spells(S, base, letters, q, s) /\ c \in S
      <4>1. q \in 0 .. v - 1
        BY <3>1
      <4> QED
        BY <1>3, <3>1, <4>1
    <3> HIDE DEF t, s
    <3>4. s \in Seq(S) /\ Len(s) >= 1 /\ Len(s) \in Nat
      BY <3>3, LenProperties DEF Spells
    <3>5. t \in Seq(S) /\ Len(t) = Len(s) + 1 /\ (\A k \in 1 .. Len(s) : t[k] = s[k]) /\ t[Len(s) + 1] = c
      BY <3>2, <3>3, <3>4, AppendProperties
    <3>6. ASSUME NEW k \in 1 .. Len(t) PROVE \E d \in 1 .. base : t[k] = letters[d]
      <4>1. CASE k = Len(s) + 1
        BY <3>1, <3>5, <4>1
      <4>2. CASE k # Len(s) + 1
        <5>1. k \in 1 .. Len(s)
          BY <3>4, <3>5, <4>2
        <5> QED
          BY <3>3, <3>5, <5>1 DEF Spells
      <4> QED
        BY <4>1, <4>2
    <3>7. \E d \in 2 .. base : t[1] = letters[d]
      <4>1. 1 \in 1 .. Len(s)
        BY <3>4
      <4>2. t[1] = s[1]
        BY <3>5, <4>1
      <4>3. \E d \in 2 .. base : s[1] = letters[d]
        BY <3>1, <3>3 DEF Spells
      <4> QED
        BY <4>2, <4>3
    <3>8. Len(t) >= 1
      BY <3>4, <3>5
    <3>9. Spells(S, base, letters, v, t)
      BY <3>5, <3>6, <3>7, <3>8 DEF Spells
    <3> QED
      BY <3>9 DEF t
  <2> QED
    BY <2>1, <2>2
<1> HIDE DEF T
<1>4. n \in T
  BY <1>1, <1>3, StrongInduct
<1> QED
  BY <1>4 DEF T, F

\* What the divisions leave in the buffer is the numeral, backwards.
Mirrors(S, d, s) == d \in Seq(S) /\ s \in Seq(S) /\ Len(d) = Len(s) /\ Len(s) >= 1 /\ Reverse(d) = s

LEMMA DivisionsMirror ==
  ASSUME NEW S, NEW base \in Bases, NEW letters, NEW others,
         \A k \in 1 .. base : letters[k] \in S /\ others[k] = letters[k],
         NEW n \in 0 .. ULLONG_MAX
  PROVE  Mirrors(S, Divisions(base, letters)[n], Numeral(base, others)[n])
<1> DEFINE F == Divisions(base, letters)
           G == Numeral(base, others)
           T == {v \in 0 .. ULLONG_MAX : Mirrors(S, F[v], G[v])}
<1>1. ULLONG_MAX \in Nat /\ base \in Nat /\ base > 0
  BY PrintfAssumption DEF Bases
<1>2. \A v \in 0 .. ULLONG_MAX : F[v] = DivisionsOf(base, letters, F, v)
  BY DivisionsIs
<1>3. \A v \in 0 .. ULLONG_MAX : G[v] = NumeralOf(base, others, G, v)
  BY NumeralIs
<1> HIDE DEF F, G
<1>4. ASSUME NEW v \in 0 .. ULLONG_MAX, \A w \in 0 .. v - 1 : w \in T
      PROVE  v \in T
  <2> SUFFICES Mirrors(S, F[v], G[v])
    OBVIOUS
  <2> DEFINE q == v \div base
             r == 1 + (v % base)
             c == letters[r]
  <2>1. q \in Nat /\ r \in 1 .. base /\ (v > 0 => q < v) /\ (q = 0 <=> v < base) /\ (v < base => r = v + 1)
    BY <1>1, DigitOut
  <2>2. c \in S /\ others[r] = c
    <3> HIDE DEF r
    <3> QED
      BY <2>1
  <2>3. F[v] = <<c>> \o (IF q = 0 THEN <<>> ELSE F[q])
    BY <1>2 DEF DivisionsOf
  <2>4. G[v] = IF v < base THEN <<others[v + 1]>> ELSE Append(G[q], others[r])
    BY <1>3 DEF NumeralOf
  <2> HIDE DEF q, r, c
  <2>5. <<c>> \in Seq(S) /\ Reverse(<<c>>) = <<c>> /\ Len(<<c>>) = 1
    BY <2>2, ReverseOne
  <2>6. CASE v < base
    <3>1. F[v] = <<c>>
      BY <2>1, <2>3, <2>5, <2>6, ConcatEmptySeq
    <3>2. G[v] = <<c>>
      BY <2>1, <2>2, <2>4, <2>6
    <3> QED
      BY <2>5, <3>1, <3>2 DEF Mirrors
  <2>7. CASE ~(v < base)
    <3> DEFINE f == F[q]
               g == G[q]
               d == F[v]
               s == G[v]
               one == <<c>>
    <3>1. d = one \o f
      BY <2>1, <2>3, <2>7
    <3>2. s = Append(g, c)
      BY <2>2, <2>4, <2>7
    <3>3. Mirrors(S, f, g)
      <4>1. q \in 0 .. v - 1
        BY <1>1, <2>1, <2>7
      <4> QED
        BY <1>4, <4>1
    <3> HIDE DEF f, g, d, s
    <3>4. f \in Seq(S) /\ g \in Seq(S) /\ Len(f) = Len(g) /\ Reverse(f) = g /\ Len(g) \in Nat
      BY <3>3, LenProperties DEF Mirrors
    <3>5. s = g \o one
      BY <2>2, <3>2, <3>4, AppendIsConcat
    <3> HIDE DEF one
    <3>6. one \in Seq(S) /\ Reverse(one) = one /\ Len(one) = 1
      BY <2>5 DEF one
    <3>7. Reverse(d) = Reverse(f) \o Reverse(one)
      BY <3>1, <3>4, <3>6, ReverseBoth
    <3>8. Reverse(d) = s
      BY <3>4, <3>5, <3>6, <3>7
    <3>9. d \in Seq(S) /\ Len(d) = Len(one) + Len(f)
      BY <3>1, <3>4, <3>6, ConcatProperties
    <3>10. s \in Seq(S) /\ Len(s) = Len(g) + Len(one)
      BY <3>4, <3>5, <3>6, ConcatProperties
    <3>11. Len(d) = Len(s) /\ Len(s) >= 1
      BY <3>4, <3>6, <3>9, <3>10
    <3>12. Mirrors(S, d, s)
      BY <3>8, <3>9, <3>10, <3>11 DEF Mirrors
    <3> QED
      BY <3>12 DEF d, s
  <2> QED
    BY <2>6, <2>7
<1> HIDE DEF T
<1>5. n \in T
  BY <1>1, <1>4, StrongInduct
<1> QED
  BY <1>5 DEF T, F, G

\* The characters of the formats and the texts, with those the code names.
Letters == {"a", "b", "c", "d", "e", "f", "A", "B", "C", "D", "E", "F"}
Symbol ==
  STRING \cup {"0", "1", "2", "3", "4", "5", "6", "7", "8", "9"} \cup Letters
  \cup {" ", "-", "+", "#", "%", "*", ".", "l", "h", "j", "z", "i", "u", "x", "X", "o", "p", "s"}

LEMMA DecimalIs ==
  /\ Decimal \in Seq(Symbol) /\ Len(Decimal) = 10 /\ DOMAIN Decimal = 1 .. 10
  /\ Decimal[1] = "0" /\ \A k \in 2 .. 10 : Decimal[k] # "0"
  /\ _is_digit = {"0", "1", "2", "3", "4", "5", "6", "7", "8", "9"}
  /\ \A k \in 1 .. 10 : Decimal[k] \in _is_digit /\ Decimal[k] \in Symbol
<1>1. Decimal \in Seq(Symbol) /\ Len(Decimal) = 10 /\ DOMAIN Decimal = 1 .. 10
  BY DEF Decimal, Symbol
<1>2. /\ Decimal[1] = "0" /\ Decimal[2] = "1" /\ Decimal[3] = "2" /\ Decimal[4] = "3" /\ Decimal[5] = "4"
      /\ Decimal[6] = "5" /\ Decimal[7] = "6" /\ Decimal[8] = "7" /\ Decimal[9] = "8" /\ Decimal[10] = "9"
  BY DEF Decimal
<1>3. \A k \in 1 .. 10 : k = 1 \/ k = 2 \/ k = 3 \/ k = 4 \/ k = 5 \/ k = 6 \/ k = 7 \/ k = 8 \/ k = 9 \/ k = 10
  OBVIOUS
<1>4. \A k \in 2 .. 10 : k # 1 /\ k \in 1 .. 10
  OBVIOUS
<1>5. \A k \in 2 .. 10 : Decimal[k] # "0"
  BY <1>2, <1>3, <1>4
<1>6. _is_digit = {Decimal[k] : k \in 1 .. 10}
  BY <1>1 DEF _is_digit
<1>7. _is_digit = {"0", "1", "2", "3", "4", "5", "6", "7", "8", "9"}
  <2>1. ASSUME NEW c \in _is_digit PROVE c \in {"0", "1", "2", "3", "4", "5", "6", "7", "8", "9"}
    <3>1. PICK k \in 1 .. 10 : c = Decimal[k]
      BY <1>6
    <3> QED
      BY <1>2, <1>3, <3>1
  <2>2. \A k \in 1 .. 10 : Decimal[k] \in _is_digit
    BY <1>6
  <2>3. /\ 1 \in 1 .. 10 /\ 2 \in 1 .. 10 /\ 3 \in 1 .. 10 /\ 4 \in 1 .. 10 /\ 5 \in 1 .. 10
        /\ 6 \in 1 .. 10 /\ 7 \in 1 .. 10 /\ 8 \in 1 .. 10 /\ 9 \in 1 .. 10 /\ 10 \in 1 .. 10
    OBVIOUS
  <2>4. \A c \in {"0", "1", "2", "3", "4", "5", "6", "7", "8", "9"} : c \in _is_digit
    BY <1>2, <2>2, <2>3
  <2> QED
    BY <2>1, <2>4
<1>8. \A k \in 1 .. 10 : Decimal[k] \in _is_digit
  BY <1>6
<1>9. \A k \in 1 .. 10 : Decimal[k] \in Symbol
  BY <1>7, <1>8 DEF Symbol
<1> QED
  BY <1>1, <1>2, <1>5, <1>7, <1>8, <1>9

LEMMA ValueIs ==
  ASSUME NEW n \in 0 .. 9
  PROVE  Value(Decimal[n + 1]) = n
<1>1. /\ Decimal[1] = "0" /\ Decimal[2] = "1" /\ Decimal[3] = "2" /\ Decimal[4] = "3" /\ Decimal[5] = "4"
      /\ Decimal[6] = "5" /\ Decimal[7] = "6" /\ Decimal[8] = "7" /\ Decimal[9] = "8" /\ Decimal[10] = "9"
  BY DEF Decimal
<1>2. \A k \in 0 .. 9 : k = 0 \/ k = 1 \/ k = 2 \/ k = 3 \/ k = 4 \/ k = 5 \/ k = 6 \/ k = 7 \/ k = 8 \/ k = 9
  OBVIOUS
<1>3. ASSUME NEW m \in 0 .. 9, Decimal[m + 1] = Decimal[n + 1] PROVE m = n
  <2>1. CASE n = 0
    BY <1>1, <1>2, <1>3, <2>1
  <2>2. CASE n = 1
    BY <1>1, <1>2, <1>3, <2>2
  <2>3. CASE n = 2
    BY <1>1, <1>2, <1>3, <2>3
  <2>4. CASE n = 3
    BY <1>1, <1>2, <1>3, <2>4
  <2>5. CASE n = 4
    BY <1>1, <1>2, <1>3, <2>5
  <2>6. CASE n = 5
    BY <1>1, <1>2, <1>3, <2>6
  <2>7. CASE n = 6
    BY <1>1, <1>2, <1>3, <2>7
  <2>8. CASE n = 7
    BY <1>1, <1>2, <1>3, <2>8
  <2>9. CASE n = 8
    BY <1>1, <1>2, <1>3, <2>9
  <2>10. CASE n = 9
    BY <1>1, <1>2, <1>3, <2>10
  <2> QED
    BY <1>2, <2>1, <2>2, <2>3, <2>4, <2>5, <2>6, <2>7, <2>8, <2>9, <2>10
<1> DEFINE c == Decimal[n + 1]
           Is(m) == Decimal[m + 1] = c
<1>4. Is(n)
  OBVIOUS
<1>5. Value(c) = CHOOSE m \in 0 .. 9 : Is(m)
  BY DEF Value
<1>6. \A m \in 0 .. 9 : Is(m) => m = n
  BY <1>3
<1> HIDE DEF Is, c
<1>7. Value(c) = n
  BY <1>4, <1>5, <1>6
<1> QED
  BY <1>7 DEF c

LEMMA LettersAre ==
  ASSUME NEW more, more = <<"a", "b", "c", "d", "e", "f">> \/ more = <<"A", "B", "C", "D", "E", "F">>
  PROVE  /\ \A k \in 1 .. 16 : (Decimal \o more)[k] \in Symbol
         /\ \A k \in 1 .. 10 : (Decimal \o more)[k] = Decimal[k]
<1> DEFINE S == Symbol
<1>1. more \in Seq(S) /\ Len(more) = 6
  <2>1. Letters \subseteq S
    BY DEF Symbol
  <2>2. /\ {"a", "b", "c", "d", "e", "f"} \subseteq S
        /\ {"A", "B", "C", "D", "E", "F"} \subseteq S
    BY <2>1 DEF Letters
  <2> HIDE DEF S
  <2>3. CASE more = <<"a", "b", "c", "d", "e", "f">>
    BY <2>2, <2>3
  <2>4. CASE more = <<"A", "B", "C", "D", "E", "F">>
    BY <2>2, <2>4
  <2> QED
    BY <2>3, <2>4
<1>2. Decimal \in Seq(Symbol) /\ Len(Decimal) = 10
  BY DecimalIs
<1> DEFINE s == Decimal \o more
<1>3. /\ s \in Seq(Symbol) /\ Len(s) = Len(Decimal) + Len(more)
      /\ \A i \in 1 .. Len(Decimal) + Len(more) : s[i] = IF i <= Len(Decimal) THEN Decimal[i] ELSE more[i - Len(Decimal)]
  BY <1>1, <1>2, ConcatProperties
<1> HIDE DEF s
<1>4. Len(s) = 16 /\ \A i \in 1 .. 16 : s[i] = IF i <= 10 THEN Decimal[i] ELSE more[i - 10]
  BY <1>1, <1>2, <1>3
<1>5. \A k \in 1 .. 16 : s[k] \in Symbol
  BY <1>3, <1>4, ElementOfSeq
<1>6. \A k \in 1 .. 10 : s[k] = Decimal[k]
  BY <1>4
<1> QED
  BY <1>5, <1>6 DEF s

LEMMA CaseLetters ==
  /\ \A k \in 1 .. 16 : Lowercase[k] \in Symbol /\ Uppercase[k] \in Symbol
  /\ \A k \in 1 .. 10 : Lowercase[k] = Decimal[k] /\ Uppercase[k] = Decimal[k]
<1>1. \A k \in 1 .. 16 : Lowercase[k] \in Symbol
  BY LettersAre DEF Lowercase
<1>2. \A k \in 1 .. 16 : Uppercase[k] \in Symbol
  BY LettersAre DEF Uppercase
<1>3. \A k \in 1 .. 10 : Lowercase[k] = Decimal[k]
  BY LettersAre DEF Lowercase
<1>4. \A k \in 1 .. 10 : Uppercase[k] = Decimal[k]
  BY LettersAre DEF Uppercase
<1> QED
  BY <1>1, <1>2, <1>3, <1>4

\* What _atoi has made of the first k characters of s is f[k].
Atoi(s, n, f) == f = [k \in 0 .. n |-> IF k = 0 THEN 0 ELSE f[k - 1] * 10 + Value(s[k])]

LEMMA AtoiExists ==
  ASSUME NEW s, NEW n \in Nat
  PROVE  \E f : Atoi(s, n, f)
<1> DEFINE I == {m \in Nat : \E f : Atoi(s, m, f)}
           Go(f, k) == IF k = 0 THEN 0 ELSE f[k - 1] * 10 + Value(s[k])
<1>1. 0 \in I
  <2> DEFINE f == [k \in 0 .. 0 |-> 0]
  <2>1. f = [k \in 0 .. 0 |-> f[k]] /\ \A k \in 0 .. 0 : f[k] = Go(f, k)
    OBVIOUS
  <2> HIDE DEF f, Go
  <2>2. f = [k \in 0 .. 0 |-> Go(f, k)]
    BY <2>1
  <2> QED
    BY <2>2 DEF Atoi, Go
<1>2. ASSUME NEW m \in Nat, m \in I PROVE m + 1 \in I
  <2>1. PICK f : Atoi(s, m, f)
    BY <1>2
  <2>2. \A k \in 0 .. m : f[k] = Go(f, k)
    BY <2>1 DEF Atoi
  <2> DEFINE h == [k \in 0 .. m + 1 |-> Go(f, k)]
  <2>3. \A k \in 0 .. m : h[k] = f[k]
    <3>1. \A k \in 0 .. m : k \in 0 .. m + 1
      OBVIOUS
    <3> HIDE DEF Go
    <3> QED
      BY <2>2, <3>1
  <2>4. ASSUME NEW k \in 0 .. m + 1 PROVE h[k] = Go(h, k)
    <3>1. h[k] = Go(f, k)
      BY DEF h
    <3> HIDE DEF h
    <3>2. k # 0 => k - 1 \in 0 .. m
      OBVIOUS
    <3>3. k # 0 => h[k - 1] = f[k - 1]
      BY <2>3, <3>2
    <3> QED
      BY <3>1, <3>3
  <2>5. h = [k \in 0 .. m + 1 |-> Go(h, k)]
    <3>1. h = [k \in 0 .. m + 1 |-> h[k]]
      OBVIOUS
    <3> HIDE DEF h, Go
    <3> QED
      BY <2>4, <3>1
  <2> HIDE DEF h
  <2> QED
    BY <2>5 DEF Atoi
<1> HIDE DEF I
<1>3. n \in I
  BY <1>1, <1>2, Induct
<1> QED
  BY <1>3 DEF I

LEMMA AtoiIs ==
  ASSUME NEW s, Leading(s, _is_digit) \in Nat
  PROVE  \E f : Atoi(s, Leading(s, _is_digit), f) /\ _atoi(s) = f[Leading(s, _is_digit)]
<1> DEFINE n == Leading(s, _is_digit)
           F == CHOOSE f : Atoi(s, n, f)
<1>1. _atoi(s) = F[n]
  BY Zenon DEF _atoi, Atoi
<1> HIDE DEF n
<1>2. Atoi(s, n, F)
  <2>1. n \in Nat
    BY DEF n
  <2> QED
    BY <2>1, AtoiExists
<1> HIDE DEF F
<1> QED
  BY <1>1, <1>2 DEF n

\* s begins with the numeral of v.
Opens(v, s, m) ==
  LET t == Numeral(10, Decimal)[v] IN
  m \in Nat /\ Len(t) <= m /\ \A k \in 1 .. Len(t) : s[k] = t[k]
Reads(v, s, m, f) ==
  Opens(v, s, m) /\ Atoi(s, m, f) => f[Len(Numeral(10, Decimal)[v])] = v

LEMMA AtoiReads ==
  ASSUME NEW n \in 0 .. ULLONG_MAX, NEW s, NEW m, NEW f
  PROVE  Reads(n, s, m, f)
<1> DEFINE T == {v \in 0 .. ULLONG_MAX : \A s_, m_, f_ : Reads(v, s_, m_, f_)}
           F == Numeral(10, Decimal)
<1>1. ULLONG_MAX \in Nat /\ 10 \in Bases
  BY PrintfAssumption DEF Bases
<1>2. \A v \in 0 .. ULLONG_MAX : F[v] = NumeralOf(10, Decimal, F, v)
  BY <1>1, NumeralIs
<1>3. \A v \in 0 .. ULLONG_MAX : Spells(Symbol, 10, Decimal, v, F[v])
  BY <1>1, NumeralSpells, DecimalIs
<1> HIDE DEF F
<1>4. ASSUME NEW v \in 0 .. ULLONG_MAX, \A w \in 0 .. v - 1 : w \in T
      PROVE  v \in T
  <2> SUFFICES ASSUME NEW s_, NEW m_, NEW f_, Opens(v, s_, m_), Atoi(s_, m_, f_)
               PROVE  f_[Len(F[v])] = v
    BY DEF Reads, F
  <2> DEFINE t == F[v]
             L == Len(t)
  <2>1. t \in Seq(Symbol) /\ L \in Nat /\ L >= 1
    BY <1>3, LenProperties DEF Spells
  <2>2. m_ \in Nat /\ L <= m_ /\ \A k \in 1 .. L : s_[k] = t[k]
    BY DEF Opens, F
  <2>3. \A k \in 0 .. m_ : f_[k] = IF k = 0 THEN 0 ELSE f_[k - 1] * 10 + Value(s_[k])
    BY DEF Atoi
  <2>4. f_[0] = 0 /\ L \in 0 .. m_ /\ f_[L] = f_[L - 1] * 10 + Value(s_[L]) /\ s_[L] = t[L]
    <3>1. L \in 0 .. m_ /\ 0 \in 0 .. m_ /\ L # 0 /\ L \in 1 .. L
      BY <2>1, <2>2
    <3> HIDE DEF L, t
    <3> QED
      BY <2>2, <2>3, <3>1
  <2>5. CASE v < 10
    <3>1. t = <<Decimal[v + 1]>>
      BY <1>2, <2>5 DEF NumeralOf
    <3>2. L = 1 /\ t[L] = Decimal[v + 1] /\ v \in 0 .. 9
      BY <1>1, <2>5, <3>1
    <3>3. Value(Decimal[v + 1]) = v
      BY <3>2, ValueIs
    <3> HIDE DEF t, L
    <3>4. f_[L] = 0 * 10 + v
      BY <2>4, <3>2, <3>3
    <3> QED
      BY <3>4 DEF L, t
  <2>6. CASE ~(v < 10)
    <3> DEFINE q == v \div 10
               r == v % 10
               c == Decimal[1 + (v % 10)]
               u == F[q]
    <3>1. q \in Nat /\ r \in 0 .. 9 /\ q < v /\ v = q * 10 + r
      BY <1>1, <2>6, DigitOut
    <3>2. t = Append(u, c)
      BY <1>2, <2>6 DEF NumeralOf
    <3>3. c = Decimal[r + 1]
      BY <3>1
    <3> HIDE DEF q, r
    <3>4. q \in 0 .. v - 1 /\ q \in 0 .. ULLONG_MAX
      BY <1>1, <3>1
    <3>5. q \in T /\ u \in Seq(Symbol) /\ Len(u) \in Nat /\ Len(u) >= 1
      BY <1>3, <1>4, <3>4, LenProperties DEF Spells
    <3>6. Value(c) = r /\ c \in Symbol
      BY <3>1, <3>3, ValueIs, DecimalIs
    <3> HIDE DEF c
    <3>7. L = Len(u) + 1 /\ t[L] = c /\ \A k \in 1 .. Len(u) : t[k] = u[k]
      <4>1. /\ Len(t) = Len(u) + 1 /\ t[Len(u) + 1] = c /\ \A k \in 1 .. Len(u) : t[k] = u[k]
        BY <3>2, <3>5, <3>6, AppendProperties
      <4> QED
        BY <4>1
    <3> HIDE DEF t, L
    <3>8. f_[Len(u)] = q
      <4>1. Len(u) <= m_
        BY <2>2, <3>5, <3>7, <2>1
      <4>2. \A k \in 1 .. Len(u) : s_[k] = u[k]
        <5>1. \A k \in 1 .. Len(u) : k \in 1 .. L
          BY <3>5, <3>7
        <5> QED
          BY <2>2, <3>7, <5>1
      <4>3. Opens(q, s_, m_)
        BY <2>2, <4>1, <4>2 DEF Opens, u, F
      <4>4. Reads(q, s_, m_, f_)
        BY <3>5
      <4> QED
        BY <4>3, <4>4 DEF Reads, u, F
    <3>9. L - 1 = Len(u)
      BY <3>5, <3>7
    <3>10. f_[L] = q * 10 + r
      BY <2>4, <3>6, <3>7, <3>8, <3>9
    <3> QED
      BY <3>1, <3>10 DEF L, t
  <2> QED
    BY <2>5, <2>6
<1> HIDE DEF T
<1>5. n \in T
  BY <1>1, <1>4, StrongInduct
<1> QED
  BY <1>5 DEF T

\* A numeral is read as the code reads it.
LEMMA NumberRead ==
  ASSUME NEW n \in 0 .. ULLONG_MAX, NEW b \in Seq(Symbol), b = <<>> \/ b[1] \notin _is_digit
  PROVE  LET t == Numeral(10, Decimal)[n] IN
         /\ t \in Seq(Symbol) /\ Len(t) >= 1
         /\ (t \o b)[1] \in _is_digit /\ (n > 0 => (t \o b)[1] # "0")
         /\ _atoi(t \o b) = n
         /\ After(t \o b, Leading(t \o b, _is_digit)) = b
<1> DEFINE t == Numeral(10, Decimal)[n]
           s == t \o b
<1>1. Spells(Symbol, 10, Decimal, n, t)
  <2>1. 10 \in Bases
    BY DEF Bases
  <2> QED
    BY <2>1, NumeralSpells, DecimalIs
<1> HIDE DEF t
<1>2. t \in Seq(Symbol) /\ Len(t) \in Nat /\ Len(t) >= 1 /\ Len(b) \in Nat
  BY <1>1, LenProperties DEF Spells
<1>3. /\ s \in Seq(Symbol) /\ \A k \in 1 .. Len(t) + Len(b) : s[k] = IF k <= Len(t) THEN t[k] ELSE b[k - Len(t)]
  BY <1>2, ConcatProperties
<1>4. \A k \in 1 .. Len(t) : t[k] \in _is_digit
  <2> SUFFICES ASSUME NEW k \in 1 .. Len(t) PROVE t[k] \in _is_digit
    OBVIOUS
  <2>1. \E d \in 1 .. 10 : t[k] = Decimal[d]
    BY <1>1 DEF Spells
  <2> QED
    BY <2>1, DecimalIs
<1>5. Leading(s, _is_digit) = Len(t) /\ After(s, Len(t)) = b
  BY <1>2, <1>4, LeadingIs
<1> HIDE DEF s
<1>6. \A k \in 1 .. Len(t) : s[k] = t[k]
  <2>1. \A k \in 1 .. Len(t) : k \in 1 .. Len(t) + Len(b) /\ k <= Len(t)
    BY <1>2
  <2> QED
    BY <1>3, <2>1
<1>7. _atoi(s) = n
  <2>1. PICK f : Atoi(s, Len(t), f) /\ _atoi(s) = f[Len(t)]
    BY <1>2, <1>5, AtoiIs
  <2>2. Reads(n, s, Len(t), f)
    BY AtoiReads
  <2>3. Opens(n, s, Len(t))
    BY <1>2, <1>6 DEF Opens, t
  <2> QED
    BY <2>1, <2>2, <2>3 DEF Reads, t
<1>8. s[1] \in _is_digit /\ (n > 0 => s[1] # "0")
  <2>1. 1 \in 1 .. Len(t)
    BY <1>2
  <2>2. n > 0 => \E d \in 2 .. 10 : t[1] = Decimal[d]
    BY <1>1 DEF Spells
  <2> QED
    BY <1>4, <1>6, <2>1, <2>2, DecimalIs
<1> QED
  BY <1>2, <1>5, <1>7, <1>8 DEF s, t

-----------------------------------------------------------------------------
(* printf: what the buffer of a number holds                               *)

LEMMA SymbolsIn ==
  /\ {" ", "-", "+", "#", "%", "*", ".", "l", "h", "j", "z", "i", "u", "x", "X", "o", "p", "s"} \subseteq Symbol
  /\ {"b", "c", "d"} \subseteq Symbol
  /\ "0" \in Symbol /\ " " \in Symbol
  /\ STRING \subseteq Symbol
BY DEF Symbol, Letters

LEMMA ShortTexts ==
  /\ <<>> \in Seq(Symbol) /\ <<"0">> \in Seq(Symbol) /\ <<"-">> \in Seq(Symbol)
  /\ <<"+">> \in Seq(Symbol) /\ <<" ">> \in Seq(Symbol) /\ <<"0", "x">> \in Seq(Symbol)
  /\ <<"0", "X">> \in Seq(Symbol) /\ <<"0", "b">> \in Seq(Symbol)
<1> DEFINE S == Symbol
<1>1. "0" \in S /\ "-" \in S /\ "+" \in S /\ " " \in S /\ "x" \in S /\ "X" \in S /\ "b" \in S
  BY SymbolsIn
<1> HIDE DEF S
<1> DEFINE One(c) == <<c>> \in Seq(S)
           Two(c, d) == <<c, d>> \in Seq(S)
<1>2. \A c \in S : One(c)
  OBVIOUS
<1>3. \A c, d \in S : Two(c, d)
  OBVIOUS
<1> HIDE DEF One, Two
<1>4. One("0") /\ One("-") /\ One("+") /\ One(" ") /\ Two("0", "x") /\ Two("0", "X") /\ Two("0", "b")
  BY <1>1, <1>2, <1>3
<1>5. /\ <<>> \in Seq(S) /\ <<"0">> \in Seq(S) /\ <<"-">> \in Seq(S)
      /\ <<"+">> \in Seq(S) /\ <<" ">> \in Seq(S)
  BY <1>4, EmptySeq DEF One
<1>6. /\ <<"0", "x">> \in Seq(S) /\ <<"0", "X">> \in Seq(S) /\ <<"0", "b">> \in Seq(S)
  BY <1>4 DEF Two
<1> QED
  BY <1>5, <1>6 DEF S

\* buf holds t, the last character first.
Backwards(buf, t) ==
  buf \in Seq(Symbol) /\ t \in Seq(Symbol) /\ Len(buf) = Len(t) /\ Len(t) \in Nat /\ Reverse(buf) = t

LEMMA PutIs ==
  ASSUME NEW buf, NEW t, Backwards(buf, t), NEW c \in Symbol, Len(t) < NTOA_BUFFER_SIZE
  PROVE  Backwards(Put(buf, c), <<c>> \o t) /\ Len(<<c>> \o t) = Len(t) + 1
<1>1. buf \in Seq(Symbol) /\ t \in Seq(Symbol) /\ Len(buf) = Len(t) /\ Len(t) \in Nat /\ Reverse(buf) = t
  BY DEF Backwards
<1> DEFINE one == <<c>>
<1>2. one \in Seq(Symbol) /\ Reverse(one) = one /\ Len(one) = 1
  BY ReverseOne
<1>3. Put(buf, c) = buf \o one
  BY <1>1, AppendIsConcat DEF Put
<1> HIDE DEF one
<1>4. buf \o one \in Seq(Symbol) /\ Len(buf \o one) = Len(buf) + Len(one)
  BY <1>1, <1>2, ConcatProperties
<1>5. one \o t \in Seq(Symbol) /\ Len(one \o t) = Len(one) + Len(t)
  BY <1>1, <1>2, ConcatProperties
<1>6. Reverse(buf \o one) = one \o t
  BY <1>1, <1>2, ReverseBoth
<1>7. Len(one \o t) = Len(t) + 1 /\ Len(buf \o one) = Len(one \o t) /\ Len(one \o t) \in Nat
  BY <1>1, <1>2, <1>4, <1>5
<1>8. Backwards(buf \o one, one \o t)
  BY <1>4, <1>5, <1>6, <1>7 DEF Backwards
<1> QED
  BY <1>3, <1>7, <1>8 DEF one

LEMMA PadIs ==
  ASSUME NEW buf, NEW t, Backwards(buf, t), NEW n \in Nat, n <= NTOA_BUFFER_SIZE
  PROVE  /\ Backwards(PadTo(buf, n), Copies("0", n - Len(t)) \o t)
         /\ Len(Copies("0", n - Len(t)) \o t) = IF n > Len(t) THEN n ELSE Len(t)
         /\ PadTo(buf, n) = buf \o Copies("0", n - Len(t))
<1>1. buf \in Seq(Symbol) /\ t \in Seq(Symbol) /\ Len(buf) = Len(t) /\ Len(t) \in Nat /\ Reverse(buf) = t
  BY DEF Backwards
<1> DEFINE z == Copies("0", n - Len(t))
<1>2. /\ z \in Seq(Symbol) /\ Reverse(z) = z
      /\ Len(z) = IF n - Len(t) > 0 THEN n - Len(t) ELSE 0
  <2>1. "0" \in Symbol
    BY SymbolsIn
  <2>2. n - Len(t) \in Int
    BY <1>1
  <2> QED
    BY <2>1, <2>2, CopiesAre
<1>3. PadTo(buf, n) = buf \o z
  <2>1. NTOA_BUFFER_SIZE \in Nat
    BY PrintfAssumption
  <2>2. Smaller(n, NTOA_BUFFER_SIZE) = n
    BY <2>1 DEF Smaller
  <2> QED
    BY <1>1, <2>2 DEF PadTo
<1> HIDE DEF z
<1>4. buf \o z \in Seq(Symbol) /\ Len(buf \o z) = Len(buf) + Len(z)
  BY <1>1, <1>2, ConcatProperties
<1>5. z \o t \in Seq(Symbol) /\ Len(z \o t) = Len(z) + Len(t)
  BY <1>1, <1>2, ConcatProperties
<1>6. Reverse(buf \o z) = z \o t
  BY <1>1, <1>2, ReverseBoth
<1>7. /\ Len(buf \o z) = Len(z \o t) /\ Len(z \o t) \in Nat
      /\ Len(z \o t) = IF n > Len(t) THEN n ELSE Len(t)
  BY <1>1, <1>2, <1>4, <1>5
<1>8. Backwards(buf \o z, z \o t)
  BY <1>4, <1>5, <1>6, <1>7 DEF Backwards
<1> QED
  BY <1>3, <1>7, <1>8 DEF z

\* Zeros that were put there are taken away.
LEMMA Unpad ==
  ASSUME NEW buf, NEW t, Backwards(buf, t), NEW n \in Nat, n <= NTOA_BUFFER_SIZE,
         NEW k \in Nat, n - k >= Len(t)
  PROVE  /\ n - k \in Nat /\ n - k <= NTOA_BUFFER_SIZE
         /\ Len(PadTo(buf, n)) = n
         /\ SubSeq(PadTo(buf, n), 1, n - k) = PadTo(buf, n - k)
<1>1. buf \in Seq(Symbol) /\ t \in Seq(Symbol) /\ Len(buf) = Len(t) /\ Len(t) \in Nat
  BY DEF Backwards
<1>2. NTOA_BUFFER_SIZE \in Nat
  BY PrintfAssumption
<1> DEFINE M == Len(t)
           m == n - k
           y == Copies("0", n - M)
           z == Copies("0", m - M)
           h == PadTo(buf, n)
           q == PadTo(buf, m)
<1>3. /\ M \in Nat /\ m \in Nat /\ m >= M /\ m <= n /\ n - M \in Int /\ m - M \in Int /\ m <= NTOA_BUFFER_SIZE
      /\ "0" \in Symbol
  <2>1. "0" \in Symbol
    BY SymbolsIn
  <2> QED
    BY <1>1, <1>2, <2>1
<1>4. h = buf \o y /\ q = buf \o z
  BY <1>3, PadIs
<1>5. /\ y \in Seq(Symbol) /\ Len(y) = (IF n - M > 0 THEN n - M ELSE 0) /\ \A i \in 1 .. n - M : y[i] = "0"
  <2> DEFINE e == n - M
  <2>1. e \in Int /\ y = Copies("0", e)
    BY <1>3
  <2> HIDE DEF e, y
  <2>2. y \in Seq(Symbol) /\ Len(y) = (IF e > 0 THEN e ELSE 0) /\ \A i \in 1 .. e : y[i] = "0"
    BY <1>3, <2>1, CopiesAre
  <2> QED
    BY <2>2 DEF e
<1>6. /\ z \in Seq(Symbol) /\ Len(z) = (IF m - M > 0 THEN m - M ELSE 0) /\ \A i \in 1 .. m - M : z[i] = "0"
  <2> DEFINE e == m - M
  <2>1. e \in Int /\ z = Copies("0", e)
    BY <1>3
  <2> HIDE DEF e, z
  <2>2. z \in Seq(Symbol) /\ Len(z) = (IF e > 0 THEN e ELSE 0) /\ \A i \in 1 .. e : z[i] = "0"
    BY <1>3, <2>1, CopiesAre
  <2> QED
    BY <2>2 DEF e
<1> HIDE DEF y, z, m, M, h, q
<1>7. Len(y) = n - M /\ Len(z) = m - M /\ Len(buf) = M
  BY <1>1, <1>3, <1>5, <1>6 DEF M
<1>8. h \in Seq(Symbol) /\ Len(h) = n /\ \A i \in 1 .. n : h[i] = IF i <= M THEN buf[i] ELSE "0"
  <2>1. /\ h \in Seq(Symbol) /\ Len(h) = Len(buf) + Len(y)
        /\ \A i \in 1 .. Len(buf) + Len(y) : h[i] = IF i <= Len(buf) THEN buf[i] ELSE y[i - Len(buf)]
    BY <1>1, <1>4, <1>5, ConcatProperties
  <2>2. Len(buf) + Len(y) = n
    BY <1>3, <1>7
  <2>3. \A i \in 1 .. n : ~(i <= M) => i - M \in 1 .. n - M
    BY <1>3
  <2>4. \A i \in 1 .. n : ~(i <= M) => y[i - M] = "0"
    BY <1>5, <2>3
  <2> QED
    BY <1>7, <2>1, <2>2, <2>4
<1>9. q \in Seq(Symbol) /\ Len(q) = m /\ \A i \in 1 .. m : q[i] = IF i <= M THEN buf[i] ELSE "0"
  <2>1. /\ q \in Seq(Symbol) /\ Len(q) = Len(buf) + Len(z)
        /\ \A i \in 1 .. Len(buf) + Len(z) : q[i] = IF i <= Len(buf) THEN buf[i] ELSE z[i - Len(buf)]
    BY <1>1, <1>4, <1>6, ConcatProperties
  <2>2. Len(buf) + Len(z) = m
    BY <1>3, <1>7
  <2>3. \A i \in 1 .. m : ~(i <= M) => i - M \in 1 .. m - M
    BY <1>3
  <2>4. \A i \in 1 .. m : ~(i <= M) => z[i - M] = "0"
    BY <1>6, <2>3
  <2> QED
    BY <1>7, <2>1, <2>2, <2>4
<1> DEFINE s == SubSeq(h, 1, m)
<1>10. s \in Seq(Symbol) /\ Len(s) = m /\ \A i \in 1 .. m : s[i] = h[i]
  <2>1. \A i \in 1 .. m : h[i] \in Symbol
    <3>1. \A i \in 1 .. m : i \in 1 .. Len(h)
      BY <1>3, <1>8
    <3> QED
      BY <1>8, <3>1, ElementOfSeq
  <2>2. 1 \in Int /\ m \in Int
    BY <1>3
  <2>3. /\ s \in Seq(Symbol) /\ Len(s) = (IF 1 <= m THEN m - 1 + 1 ELSE 0)
        /\ \A i \in 1 .. m - 1 + 1 : s[i] = h[1 + i - 1]
    BY <2>1, <2>2, SubSeqProperties
  <2> HIDE DEF s
  <2>4. Len(s) = m
    BY <1>3, <2>3
  <2>5. ASSUME NEW i \in 1 .. m PROVE s[i] = h[i]
    <3>1. i \in 1 .. m - 1 + 1 /\ 1 + i - 1 = i
      BY <1>3
    <3> QED
      BY <2>3, <3>1
  <2> QED
    BY <2>3, <2>4, <2>5
<1> HIDE DEF s
<1>11. s = q
  <2>1. \A i \in 1 .. Len(s) : s[i] = q[i]
    <3> SUFFICES ASSUME NEW i \in 1 .. Len(s) PROVE s[i] = q[i]
      OBVIOUS
    <3>1. i \in 1 .. m /\ i \in 1 .. n
      BY <1>3, <1>10
    <3> QED
      BY <1>8, <1>9, <1>10, <3>1
  <2> QED
    BY <1>9, <1>10, <2>1, SeqEqual
<1> QED
  BY <1>3, <1>8, <1>11 DEF s, q, h, m

-----------------------------------------------------------------------------
(* printf: a number as the code puts it together                           *)

SignText(negative, fl) ==
  IF negative THEN <<"-">> ELSE IF PLUS \in fl THEN <<"+">> ELSE IF SPACE \in fl THEN <<" ">> ELSE <<>>
HashText(base, fl) ==
  IF HASH \notin fl THEN <<>>
  ELSE IF base = 16 THEN IF "UPPERCASE" \in fl THEN <<"0", "X">> ELSE <<"0", "x">>
  ELSE IF base = 2 THEN <<"0", "b">> ELSE <<"0">>
HashLetter(base, fl) ==
  CASE base = 16 -> IF "UPPERCASE" \in fl THEN <<"X">> ELSE <<"x">>
    [] base = 2 -> <<"b">> [] OTHER -> <<>>
Ended(t, w, fl) ==
  IF LEFT \in fl THEN t \o Copies(" ", w - Len(t))
  ELSE IF ZEROPAD \in fl THEN t
  ELSE Copies(" ", w - Len(t)) \o t

LEMMA NothingInFront ==
  ASSUME NEW S, NEW t \in Seq(S)
  PROVE  <<>> \o t = t /\ t \o <<>> = t
BY ConcatEmptySeq

LEMMA SignIs ==
  ASSUME NEW buf, NEW t, Backwards(buf, t), NEW negative \in BOOLEAN, NEW fl,
         Len(SignText(negative, fl)) + Len(t) <= NTOA_BUFFER_SIZE
  PROVE  /\ Backwards(Sign(buf, negative, fl), SignText(negative, fl) \o t)
         /\ SignText(negative, fl) \in Seq(Symbol)
         /\ Len(SignText(negative, fl) \o t) = Len(SignText(negative, fl)) + Len(t)
<1>1. t \in Seq(Symbol) /\ Len(t) \in Nat /\ NTOA_BUFFER_SIZE \in Nat
  BY PrintfAssumption DEF Backwards
<1>2. "-" \in Symbol /\ "+" \in Symbol /\ " " \in Symbol
  BY SymbolsIn
<1>3. ASSUME NEW c \in Symbol, Sign(buf, negative, fl) = Put(buf, c), SignText(negative, fl) = <<c>>
      PROVE  /\ Backwards(Sign(buf, negative, fl), SignText(negative, fl) \o t)
             /\ SignText(negative, fl) \in Seq(Symbol)
             /\ Len(SignText(negative, fl) \o t) = Len(SignText(negative, fl)) + Len(t)
  <2>1. Len(<<c>>) = 1 /\ <<c>> \in Seq(Symbol)
    OBVIOUS
  <2>2. Len(t) < NTOA_BUFFER_SIZE
    BY <1>1, <1>3, <2>1
  <2>3. Backwards(Put(buf, c), <<c>> \o t) /\ Len(<<c>> \o t) = Len(t) + 1
    BY <2>2, PutIs
  <2> QED
    BY <1>1, <1>3, <2>1, <2>3
<1>4. CASE negative
  BY <1>2, <1>3, <1>4 DEF Sign, SignText
<1>5. CASE ~negative /\ PLUS \in fl
  BY <1>2, <1>3, <1>5 DEF Sign, SignText
<1>6. CASE ~negative /\ PLUS \notin fl /\ SPACE \in fl
  BY <1>2, <1>3, <1>6 DEF Sign, SignText
<1>7. CASE ~negative /\ PLUS \notin fl /\ SPACE \notin fl
  <2>1. Sign(buf, negative, fl) = buf /\ SignText(negative, fl) = <<>>
    BY <1>7 DEF Sign, SignText
  <2>2. <<>> \o t = t /\ <<>> \in Seq(Symbol) /\ Len(<<>>) = 0
    BY <1>1, NothingInFront, EmptySeq
  <2> QED
    BY <1>1, <2>1, <2>2
<1> QED
  BY <1>4, <1>5, <1>6, <1>7

LEMMA Appended ==
  ASSUME NEW S, NEW seq \in Seq(S), NEW elt \in S
  PROVE  /\ Append(seq, elt) \in Seq(S) /\ Len(Append(seq, elt)) = Len(seq) + 1
         /\ Append(seq, elt)[Len(seq) + 1] = elt
         /\ \A i \in 1 .. Len(seq) : Append(seq, elt)[i] = seq[i]
BY AppendProperties

LEMMA TwoAre ==
  ASSUME NEW S, NEW a \in S, NEW b \in S
  PROVE  <<a>> \in Seq(S) /\ <<a, b>> = <<a>> \o <<b>> /\ Len(<<a, b>>) = 2
<1>1. <<a>> \in Seq(S) /\ Len(<<a>>) = 1 /\ <<a>>[1] = a
  OBVIOUS
<1>2. <<a, b>> \in Seq(S) /\ Len(<<a, b>>) = 2 /\ <<a, b>>[1] = a /\ <<a, b>>[2] = b
  OBVIOUS
<1> DEFINE one == <<a>>
<1> HIDE DEF one
<1>3. Append(one, b) = one \o <<b>>
  BY <1>1, AppendIsConcat DEF one
<1> DEFINE two == <<a, b>>
           s == Append(one, b)
<1> HIDE DEF two
<1>4. two \in Seq(S) /\ Len(two) = 2 /\ two[1] = a /\ two[2] = b
  BY <1>2 DEF two
<1>5. s \in Seq(S) /\ Len(s) = 2 /\ s[1] = a /\ s[2] = b
  <2>1. one \in Seq(S) /\ Len(one) = 1 /\ one[1] = a
    BY <1>1 DEF one
  <2>2. s \in Seq(S) /\ Len(s) = Len(one) + 1 /\ s[Len(one) + 1] = b /\ \A i \in 1 .. Len(one) : s[i] = one[i]
    BY <2>1, Appended
  <2> HIDE DEF s
  <2> QED
    BY <2>1, <2>2
<1> HIDE DEF s
<1>6. s = two
  <2>1. \A i \in 1 .. Len(s) : i = 1 \/ i = 2
    BY <1>5
  <2>2. \A i \in 1 .. Len(s) : s[i] = two[i]
    BY <1>4, <1>5, <2>1
  <2> QED
    BY <1>4, <1>5, <2>2, SeqEqual
<1>7. two = one \o <<b>>
  BY <1>3, <1>6 DEF s
<1> QED
  BY <1>1, <1>2, <1>7 DEF one, two

LEMMA HashIs ==
  ASSUME NEW buf, NEW t, Backwards(buf, t), NEW base \in Bases, NEW fl, HASH \in fl,
         Len(HashText(base, fl)) + Len(t) <= NTOA_BUFFER_SIZE
  PROVE  /\ Backwards(Hash(buf, base, fl), HashText(base, fl) \o t)
         /\ HashText(base, fl) \in Seq(Symbol)
         /\ Len(HashText(base, fl) \o t) = Len(HashText(base, fl)) + Len(t)
<1>1. t \in Seq(Symbol) /\ Len(t) \in Nat /\ NTOA_BUFFER_SIZE \in Nat
  BY PrintfAssumption DEF Backwards
<1>2. "0" \in Symbol /\ "x" \in Symbol /\ "X" \in Symbol /\ "b" \in Symbol
  BY SymbolsIn
<1>3. ASSUME NEW c \in Symbol, Hash(buf, base, fl) = Put(Put(buf, c), "0"), HashText(base, fl) = <<"0", c>>
      PROVE  /\ Backwards(Hash(buf, base, fl), HashText(base, fl) \o t)
             /\ HashText(base, fl) \in Seq(Symbol)
             /\ Len(HashText(base, fl) \o t) = Len(HashText(base, fl)) + Len(t)
  <2> DEFINE one == <<"0">>
             two == <<c>>
             both == <<"0", c>>
  <2>1. one \in Seq(Symbol) /\ two \in Seq(Symbol) /\ both = one \o two /\ Len(both) = 2
    <3>1. one \in Seq(Symbol) /\ both = one \o two /\ Len(both) = 2
      BY <1>2, TwoAre
    <3>2. two \in Seq(Symbol)
      BY TwoAre
    <3> QED
      BY <3>1, <3>2
  <2> HIDE DEF one, two, both
  <2>2. Len(t) + 2 <= NTOA_BUFFER_SIZE
    BY <1>1, <1>3, <2>1 DEF both
  <2>3. Backwards(Put(buf, c), two \o t) /\ Len(two \o t) = Len(t) + 1
    <3>1. Len(t) < NTOA_BUFFER_SIZE
      BY <1>1, <2>2
    <3> QED
      BY <3>1, PutIs DEF two
  <2> DEFINE u == two \o t
             a == Put(buf, c)
  <2> HIDE DEF u, a
  <2>4. Backwards(Put(a, "0"), one \o u) /\ Len(one \o u) = Len(u) + 1
    <3>1. Len(u) < NTOA_BUFFER_SIZE /\ Backwards(a, u)
      BY <1>1, <2>2, <2>3 DEF u, a
    <3> QED
      BY <1>2, <3>1, PutIs DEF one
  <2>5. one \o u = both \o t
    <3> DEFINE f == both \o t
    <3>1. Joined(f, both, t) /\ Joined(both, one, two)
      BY <2>1 DEF Joined
    <3> HIDE DEF f
    <3>2. Joined(f, one, two \o t)
      BY <1>1, <2>1, <3>1, SplitOff
    <3> QED
      BY <3>2 DEF Joined, f, u
  <2>6. Len(one \o u) = Len(both) + Len(t)
    BY <1>1, <2>1, <2>3, <2>4 DEF u
  <2>7. HashText(base, fl) = both /\ Hash(buf, base, fl) = Put(a, "0")
    BY <1>3 DEF both, a
  <2> QED
    BY <2>1, <2>4, <2>5, <2>6, <2>7
<1>4. CASE base = 16 /\ "UPPERCASE" \in fl
  <2>1. HashText(base, fl) = <<"0", "X">>
    BY <1>4 DEF HashText
  <2>2. Hash(buf, base, fl) = Put(Put(buf, "X"), "0")
    <3>1. HashLetter(base, fl) = <<"X">>
      BY <1>4 DEF HashLetter
    <3>2. <<"X">> # <<>> /\ <<"X">>[1] = "X"
      OBVIOUS
    <3>3. Hash(buf, base, fl) = Put(IF HashLetter(base, fl) = <<>> THEN buf ELSE Put(buf, HashLetter(base, fl)[1]), "0")
      BY DEF Hash, HashLetter
    <3> QED
      BY <3>1, <3>2, <3>3
  <2> QED
    BY <1>2, <1>3, <2>1, <2>2
<1>5. CASE base = 16 /\ "UPPERCASE" \notin fl
  <2>1. HashText(base, fl) = <<"0", "x">>
    BY <1>5 DEF HashText
  <2>2. Hash(buf, base, fl) = Put(Put(buf, "x"), "0")
    <3>1. HashLetter(base, fl) = <<"x">>
      BY <1>5 DEF HashLetter
    <3>2. <<"x">> # <<>> /\ <<"x">>[1] = "x"
      OBVIOUS
    <3>3. Hash(buf, base, fl) = Put(IF HashLetter(base, fl) = <<>> THEN buf ELSE Put(buf, HashLetter(base, fl)[1]), "0")
      BY DEF Hash, HashLetter
    <3> QED
      BY <3>1, <3>2, <3>3
  <2> QED
    BY <1>2, <1>3, <2>1, <2>2
<1>6. CASE base = 2
  <2>1. HashText(base, fl) = <<"0", "b">>
    BY <1>6 DEF HashText
  <2>2. Hash(buf, base, fl) = Put(Put(buf, "b"), "0")
    <3>1. HashLetter(base, fl) = <<"b">>
      BY <1>6 DEF HashLetter
    <3>2. <<"b">> # <<>> /\ <<"b">>[1] = "b"
      OBVIOUS
    <3>3. Hash(buf, base, fl) = Put(IF HashLetter(base, fl) = <<>> THEN buf ELSE Put(buf, HashLetter(base, fl)[1]), "0")
      BY DEF Hash, HashLetter
    <3> QED
      BY <3>1, <3>2, <3>3
  <2> QED
    BY <1>2, <1>3, <2>1, <2>2
<1>7. CASE base \notin {2, 16}
  <2>1. Hash(buf, base, fl) = Put(buf, "0") /\ HashText(base, fl) = <<"0">>
    BY <1>7 DEF Hash, HashText
  <2>2. Len(<<"0">>) = 1 /\ <<"0">> \in Seq(Symbol)
    BY ShortTexts
  <2>3. Len(t) < NTOA_BUFFER_SIZE
    BY <1>1, <2>1, <2>2
  <2>4. Backwards(Put(buf, "0"), <<"0">> \o t) /\ Len(<<"0">> \o t) = Len(t) + 1
    BY <1>2, <2>3, PutIs
  <2> QED
    BY <1>1, <2>1, <2>2, <2>4
<1> QED
  BY <1>4, <1>5, <1>6, <1>7

LEMMA OutIs ==
  ASSUME NEW buf, NEW t, Backwards(buf, t), NEW w, NEW fl
  PROVE  _out_rev(buf, w, fl) = Ended(t, w, fl)
BY DEF _out_rev, Ended, Backwards

\* The zeros in front of the digits, then what # takes of them again.
Zeros(digits, prec, w, fl) ==
  IF LEFT \in fl THEN digits
  ELSE IF ZEROPAD \in fl THEN PadTo(PadTo(digits, prec), w)
  ELSE PadTo(digits, prec)

LEMMA FormatIs ==
  ASSUME NEW digits, NEW negative \in BOOLEAN, NEW base \in Bases, NEW prec, NEW wd, NEW fl, NEW w, NEW buf, NEW u,
         w = RoomForSign(wd, negative, fl),
         buf = IF HASH \in fl THEN HashRoom(Zeros(digits, prec, w, fl), base, prec, w, fl)
               ELSE Zeros(digits, prec, w, fl),
         Backwards(buf, u),
         Len(SignText(negative, fl)) + Len(HashText(base, fl)) + Len(u) <= NTOA_BUFFER_SIZE
  PROVE  /\ _ntoa_format(digits, negative, base, prec, wd, fl)
              = Ended(SignText(negative, fl) \o (HashText(base, fl) \o u), w, fl)
         /\ SignText(negative, fl) \in Seq(Symbol) /\ HashText(base, fl) \in Seq(Symbol)
<1> DEFINE sign == SignText(negative, fl)
           pre == HashText(base, fl)
           hashed == IF HASH \notin fl THEN buf ELSE Hash(buf, base, fl)
           v == pre \o u
<1>1. u \in Seq(Symbol) /\ Len(u) \in Nat /\ NTOA_BUFFER_SIZE \in Nat
  BY PrintfAssumption DEF Backwards
<1>2. Len(sign) \in Nat /\ Len(pre) \in Nat /\ pre \in Seq(Symbol)
  <2>1. Len(<<"-">>) = 1 /\ Len(<<"+">>) = 1 /\ Len(<<" ">>) = 1 /\ Len(<<>>) = 0
    OBVIOUS
  <2>2. pre \in Seq(Symbol)
    BY ShortTexts DEF HashText
  <2>3. Len(sign) \in Nat
    BY <2>1 DEF SignText
  <2> HIDE DEF pre, sign
  <2> QED
    BY <2>2, <2>3, LenProperties
<1>3. Backwards(hashed, v) /\ Len(v) = Len(pre) + Len(u)
  <2>1. Len(pre) + Len(u) <= NTOA_BUFFER_SIZE
    <3> HIDE DEF pre, sign
    <3>1. Len(sign) + Len(pre) + Len(u) <= NTOA_BUFFER_SIZE
      BY DEF sign, pre
    <3> QED
      BY <1>1, <1>2, <3>1
  <2>2. CASE HASH \in fl
    <3>1. hashed = Hash(buf, base, fl)
      BY <2>2
    <3> HIDE DEF hashed
    <3>2. Backwards(Hash(buf, base, fl), v) /\ Len(v) = Len(pre) + Len(u)
      BY <2>1, <2>2, HashIs
    <3> QED
      BY <3>1, <3>2
  <2>3. CASE HASH \notin fl
    <3>1. hashed = buf /\ pre = <<>>
      BY <2>3 DEF HashText
    <3>2. Len(<<>>) = 0 /\ <<>> \o u = u
      BY <1>1, NothingInFront
    <3> HIDE DEF hashed, pre
    <3> QED
      BY <1>1, <3>1, <3>2
  <2> QED
    BY <2>2, <2>3
<1> HIDE DEF v
<1>4. Len(sign) + Len(v) <= NTOA_BUFFER_SIZE
  <2> HIDE DEF pre, sign
  <2>1. Len(sign) + Len(pre) + Len(u) <= NTOA_BUFFER_SIZE
    BY DEF sign, pre
  <2> QED
    BY <1>1, <1>2, <1>3, <2>1
<1>5. Backwards(Sign(hashed, negative, fl), sign \o v) /\ sign \in Seq(Symbol)
  <2> HIDE DEF hashed
  <2> QED
    BY <1>3, <1>4, SignIs
<1>6. _ntoa_format(digits, negative, base, prec, wd, fl) = _out_rev(Sign(hashed, negative, fl), w, fl)
  BY DEF _ntoa_format, Zeros
<1>7. _out_rev(Sign(hashed, negative, fl), w, fl) = Ended(sign \o v, w, fl)
  <2> HIDE DEF hashed, sign
  <2> QED
    BY <1>5, OutIs
<1> QED
  BY <1>2, <1>5, <1>6, <1>7 DEF v

LEMMA Unwidened ==
  ASSUME NEW buf, NEW t, Backwards(buf, t)
  PROVE  Backwards(PadTo(buf, 0), t)
<1>1. t \in Seq(Symbol) /\ Len(t) \in Nat /\ NTOA_BUFFER_SIZE \in Nat
  BY PrintfAssumption DEF Backwards
<1>2. Backwards(PadTo(buf, 0), Copies("0", 0 - Len(t)) \o t)
  <2>1. 0 \in Nat /\ 0 <= NTOA_BUFFER_SIZE
    BY <1>1
  <2> QED
    BY <2>1, PadIs
<1>3. ~(0 - Len(t) > 0)
  BY <1>1
<1>4. Copies("0", 0 - Len(t)) = <<>>
  BY <1>3 DEF Copies
<1> QED
  BY <1>1, <1>2, <1>4, NothingInFront

LEMMA TextsAre ==
  ASSUME NEW negative \in BOOLEAN, NEW base \in Bases, NEW fl
  PROVE  /\ SignText(negative, fl) \in Seq(Symbol) /\ HashText(base, fl) \in Seq(Symbol)
         /\ Len(SignText(negative, fl)) = (IF negative \/ PLUS \in fl \/ SPACE \in fl THEN 1 ELSE 0)
         /\ Len(HashText(base, fl)) = (IF HASH \notin fl THEN 0 ELSE IF base \in {2, 16} THEN 2 ELSE 1)
<1>1. /\ Len(<<"-">>) = 1 /\ Len(<<"+">>) = 1 /\ Len(<<" ">>) = 1 /\ Len(<<>>) = 0
      /\ Len(<<"0">>) = 1 /\ Len(<<"0", "x">>) = 2 /\ Len(<<"0", "X">>) = 2 /\ Len(<<"0", "b">>) = 2
  OBVIOUS
<1>2. SignText(negative, fl) \in Seq(Symbol) /\ HashText(base, fl) \in Seq(Symbol)
  BY ShortTexts DEF SignText, HashText
<1>3. Len(SignText(negative, fl)) = (IF negative \/ PLUS \in fl \/ SPACE \in fl THEN 1 ELSE 0)
  BY <1>1 DEF SignText
<1>4. Len(HashText(base, fl)) = (IF HASH \notin fl THEN 0 ELSE IF base \in {2, 16} THEN 2 ELSE 1)
  BY <1>1 DEF HashText
<1> QED
  BY <1>2, <1>3, <1>4

\* On the left.
LEMMA LeftNumber ==
  ASSUME NEW digits, NEW s, Backwards(digits, s), NEW negative \in BOOLEAN, NEW base \in Bases,
         NEW prec, NEW wd, NEW fl, LEFT \in fl,
         HASH \in fl /\ "PRECISION" \notin fl => Len(s) \notin {prec, wd},
         Len(SignText(negative, fl)) + Len(HashText(base, fl)) + Len(s) <= NTOA_BUFFER_SIZE
  PROVE  _ntoa_format(digits, negative, base, prec, wd, fl)
           = Ended(SignText(negative, fl) \o (HashText(base, fl) \o s), wd, fl)
<1>1. wd = RoomForSign(wd, negative, fl)
  BY DEF RoomForSign
<1>2. Zeros(digits, prec, wd, fl) = digits
  BY DEF Zeros
<1>3. HASH \in fl => HashRoom(digits, base, prec, wd, fl) = digits
  <2>1. Len(digits) = Len(s)
    BY DEF Backwards
  <2> QED
    BY <2>1 DEF HashRoom
<1>4. digits = IF HASH \in fl THEN HashRoom(Zeros(digits, prec, wd, fl), base, prec, wd, fl)
               ELSE Zeros(digits, prec, wd, fl)
  BY <1>2, <1>3
<1> QED
  BY <1>1, <1>4, FormatIs

\* On the right, with blanks.
LEMMA SpacedNumber ==
  ASSUME NEW digits, NEW s, Backwards(digits, s), NEW negative \in BOOLEAN, NEW base \in Bases,
         NEW prec \in Nat, NEW wd, NEW fl, LEFT \notin fl, ZEROPAD \notin fl, prec <= NTOA_BUFFER_SIZE,
         HASH \in fl /\ "PRECISION" \notin fl => prec = 0 /\ Len(s) \notin {0, wd},
         Len(SignText(negative, fl)) + Len(HashText(base, fl)) + Len(Copies("0", prec - Len(s)) \o s)
           <= NTOA_BUFFER_SIZE
  PROVE  _ntoa_format(digits, negative, base, prec, wd, fl)
           = Ended(SignText(negative, fl) \o (HashText(base, fl) \o (Copies("0", prec - Len(s)) \o s)), wd, fl)
<1> DEFINE u == Copies("0", prec - Len(s)) \o s
           buf == PadTo(digits, prec)
<1>1. wd = RoomForSign(wd, negative, fl)
  BY DEF RoomForSign
<1>2. Zeros(digits, prec, wd, fl) = buf
  BY DEF Zeros
<1>3. Backwards(buf, u)
  BY PadIs
<1>4. ASSUME HASH \in fl PROVE HashRoom(buf, base, prec, wd, fl) = buf
  <2>1. CASE "PRECISION" \in fl
    BY <2>1 DEF HashRoom
  <2>2. CASE "PRECISION" \notin fl
    <3>1. prec = 0 /\ Len(s) \notin {0, wd}
      BY <1>4, <2>2
    <3>2. Backwards(buf, s)
      BY <3>1, Unwidened
    <3>3. Len(buf) = Len(s)
      BY <3>2 DEF Backwards
    <3> HIDE DEF buf
    <3> QED
      BY <3>1, <3>3 DEF HashRoom
  <2> QED
    BY <2>1, <2>2
<1>5. buf = IF HASH \in fl THEN HashRoom(Zeros(digits, prec, wd, fl), base, prec, wd, fl)
            ELSE Zeros(digits, prec, wd, fl)
  BY <1>2, <1>4
<1>6. Len(SignText(negative, fl)) + Len(HashText(base, fl)) + Len(u) <= NTOA_BUFFER_SIZE
  OBVIOUS
<1> HIDE DEF buf, u
<1>7. _ntoa_format(digits, negative, base, prec, wd, fl)
        = Ended(SignText(negative, fl) \o (HashText(base, fl) \o u), wd, fl)
  BY <1>1, <1>3, <1>5, <1>6, FormatIs
<1> QED
  BY <1>7 DEF u

\* On the right, with zeros.
LEMMA ZeroNumber ==
  ASSUME NEW digits, NEW s, Backwards(digits, s), NEW negative \in BOOLEAN, NEW base \in Bases,
         NEW wd \in Nat, NEW fl, LEFT \notin fl, ZEROPAD \in fl, HASH \notin fl, wd <= NTOA_BUFFER_SIZE,
         Len(SignText(negative, fl)) + Len(s) <= NTOA_BUFFER_SIZE
  PROVE  _ntoa_format(digits, negative, base, 0, wd, fl)
           = SignText(negative, fl) \o (Copies("0", wd - Len(SignText(negative, fl)) - Len(s)) \o s)
<1> DEFINE w == RoomForSign(wd, negative, fl)
           sign == SignText(negative, fl)
           u == Copies("0", w - Len(s)) \o s
           buf == PadTo(PadTo(digits, 0), w)
<1>1. s \in Seq(Symbol) /\ Len(s) \in Nat /\ NTOA_BUFFER_SIZE \in Nat
  BY PrintfAssumption DEF Backwards
<1>2. /\ sign \in Seq(Symbol) /\ Len(sign) = (IF negative \/ PLUS \in fl \/ SPACE \in fl THEN 1 ELSE 0)
      /\ HashText(base, fl) = <<>>
  BY TextsAre DEF HashText
<1>3. w = (IF wd > 0 /\ Len(sign) = 1 THEN wd - 1 ELSE wd) /\ w \in Nat /\ w <= NTOA_BUFFER_SIZE
  <2>1. w = (IF wd > 0 /\ (negative \/ PLUS \in fl \/ SPACE \in fl) THEN wd - 1 ELSE wd)
    BY DEF RoomForSign
  <2> HIDE DEF sign
  <2>2. w = (IF wd > 0 /\ Len(sign) = 1 THEN wd - 1 ELSE wd)
    BY <1>2, <2>1
  <2> QED
    BY <1>1, <2>2
<1>4. /\ Backwards(buf, u) /\ Len(u) = IF w > Len(s) THEN w ELSE Len(s)
  <2> HIDE DEF w
  <2> QED
    BY <1>3, Unwidened, PadIs
<1>5. buf = IF HASH \in fl THEN HashRoom(Zeros(digits, 0, w, fl), base, 0, w, fl) ELSE Zeros(digits, 0, w, fl)
  BY DEF Zeros
<1>6. Len(sign) + Len(HashText(base, fl)) + Len(u) <= NTOA_BUFFER_SIZE
  <2>1. Len(HashText(base, fl)) = 0 /\ Len(sign) + Len(s) <= NTOA_BUFFER_SIZE
    BY <1>2
  <2> HIDE DEF w, u, sign
  <2> DEFINE x == Len(sign)
             y == Len(u)
             z == Len(s)
  <2>2. x \in {0, 1} /\ x + z <= NTOA_BUFFER_SIZE /\ z \in Nat
    BY <1>1, <1>2, <2>1
  <2>3. y = (IF w > z THEN w ELSE z) /\ w = (IF wd > 0 /\ x = 1 THEN wd - 1 ELSE wd) /\ w \in Nat
    BY <1>3, <1>4
  <2> HIDE DEF x, y, z
  <2>4. x + 0 + y <= NTOA_BUFFER_SIZE
    BY <1>1, <2>2, <2>3
  <2> QED
    BY <2>1, <2>4 DEF x, y
<1>7. _ntoa_format(digits, negative, base, 0, wd, fl) = Ended(sign \o (HashText(base, fl) \o u), w, fl)
  <2> HIDE DEF u, buf
  <2>1. w = RoomForSign(wd, negative, fl)
    OBVIOUS
  <2> HIDE DEF w
  <2> QED
    BY <1>4, <1>5, <1>6, <2>1, FormatIs DEF sign
<1>8. _ntoa_format(digits, negative, base, 0, wd, fl) = sign \o u
  <2>1. <<>> \o u = u
    BY <1>4, NothingInFront DEF Backwards
  <2> HIDE DEF u, sign
  <2> QED
    BY <1>2, <1>7, <2>1 DEF Ended
<1>9. Copies("0", w - Len(s)) = Copies("0", wd - Len(sign) - Len(s))
  <2> HIDE DEF w, sign
  <2>1. CASE w = wd - Len(sign)
    <3>1. w - Len(s) = wd - Len(sign) - Len(s)
      BY <2>1
    <3> QED
      BY <3>1
  <2>2. CASE w # wd - Len(sign)
    <3>1. ~(w - Len(s) > 0) /\ ~(wd - Len(sign) - Len(s) > 0)
      BY <1>1, <1>2, <1>3, <2>2
    <3> QED
      BY <3>1 DEF Copies
  <2> QED
    BY <2>1, <2>2
<1> QED
  BY <1>8, <1>9

Prefixed(digits, s, base, wd, fl, pre, z) ==
  /\ Backwards(digits, s) /\ base \in Bases /\ wd \in Nat
  /\ LEFT \notin fl /\ ZEROPAD \in fl /\ HASH \in fl /\ "PRECISION" \notin fl /\ PLUS \notin fl /\ SPACE \notin fl
  /\ wd <= NTOA_BUFFER_SIZE /\ Len(s) >= 1
  /\ pre = HashText(base, fl)
  /\ wd < Len(s) \/ IF base = 2 THEN wd = Len(s) + 1 ELSE wd >= Len(s) + Len(pre)
  /\ Len(pre) + Len(s) <= NTOA_BUFFER_SIZE
  /\ z = Copies("0", wd - Len(pre) - Len(s))

LEMMA HashedNumber ==
  ASSUME NEW digits, NEW s, NEW base, NEW wd, NEW fl, NEW pre, NEW z, Prefixed(digits, s, base, wd, fl, pre, z),
         NEW no \in BOOLEAN, ~no
  PROVE  _ntoa_format(digits, no, base, 0, wd, fl) = pre \o (z \o s)
<1> USE DEF Prefixed
<1> DEFINE pad == PadTo(digits, 0)
           zeros == PadTo(pad, wd)
           M == Len(s)
           k == Len(pre)
           u == Copies("0", wd - k - M) \o s
           buf == HashRoom(zeros, base, 0, wd, fl)
<1>1. s \in Seq(Symbol) /\ M \in Nat /\ M >= 1 /\ NTOA_BUFFER_SIZE \in Nat /\ Len(digits) = M
  BY PrintfAssumption DEF Backwards
<1>2. pre \in Seq(Symbol) /\ k = (IF base \in {2, 16} THEN 2 ELSE 1)
  BY TextsAre
<1>3. wd = RoomForSign(wd, no, fl) /\ SignText(no, fl) = <<>>
  BY DEF RoomForSign, SignText
<1>4. buf = IF HASH \in fl THEN HashRoom(Zeros(digits, 0, wd, fl), base, 0, wd, fl) ELSE Zeros(digits, 0, wd, fl)
  BY DEF Zeros
<1>5. Backwards(pad, s)
  BY Unwidened
<1>6. wd < M \/ IF base = 2 THEN wd = M + 1 ELSE wd >= M + k
  OBVIOUS
<1>7. k + M <= NTOA_BUFFER_SIZE
  OBVIOUS
<1>8. Backwards(buf, u) /\ k + Len(u) <= NTOA_BUFFER_SIZE
  <2> HIDE DEF k, M
  <2>1. CASE wd < M
    <3>1. ~(wd - M > 0) /\ ~(wd - k - M > 0)
      BY <1>1, <1>2, <2>1
    <3>2. Copies("0", wd - M) = <<>> /\ Copies("0", wd - k - M) = <<>>
      BY <3>1 DEF Copies
    <3>3. u = s /\ Copies("0", wd - M) \o s = s
      BY <1>1, <3>2, NothingInFront
    <3>4. Backwards(zeros, s)
      <4>1. Backwards(zeros, Copies("0", wd - Len(s)) \o s)
        <5> HIDE DEF pad
        <5> QED
          BY <1>5, PadIs
      <4> HIDE DEF zeros
      <4> QED
        BY <3>3, <4>1 DEF M
    <3>5. Len(zeros) = M
      <4> HIDE DEF zeros
      <4> QED
        BY <3>4 DEF Backwards, M
    <3>6. buf = zeros
      <4> HIDE DEF zeros
      <4>1. Len(zeros) \notin {0, wd}
        BY <1>1, <2>1, <3>5
      <4> QED
        BY <4>1 DEF HashRoom
    <3> HIDE DEF buf, zeros, u
    <3> QED
      BY <1>7, <3>3, <3>4, <3>6 DEF M
  <2>2. CASE ~(wd < M)
    <3> DEFINE j == IF base = 16 THEN 2 ELSE 1
               v == Copies("0", (wd - j) - M) \o s
    <3>1. j \in Nat /\ wd - j >= M /\ wd > 0 /\ (base = 16 => wd > 1)
      BY <1>1, <1>2, <1>6, <2>2
    <3>2. /\ wd - j \in Nat /\ wd - j <= NTOA_BUFFER_SIZE /\ Len(zeros) = wd
          /\ SubSeq(zeros, 1, wd - j) = PadTo(pad, wd - j)
      <4>1. wd - j >= Len(s)
        BY <3>1 DEF M
      <4> HIDE DEF pad, j
      <4> QED
        BY <1>5, <3>1, <4>1, Unpad
    <3>3. buf = SubSeq(zeros, 1, wd - j)
      <4>1. Len(zeros) \in {0, wd} /\ zeros # <<>>
        <5>1. Len(<<>>) = 0
          OBVIOUS
        <5> HIDE DEF zeros
        <5> QED
          BY <3>1, <3>2, <5>1
      <4> DEFINE i == IF base = 16 /\ Len(zeros) > 1 THEN 2 ELSE 1
      <4>2. i = j
        <5> HIDE DEF zeros
        <5> QED
          BY <3>1, <3>2
      <4>3. buf = SubSeq(zeros, 1, Len(zeros) - i)
        <5> HIDE DEF zeros
        <5> QED
          BY <4>1 DEF HashRoom
      <4> HIDE DEF i, j, zeros, buf
      <4> QED
        BY <3>2, <4>2, <4>3
    <3>4. Backwards(PadTo(pad, wd - j), v) /\ Len(v) = wd - j
      <4> DEFINE n == wd - j
      <4>1. n \in Nat /\ n <= NTOA_BUFFER_SIZE
        BY <3>2
      <4> HIDE DEF n, pad
      <4>2. /\ Backwards(PadTo(pad, n), Copies("0", n - Len(s)) \o s)
            /\ Len(Copies("0", n - Len(s)) \o s) = IF n > Len(s) THEN n ELSE Len(s)
        BY <1>5, <4>1, PadIs
      <4>3. n >= M
        BY <3>1 DEF n
      <4>4. (IF n > Len(s) THEN n ELSE Len(s)) = n
        BY <1>1, <4>1, <4>3 DEF M
      <4> QED
        BY <4>2, <4>4 DEF n, M
    <3>5. Copies("0", (wd - j) - M) = Copies("0", wd - k - M)
      <4>1. CASE base = 2
        <5>1. ~((wd - j) - M > 0) /\ ~(wd - k - M > 0)
          BY <1>1, <1>2, <1>6, <2>2, <4>1
        <5> QED
          BY <5>1 DEF Copies
      <4>2. CASE base # 2
        <5>1. j = k
          BY <1>2, <4>2
        <5> QED
          BY <5>1
      <4> QED
        BY <4>1, <4>2
    <3>6. u = v
      BY <3>5
    <3>7. k + (wd - j) <= NTOA_BUFFER_SIZE
      BY <1>1, <1>2, <1>6, <1>7, <2>2
    <3> HIDE DEF buf, zeros, u, v, j, pad
    <3> QED
      BY <3>2, <3>3, <3>4, <3>6, <3>7
  <2> QED
    BY <2>1, <2>2
<1>9. _ntoa_format(digits, no, base, 0, wd, fl) = Ended(<<>> \o (pre \o u), wd, fl)
  <2> HIDE DEF u, buf
  <2>1. Len(SignText(no, fl)) + Len(HashText(base, fl)) + Len(u) <= NTOA_BUFFER_SIZE
    <3>1. Len(SignText(no, fl)) = 0
      <4>1. Len(<<>>) = 0
        OBVIOUS
      <4> QED
        BY <1>3, <4>1
    <3>2. k + Len(u) <= NTOA_BUFFER_SIZE
      BY <1>8
    <3> DEFINE y == Len(u)
    <3>3. y \in Nat /\ k \in Nat
      BY <1>2, <1>8 DEF Backwards
    <3> HIDE DEF y, k
    <3>4. 0 + k + y <= NTOA_BUFFER_SIZE
      BY <3>2, <3>3 DEF y
    <3> QED
      BY <3>1, <3>4 DEF y, k
  <2>2. wd = RoomForSign(wd, no, fl)
    BY <1>3
  <2>3. Backwards(buf, u)
    BY <1>8
  <2>4. _ntoa_format(digits, no, base, 0, wd, fl)
          = Ended(SignText(no, fl) \o (HashText(base, fl) \o u), wd, fl)
    BY <1>4, <2>1, <2>2, <2>3, FormatIs
  <2> QED
    BY <1>3, <2>4
<1>10. <<>> \o (pre \o u) = pre \o u
  <2> HIDE DEF u
  <2>1. u \in Seq(Symbol)
    BY <1>8 DEF Backwards
  <2>2. pre \o u \in Seq(Symbol)
    BY <1>2, <2>1, ConcatProperties
  <2> QED
    BY <2>2, NothingInFront
<1> HIDE DEF u
<1>11. Ended(pre \o u, wd, fl) = pre \o u
  BY DEF Ended
<1> QED
  BY <1>9, <1>10, <1>11 DEF u, k, M

LEMMA WholeOf ==
  ASSUME NEW S, NEW s \in Seq(S)
  PROVE  SubSeq(s, 1, Len(s)) = s
<1> DEFINE n == Len(s)
           t == SubSeq(s, 1, n)
<1>1. n \in Nat /\ \A i \in 1 .. n : s[i] \in S
  BY LenProperties, ElementOfSeq
<1>2. 1 \in Int /\ n \in Int
  BY <1>1
<1> HIDE DEF n
<1>3. /\ t \in Seq(S) /\ Len(t) = (IF 1 <= n THEN n - 1 + 1 ELSE 0)
      /\ \A i \in 1 .. n - 1 + 1 : t[i] = s[1 + i - 1]
  BY <1>1, <1>2, SubSeqProperties
<1> HIDE DEF t
<1>4. Len(t) = n
  BY <1>1, <1>3
<1>5. \A i \in 1 .. Len(t) : t[i] = s[i]
  <2> SUFFICES ASSUME NEW i \in 1 .. Len(t) PROVE t[i] = s[i]
    OBVIOUS
  <2>1. i \in 1 .. n - 1 + 1 /\ 1 + i - 1 = i
    BY <1>1, <1>4
  <2> QED
    BY <1>3, <2>1
<1> QED
  BY <1>3, <1>4, <1>5, SeqEqual DEF t, n

LEMMA DigitsAre ==
  ASSUME NEW base \in Bases, NEW others, NEW v \in 0 .. ULLONG_MAX, NEW fl,
         \/ others = Uppercase /\ "UPPERCASE" \in fl
         \/ others = Lowercase /\ "UPPERCASE" \notin fl
         \/ others = Decimal /\ base <= 10,
         Len(Numeral(base, others)[v]) <= NTOA_BUFFER_SIZE
  PROVE  Backwards(DigitsOf(v, base, fl), Numeral(base, others)[v]) /\ Len(Numeral(base, others)[v]) >= 1
<1> DEFINE letters == IF "UPPERCASE" \in fl THEN Uppercase ELSE Lowercase
           digits == Divisions(base, letters)[v]
           t == Numeral(base, others)[v]
<1>1. \A k \in 1 .. base : letters[k] \in Symbol /\ others[k] = letters[k]
  <2>1. \A k \in 1 .. base : k \in 1 .. 16 /\ (base <= 10 => k \in 1 .. 10)
    BY DEF Bases
  <2>2. \A k \in 1 .. base : letters[k] \in Symbol
    BY <2>1, CaseLetters
  <2>3. CASE others = letters
    BY <2>2, <2>3
  <2>4. CASE others = Decimal /\ base <= 10
    BY <2>1, <2>2, <2>4, CaseLetters
  <2> QED
    BY <2>3, <2>4
<1>2. Mirrors(Symbol, digits, t)
  <2> HIDE DEF letters
  <2> QED
    BY <1>1, DivisionsMirror
<1>3. DigitsOf(v, base, fl) = SubSeq(digits, 1, Smaller(Len(digits), NTOA_BUFFER_SIZE))
  BY DEF DigitsOf
<1>4. Len(t) <= NTOA_BUFFER_SIZE
  OBVIOUS
<1> HIDE DEF digits, t
<1>5. /\ digits \in Seq(Symbol) /\ t \in Seq(Symbol) /\ Len(digits) = Len(t) /\ Len(t) >= 1 /\ Reverse(digits) = t
      /\ Len(t) \in Nat
  BY <1>2, LenProperties DEF Mirrors
<1>6. Smaller(Len(digits), NTOA_BUFFER_SIZE) = Len(digits)
  <2>1. NTOA_BUFFER_SIZE \in Nat
    BY PrintfAssumption
  <2> QED
    BY <1>4, <1>5, <2>1 DEF Smaller
<1>7. DigitsOf(v, base, fl) = digits
  BY <1>3, <1>5, <1>6, WholeOf
<1> QED
  BY <1>5, <1>7 DEF Backwards, t

-----------------------------------------------------------------------------
(* printf: what has been read of a directive at its specifier               *)

FlagSet(piece) == {piece.flags[k] : k \in DOMAIN piece.flags}
WidthFlags(piece) == FlagSet(piece) \cup (IF piece.width.n < 0 THEN {LEFT} ELSE {})
PointFlags(piece) == WidthFlags(piece) \cup (IF Precise(piece) THEN {"PRECISION"} ELSE {})
LengthOf(piece) ==
  IF piece.length = "hh" THEN {"SHORT", "CHAR"}
  ELSE IF piece.length = "h" THEN {"SHORT"}
  ELSE IF piece.length \in {"l", "z"} THEN {"LONG"}
  ELSE IF piece.length = "ll" THEN {"LONG", "LONG_LONG"}
  ELSE IF piece.length = "j" THEN IF ULONG_MAX[call.program] = ULLONG_MAX THEN {"LONG"} ELSE {"LONG_LONG"}
  ELSE {}
Read(piece) ==
  /\ flags = PointFlags(piece) \cup LengthOf(piece)
  /\ width = WidthOf(piece) /\ precision = piece.precision.n

LEMMA FieldsAre ==
  ASSUME NEW piece, WellFormed(piece)
  PROVE  /\ WidthOf(piece) \in Nat /\ piece.width.n \in Int /\ piece.precision.n \in Nat
         /\ FlagSet(piece) \subseteq FlagChars
         /\ \A c \in FlagChars : c \in FlagSet(piece) <=> Has(piece, c)
         /\ ~Precise(piece) => piece.precision.n = 0
<1>1. UINT_MAX \in Nat /\ UINT_MAX \div 2 \in Nat
  BY PrintfAssumption
<1>2. piece.width.n \in Int /\ piece.precision.n \in Nat
  BY <1>1 DEF WellFormed
<1>3. WidthOf(piece) \in Nat
  BY <1>2 DEF WidthOf
<1>4. DOMAIN piece.flags = 1 .. Len(piece.flags) /\ \A k \in 1 .. Len(piece.flags) : piece.flags[k] \in FlagChars
  BY LenProperties, ElementOfSeq DEF WellFormed
<1>5. FlagSet(piece) \subseteq FlagChars
  BY <1>4 DEF FlagSet
<1>6. \A c : c \in FlagSet(piece) <=> Has(piece, c)
  BY DEF FlagSet, Has
<1>7. ~Precise(piece) => piece.precision.n = 0
  BY DEF WellFormed, Precise
<1> QED
  BY <1>2, <1>3, <1>5, <1>6, <1>7

FlagsApart(fl, piece) ==
  /\ (LEFT \in fl) <=> OnLeft(piece)
  /\ ("PRECISION" \in fl) <=> Precise(piece)
  /\ ("UPPERCASE" \in fl) <=> (piece.spec = "X")
  /\ (ZEROPAD \in fl) <=> (Has(piece, "0") /\ ~Precise(piece))
  /\ (HASH \in fl) <=> (Has(piece, "#") /\ piece.spec \notin {"d", "i", "u"})
  /\ (PLUS \in fl) <=> (Has(piece, "+") /\ IsSigned(piece))
  /\ (SPACE \in fl) <=> (Has(piece, " ") /\ IsSigned(piece))

LEMMA IntegerFlagsAre ==
  ASSUME NEW piece, WellFormed(piece), Read(piece), piece.spec \in Integers_
  PROVE  FlagsApart(IntegerFlags(piece.spec), piece)
<1>1. flags = PointFlags(piece) \cup LengthOf(piece)
  BY DEF Read
<1>2. LengthOf(piece) \subseteq {"SHORT", "CHAR", "LONG", "LONG_LONG"}
  BY DEF LengthOf
<1>3. /\ "0" \in FlagSet(piece) <=> Has(piece, "0")
      /\ "-" \in FlagSet(piece) <=> Has(piece, "-")
      /\ "+" \in FlagSet(piece) <=> Has(piece, "+")
      /\ " " \in FlagSet(piece) <=> Has(piece, " ")
      /\ "#" \in FlagSet(piece) <=> Has(piece, "#")
      /\ "PRECISION" \notin FlagSet(piece) /\ "UPPERCASE" \notin FlagSet(piece)
  <2>1. /\ FlagSet(piece) \subseteq FlagChars
        /\ \A c \in FlagChars : c \in FlagSet(piece) <=> Has(piece, c)
    BY FieldsAre
  <2>2. FlagChars = {"0", "-", "+", " ", "#"}
    BY DEF FlagChars, ZEROPAD, LEFT, PLUS, SPACE, HASH
  <2> QED
    BY <2>1, <2>2
<1>4. /\ "0" \in flags <=> Has(piece, "0")
      /\ "-" \in flags <=> OnLeft(piece)
      /\ "+" \in flags <=> Has(piece, "+")
      /\ " " \in flags <=> Has(piece, " ")
      /\ "#" \in flags <=> Has(piece, "#")
      /\ "PRECISION" \in flags <=> Precise(piece)
      /\ "UPPERCASE" \notin flags
  <2> DEFINE L == LengthOf(piece)
             F == FlagSet(piece)
  <2> HIDE DEF L, F
  <2>1. flags = ((F \cup (IF piece.width.n < 0 THEN {"-"} ELSE {})) \cup (IF Precise(piece) THEN {"PRECISION"} ELSE {})) \cup L
    BY <1>1 DEF PointFlags, WidthFlags, LEFT, L, F
  <2>2. L \subseteq {"SHORT", "CHAR", "LONG", "LONG_LONG"}
    BY <1>2 DEF L
  <2>3. "-" \in flags <=> "-" \in F \/ piece.width.n < 0
    BY <2>1, <2>2
  <2>4. \A c \in {"0", "+", " ", "#", "UPPERCASE"} : c \in flags <=> c \in F
    BY <2>1, <2>2
  <2>5. "PRECISION" \in flags <=> "PRECISION" \in F \/ Precise(piece)
    BY <2>1, <2>2
  <2> QED
    BY <1>3, <2>3, <2>4, <2>5 DEF F, OnLeft
<1> DEFINE c == piece.spec
           up == IF c = "X" THEN {"UPPERCASE"} ELSE {}
           hash == IF Base(c) = 10 THEN {"#"} ELSE {}
           signs == IF c \in {"d", "i"} THEN {} ELSE {"+", " "}
           zeros == IF "PRECISION" \in flags THEN {"0"} ELSE {}
           fl == (flags \cup up) \ (hash \cup signs \cup zeros)
<1>5. IntegerFlags(c) = fl
  BY DEF IntegerFlags, HASH, PLUS, SPACE, ZEROPAD
<1>6. Base(c) = 10 <=> c \in {"d", "i", "u"}
  BY DEF Base, Integers_
<1>7. /\ "-" \in fl <=> "-" \in flags
      /\ "PRECISION" \in fl <=> "PRECISION" \in flags
      /\ "UPPERCASE" \in fl <=> c = "X" \/ "UPPERCASE" \in flags
      /\ "0" \in fl <=> "0" \in flags /\ "PRECISION" \notin flags
      /\ "#" \in fl <=> "#" \in flags /\ c \notin {"d", "i", "u"}
      /\ "+" \in fl <=> "+" \in flags /\ c \in {"d", "i"}
      /\ " " \in fl <=> " " \in flags /\ c \in {"d", "i"}
  BY <1>6
<1> HIDE DEF fl
<1>8. FlagsApart(fl, piece)
  <2>1. /\ "-" \in fl <=> OnLeft(piece)
        /\ "PRECISION" \in fl <=> Precise(piece)
        /\ "UPPERCASE" \in fl <=> c = "X"
        /\ "0" \in fl <=> Has(piece, "0") /\ ~Precise(piece)
        /\ "#" \in fl <=> Has(piece, "#") /\ c \notin {"d", "i", "u"}
        /\ "+" \in fl <=> Has(piece, "+") /\ c \in {"d", "i"}
        /\ " " \in fl <=> Has(piece, " ") /\ c \in {"d", "i"}
    BY <1>4, <1>7
  <2> HIDE DEF c
  <2> QED
    BY <2>1 DEF FlagsApart, IsSigned, HASH, PLUS, SPACE, ZEROPAD, LEFT, c
<1> QED
  BY <1>5, <1>8

MaxOf(piece, program) ==
  IF piece.length \in {"l", "z"} THEN ULONG_MAX[program]
  ELSE IF piece.length \in {"ll", "j"} THEN ULLONG_MAX
  ELSE IF piece.length = "h" THEN USHRT_MAX
  ELSE IF piece.length = "hh" THEN UCHAR_MAX ELSE UINT_MAX

LEMMA ArgumentMaxIs ==
  ASSUME NEW piece, WellFormed(piece), Read(piece), piece.spec \in Integers_
  PROVE  ArgumentMax(IntegerFlags(piece.spec)) = MaxOf(piece, call.program)
<1> DEFINE fl == IntegerFlags(piece.spec)
           L == LengthOf(piece)
           W == {"LONG_LONG", "LONG", "CHAR", "SHORT"}
<1>1. \A c \in W : c \in fl <=> c \in L
  <2>1. FlagSet(piece) \subseteq {"0", "-", "+", " ", "#"}
    BY FieldsAre DEF FlagChars, ZEROPAD, LEFT, PLUS, SPACE, HASH
  <2>2. PointFlags(piece) \subseteq {"0", "-", "+", " ", "#", "PRECISION"}
    BY <2>1 DEF PointFlags, WidthFlags, LEFT
  <2>3. \A c \in W : c \in flags <=> c \in L
    <3> HIDE DEF L
    <3>1. flags = PointFlags(piece) \cup L
      BY DEF Read, L
    <3> QED
      BY <2>2, <3>1
  <2>4. \A c \in W : c \in fl <=> c \in flags
    BY DEF IntegerFlags, ZEROPAD, PLUS, SPACE, HASH
  <2> QED
    BY <2>3, <2>4
<1>2. ArgumentMax(fl) = IF "LONG_LONG" \in L THEN ULLONG_MAX
                        ELSE IF "LONG" \in L THEN ULONG_MAX[call.program]
                        ELSE IF "CHAR" \in L THEN UCHAR_MAX
                        ELSE IF "SHORT" \in L THEN USHRT_MAX ELSE UINT_MAX
  <2> HIDE DEF fl, L
  <2> QED
    BY <1>1 DEF ArgumentMax
<1>3. piece.length \in {"none", "hh", "h", "l", "ll", "j", "z"}
  BY DEF WellFormed
<1>4. CASE piece.length \in {"l", "z"}
  <2>1. L = {"LONG"}
    BY <1>4 DEF LengthOf
  <2> QED
    BY <1>2, <1>4, <2>1 DEF MaxOf
<1>5. CASE piece.length = "ll"
  <2>1. L = {"LONG", "LONG_LONG"}
    BY <1>5 DEF LengthOf
  <2> QED
    BY <1>2, <1>5, <2>1 DEF MaxOf
<1>6. CASE piece.length = "j"
  <2>1. L = IF ULONG_MAX[call.program] = ULLONG_MAX THEN {"LONG"} ELSE {"LONG_LONG"}
    BY <1>6 DEF LengthOf
  <2> QED
    BY <1>2, <1>6, <2>1 DEF MaxOf
<1>7. CASE piece.length = "h"
  <2>1. L = {"SHORT"}
    BY <1>7 DEF LengthOf
  <2> QED
    BY <1>2, <1>7, <2>1 DEF MaxOf
<1>8. CASE piece.length = "hh"
  <2>1. L = {"SHORT", "CHAR"}
    BY <1>8 DEF LengthOf
  <2> QED
    BY <1>2, <1>8, <2>1 DEF MaxOf
<1>9. CASE piece.length = "none"
  <2>1. L = {}
    BY <1>9 DEF LengthOf
  <2> QED
    BY <1>2, <1>9, <2>1 DEF MaxOf
<1> QED
  BY <1>3, <1>4, <1>5, <1>6, <1>7, <1>8, <1>9

LEMMA MaxesAre ==
  ASSUME NEW piece, NEW program \in {"kernel", "loader"}
  PROVE  MaxOf(piece, program) \in 0 .. ULLONG_MAX /\ ULONG_MAX[program] \in 0 .. ULLONG_MAX
<1>1. /\ UCHAR_MAX \in 0 .. ULLONG_MAX /\ USHRT_MAX \in 0 .. ULLONG_MAX /\ UINT_MAX \in 0 .. ULLONG_MAX
      /\ ULONG_MAX[program] \in 0 .. ULLONG_MAX /\ ULLONG_MAX \in 0 .. ULLONG_MAX
  BY PrintfAssumption
<1> QED
  BY <1>1 DEF MaxOf

LEMMA WrapIs ==
  ASSUME NEW v \in Nat, NEW max \in 0 .. ULLONG_MAX
  PROVE  /\ v % (max + 1) \in 0 .. max
         /\ Unsigned(v, max) = v % (max + 1)
         /\ Signed(v, max) = IF (v % (max + 1)) > max \div 2 THEN (v % (max + 1)) - (max + 1) ELSE v % (max + 1)
         /\ Signed(v, max) \in Int /\ -Signed(v, max) <= max /\ Signed(v, max) <= max
<1>1. ULLONG_MAX \in Nat
  BY PrintfAssumption
<1> DEFINE low == v % (max + 1)
           half == max \div 2
<1>2. low \in 0 .. max
  BY <1>1
<1>3. half \in Nat
  BY <1>1
<1>4. Unsigned(v, max) = low /\ Signed(v, max) = IF low <= half THEN low ELSE low - (max + 1)
  BY DEF Unsigned, Signed
<1> HIDE DEF low, half
<1>5. Signed(v, max) = IF low > half THEN low - (max + 1) ELSE low
  BY <1>1, <1>2, <1>3, <1>4
<1>6. Signed(v, max) \in Int /\ -Signed(v, max) <= max /\ Signed(v, max) <= max
  <2>1. CASE low > half
    <3>1. Signed(v, max) = low - (max + 1)
      BY <1>5, <2>1
    <3>2. low - (max + 1) \in Int /\ -(low - (max + 1)) <= max /\ low - (max + 1) <= max
      BY <1>1, <1>2, <1>3, <2>1
    <3> QED
      BY <3>1, <3>2
  <2>2. CASE ~(low > half)
    BY <1>1, <1>2, <1>5, <2>2
  <2> QED
    BY <2>1, <2>2
<1> QED
  BY <1>2, <1>4, <1>5, <1>6 DEF low, half

LEMMA NumberIs ==
  ASSUME NEW piece, NEW program \in {"kernel", "loader"}, piece.value \in Nat
  PROVE  /\ Number(piece, program)
              = LET max == IF piece.spec = "p" THEN ULONG_MAX[program] ELSE MaxOf(piece, program)
                IN IF IsSigned(piece) THEN Signed(piece.value, max) ELSE Unsigned(piece.value, max)
         /\ Number(piece, program) \in Int
         /\ ~IsSigned(piece) => Number(piece, program) >= 0
         /\ Magnitude(piece, program) \in 0 .. ULLONG_MAX
<1> DEFINE max == IF piece.spec = "p" THEN ULONG_MAX[program] ELSE MaxOf(piece, program)
           low == piece.value % (max + 1)
           N == Number(piece, program)
           other == CASE piece.spec = "p" \/ piece.length \in {"l", "z"} -> ULONG_MAX[program]
                      [] piece.spec # "p" /\ piece.length \in {"ll", "j"} -> ULLONG_MAX
                      [] piece.spec # "p" /\ piece.length = "h" -> USHRT_MAX
                      [] piece.spec # "p" /\ piece.length = "hh" -> UCHAR_MAX
                      [] OTHER -> UINT_MAX
<1>1. ULLONG_MAX \in Nat /\ max \in 0 .. ULLONG_MAX
  BY MaxesAre, PrintfAssumption
<1>2. other = max
  <2>1. CASE piece.spec = "p"
    BY <2>1
  <2>2. CASE piece.spec # "p"
    <3>1. CASE piece.length \in {"l", "z"}
      BY <2>2, <3>1 DEF MaxOf
    <3>2. CASE piece.length \in {"ll", "j"}
      BY <2>2, <3>2 DEF MaxOf
    <3>3. CASE piece.length = "h"
      BY <2>2, <3>3 DEF MaxOf
    <3>4. CASE piece.length = "hh"
      BY <2>2, <3>4 DEF MaxOf
    <3>5. CASE piece.length \notin {"l", "z", "ll", "j", "h", "hh"}
      BY <2>2, <3>5 DEF MaxOf
    <3> QED
      BY <3>1, <3>2, <3>3, <3>4, <3>5
  <2> QED
    BY <2>1, <2>2
<1>3. N = IF IsSigned(piece) /\ (piece.value % (other + 1)) > (other \div 2)
          THEN (piece.value % (other + 1)) - (other + 1) ELSE piece.value % (other + 1)
  BY DEF Number
<1> HIDE DEF other
<1>4. N = IF IsSigned(piece) /\ low > max \div 2 THEN low - (max + 1) ELSE low
  BY <1>2, <1>3
<1> HIDE DEF max
<1>5. /\ low \in 0 .. max /\ Unsigned(piece.value, max) = low
      /\ Signed(piece.value, max) = IF low > max \div 2 THEN low - (max + 1) ELSE low
      /\ Signed(piece.value, max) \in Int /\ -Signed(piece.value, max) <= max /\ Signed(piece.value, max) <= max
  BY <1>1, WrapIs
<1> HIDE DEF low
<1>6. N = IF IsSigned(piece) THEN Signed(piece.value, max) ELSE Unsigned(piece.value, max)
  BY <1>4, <1>5
<1> HIDE DEF N
<1>7. N \in Int /\ -N <= max /\ N <= max /\ (~IsSigned(piece) => N >= 0)
  <2>1. CASE IsSigned(piece)
    BY <1>5, <1>6, <2>1
  <2>2. CASE ~IsSigned(piece)
    BY <1>1, <1>5, <1>6, <2>2
  <2> QED
    BY <2>1, <2>2
<1>8. Magnitude(piece, program) = IF N < 0 THEN -N ELSE N
  BY DEF Magnitude, N
<1>9. Magnitude(piece, program) \in 0 .. ULLONG_MAX
  BY <1>1, <1>7, <1>8
<1> QED
  BY <1>6, <1>7, <1>9 DEF N, max

\* What the code makes of the number's argument.
LEMMA IntegerIs ==
  ASSUME NEW piece, WellFormed(piece), Read(piece), piece.spec \in Integers_, call.program \in {"kernel", "loader"}
  PROVE  Integer(piece.spec, piece.value)
           = _ntoa_long(Magnitude(piece, call.program), Number(piece, call.program) < 0, Base(piece.spec),
                        piece.precision.n, WidthOf(piece), IntegerFlags(piece.spec))
<1> DEFINE fl == IntegerFlags(piece.spec)
           max == MaxOf(piece, call.program)
           v == IF IsSigned(piece) THEN Signed(piece.value, max) ELSE Unsigned(piece.value, max)
<1>1. piece.value \in Nat /\ piece.spec # "p"
  BY DEF WellFormed, Integers_
<1>2. Number(piece, call.program) = v
  BY <1>1, NumberIs
<1>3. Magnitude(piece, call.program) = IF v < 0 THEN -v ELSE v
  <2> HIDE DEF v
  <2> QED
    BY <1>2 DEF Magnitude
<1>4. ArgumentMax(fl) = max
  BY ArgumentMaxIs
<1> DEFINE u == IF piece.spec \in {"d", "i"} THEN Signed(piece.value, ArgumentMax(fl)) ELSE Unsigned(piece.value, ArgumentMax(fl))
<1>5. u = v
  BY <1>4 DEF IsSigned
<1>6. Integer(piece.spec, piece.value)
        = _ntoa_long(IF u < 0 THEN -u ELSE u, u < 0, Base(piece.spec), precision, width, fl)
  BY DEF Integer
<1>7. precision = piece.precision.n /\ width = WidthOf(piece)
  BY DEF Read
<1> HIDE DEF u, v, fl
<1> QED
  BY <1>2, <1>3, <1>5, <1>6, <1>7 DEF fl

-----------------------------------------------------------------------------
(* printf: numbers as the standard has them                                *)

LEMMA Regroup3 ==
  ASSUME NEW S, NEW a \in Seq(S), NEW b \in Seq(S), NEW c \in Seq(S), NEW d \in Seq(S),
         NEW x, NEW g, NEW f, Joined(x, a, b), Joined(g, x, c), Joined(f, g, d)
  PROVE  Joined(f, a, b \o (c \o d))
<1> DEFINE y == c \o d
<1>1. x \in Seq(S) /\ y \in Seq(S)
  BY Regroup DEF Joined
<1>2. Joined(f, x, y)
  BY <1>1, SplitOff
<1> HIDE DEF y
<1>3. Joined(f, a, b \o y)
  BY <1>1, <1>2, SplitOff
<1> QED
  BY <1>3 DEF y

\* Sign, prefix and digits together, with what fills the width.
Arranged(piece, sg, pre, body, w, t, before, blanks, zeros) ==
  /\ w \in Nat /\ w = WidthOf(piece) /\ piece.spec \notin {"c", "s"}
  /\ sg \in Seq(Symbol) /\ pre \in Seq(Symbol) /\ body \in Seq(Symbol)
  /\ t = sg \o (pre \o body) /\ before = sg \o pre
  /\ blanks = Copies(" ", w - Len(t))
  /\ zeros = Copies("0", w - Len(sg) - Len(pre) - Len(body))

LEMMA JustifiedAs ==
  ASSUME NEW piece, NEW sg, NEW pre, NEW body, NEW w, NEW t, NEW before, NEW blanks, NEW zeros,
         Arranged(piece, sg, pre, body, w, t, before, blanks, zeros)
  PROVE  /\ t \in Seq(Symbol) /\ Len(t) = Len(sg) + Len(pre) + Len(body)
         /\ OnLeft(piece) => Justified(piece, before, body) = t \o blanks
         /\ ~OnLeft(piece) /\ ~WithZeros(piece) => Justified(piece, before, body) = blanks \o t
         /\ ~OnLeft(piece) /\ WithZeros(piece) =>
              Justified(piece, before, body) = sg \o (pre \o (zeros \o body))
<1> DEFINE missing == w - Len(before) - Len(body)
<1>1. sg \in Seq(Symbol) /\ pre \in Seq(Symbol) /\ body \in Seq(Symbol) /\ w \in Nat
  BY DEF Arranged
<1>2. /\ Len(sg) \in Nat /\ Len(pre) \in Nat /\ Len(body) \in Nat
      /\ before \in Seq(Symbol) /\ Len(before) = Len(sg) + Len(pre)
  <2>1. before = sg \o pre
    BY DEF Arranged
  <2>2. sg \o pre \in Seq(Symbol) /\ Len(sg \o pre) = Len(sg) + Len(pre)
    BY <1>1, ConcatProperties
  <2> QED
    BY <1>1, <2>1, <2>2, LenProperties
<1>3. t = before \o body
  <2> DEFINE f == before \o body
  <2>1. Joined(f, before, body) /\ Joined(before, sg, pre) /\ t = sg \o (pre \o body)
    BY DEF Joined, Arranged
  <2> HIDE DEF f
  <2>2. Joined(f, sg, pre \o body)
    BY <1>1, <2>1, SplitOff
  <2> QED
    BY <2>1, <2>2 DEF Joined, f
<1>4. t \in Seq(Symbol) /\ Len(t) = Len(sg) + Len(pre) + Len(body)
  <2> DEFINE q == before \o body
  <2>1. before \in Seq(Symbol) /\ body \in Seq(Symbol)
    BY <1>2, <1>1
  <2>2. q \in Seq(Symbol) /\ Len(q) = Len(before) + Len(body)
    BY <2>1, ConcatProperties
  <2> HIDE DEF q
  <2>3. Len(q) = Len(sg) + Len(pre) + Len(body)
    BY <1>2, <2>2
  <2>4. t = q
    BY <1>3 DEF q
  <2> QED
    BY <2>2, <2>3, <2>4
<1>5. Len(t) = Len(sg) + Len(pre) + Len(body)
  BY <1>4
<1>6. missing = w - Len(t) /\ missing = w - Len(sg) - Len(pre) - Len(body) /\ missing \in Int
  <2> DEFINE x == Len(sg)
             y == Len(pre)
             z == Len(body)
             b == Len(before)
             l == Len(t)
  <2>1. x \in Nat /\ y \in Nat /\ z \in Nat /\ b = x + y /\ l = x + y + z /\ w \in Nat
    BY <1>2, <1>1, <1>5
  <2> HIDE DEF x, y, z, b, l
  <2>2. w - b - z = w - l /\ w - b - z = w - x - y - z /\ w - b - z \in Int
    BY <2>1
  <2> QED
    BY <2>2 DEF x, y, z, b, l
<1>7. /\ blanks = Copies(" ", missing) /\ zeros = Copies("0", missing)
      /\ blanks \in Seq(Symbol) /\ zeros \in Seq(Symbol)
  <2>1. blanks = Copies(" ", missing) /\ zeros = Copies("0", missing)
    BY <1>6 DEF Arranged
  <2>2. "0" \in Symbol /\ " " \in Symbol
    BY SymbolsIn
  <2>3. Copies(" ", missing) \in Seq(Symbol) /\ Copies("0", missing) \in Seq(Symbol)
    BY <1>6, <2>2, CopiesAre
  <2> QED
    BY <2>1, <2>3
<1>8. Justified(piece, before, body)
        = IF OnLeft(piece) THEN before \o body \o blanks
          ELSE IF WithZeros(piece) THEN before \o zeros \o body
          ELSE blanks \o before \o body
  BY <1>7 DEF Justified, missing, Arranged
<1>9. before \o body \o blanks = t \o blanks
  BY <1>3
<1>10. blanks \o before \o body = blanks \o t
  <2> DEFINE g == blanks \o before
             f == g \o body
  <2>1. Joined(f, g, body) /\ Joined(g, blanks, before)
    BY DEF Joined
  <2> HIDE DEF f, g
  <2>2. Joined(f, blanks, before \o body)
    BY <1>2, <1>7, <1>1, <2>1, SplitOff
  <2> QED
    BY <1>3, <2>2 DEF Joined, f, g
<1>11. before \o zeros \o body = sg \o (pre \o (zeros \o body))
  <2>1. zeros \in Seq(Symbol)
    BY <1>7
  <2> DEFINE g == before \o zeros
             f == g \o body
  <2>2. Joined(before, sg, pre) /\ Joined(g, before, zeros) /\ Joined(f, g, body)
    BY DEF Joined, Arranged
  <2> HIDE DEF f, g
  <2>3. Joined(f, sg, pre \o (zeros \o body))
    BY <1>1, <2>1, <2>2, Regroup3
  <2> QED
    BY <2>3 DEF Joined, f, g
<1>12. OnLeft(piece) => Justified(piece, before, body) = t \o blanks
  BY <1>8, <1>9
<1>13. ~OnLeft(piece) /\ ~WithZeros(piece) => Justified(piece, before, body) = blanks \o t
  BY <1>8, <1>10
<1>14. ~OnLeft(piece) /\ WithZeros(piece) => Justified(piece, before, body) = sg \o (pre \o (zeros \o body))
  BY <1>8, <1>11
<1> QED
  BY <1>4, <1>12, <1>13, <1>14

LEMMA OneMore ==
  ASSUME NEW S, NEW c \in S, NEW n \in Nat, n > 0
  PROVE  Copies(c, n - 1) \o <<c>> = Copies(c, n) /\ Copies(c, n)[1] = c /\ Copies(c, n) # <<>>
<1> DEFINE a == Copies(c, n - 1)
           one == <<c>>
           b == Copies(c, n)
           s == a \o one
<1>1. /\ a \in Seq(S) /\ Len(a) = (IF n - 1 > 0 THEN n - 1 ELSE 0) /\ \A i \in 1 .. n - 1 : a[i] = c
  <2> DEFINE m == n - 1
  <2>1. m \in Int
    OBVIOUS
  <2> HIDE DEF m
  <2>2. /\ Copies(c, m) \in Seq(S) /\ Len(Copies(c, m)) = (IF m > 0 THEN m ELSE 0)
        /\ \A i \in 1 .. m : Copies(c, m)[i] = c
    BY <2>1, CopiesAre
  <2> QED
    BY <2>2 DEF m
<1>2. /\ b \in Seq(S) /\ Len(b) = (IF n > 0 THEN n ELSE 0) /\ \A i \in 1 .. n : b[i] = c
  BY CopiesAre
<1>3. one \in Seq(S) /\ Len(one) = 1 /\ one[1] = c
  OBVIOUS
<1> HIDE DEF a, b, one
<1>4. /\ s \in Seq(S) /\ Len(s) = Len(a) + Len(one)
      /\ \A i \in 1 .. Len(a) + Len(one) : s[i] = IF i <= Len(a) THEN a[i] ELSE one[i - Len(a)]
  BY <1>1, <1>3, ConcatProperties
<1> HIDE DEF s
<1>5. Len(a) = n - 1 /\ Len(b) = n /\ Len(s) = n
  BY <1>1, <1>2, <1>3, <1>4
<1>6. ASSUME NEW i \in 1 .. Len(s) PROVE s[i] = b[i]
  <2>1. i \in 1 .. n /\ i \in 1 .. Len(a) + Len(one)
    BY <1>3, <1>5
  <2>2. CASE i <= Len(a)
    <3>1. i \in 1 .. n - 1
      BY <1>5, <2>1, <2>2
    <3> QED
      BY <1>1, <1>2, <1>4, <2>1, <2>2, <3>1
  <2>3. CASE ~(i <= Len(a))
    <3>1. i - Len(a) = 1
      BY <1>5, <2>1, <2>3
    <3> QED
      BY <1>2, <1>3, <1>4, <2>1, <2>3, <3>1
  <2> QED
    BY <2>2, <2>3
<1>7. s = b
  BY <1>2, <1>4, <1>5, <1>6, SeqEqual
<1>8. b[1] = c /\ b # <<>>
  <2>1. 1 \in 1 .. n /\ Len(<<>>) = 0
    OBVIOUS
  <2> QED
    BY <1>2, <1>5, <2>1
<1> QED
  BY <1>7, <1>8 DEF s, a, b, one

LettersOf(piece) ==
  IF piece.spec \in {"X", "p"} THEN Uppercase ELSE IF piece.spec = "x" THEN Lowercase ELSE Decimal
BaseOf(piece) == IF piece.spec = "p" THEN 16 ELSE Base(piece.spec)

LEMMA FiguresAre ==
  ASSUME NEW piece, NEW program \in {"kernel", "loader"}, piece.value \in Nat, piece.spec \in Integers_ \cup {"p"}
  PROVE  /\ BaseOf(piece) \in Bases
         /\ Figures(piece, program) = Numeral(BaseOf(piece), LettersOf(piece))[Magnitude(piece, program)]
         /\ Figures(piece, program) \in Seq(Symbol) /\ Len(Figures(piece, program)) >= 1
         /\ Magnitude(piece, program) = 0 => Figures(piece, program) = <<"0">>
         /\ Magnitude(piece, program) > 0 /\ BaseOf(piece) <= 10 => Figures(piece, program)[1] # "0"
<1> DEFINE v == Magnitude(piece, program)
           base == BaseOf(piece)
           letters == LettersOf(piece)
           F == Figures(piece, program)
<1>1. v \in 0 .. ULLONG_MAX
  BY NumberIs
<1>2. base \in Bases
  BY DEF BaseOf, Base, Bases
<1>3. F = Numeral(base, letters)[v]
  <2> HIDE DEF v
  <2>1. F = (CASE piece.spec \in {"X", "p"} -> Numeral(16, Uppercase) [] piece.spec = "x" -> Numeral(16, Lowercase)
               [] piece.spec = "o" -> Numeral(8, Decimal) [] piece.spec = "b" -> Numeral(2, Decimal)
               [] OTHER -> Numeral(10, Decimal))[v]
    BY DEF Figures, v
  <2>2. CASE piece.spec = "p"
    <3>1. F = Numeral(16, Uppercase)[v]
      BY <2>1, <2>2
    <3> QED
      BY <2>2, <3>1 DEF BaseOf, LettersOf
  <2>3. CASE piece.spec = "X"
    <3>1. F = Numeral(16, Uppercase)[v]
      BY <2>1, <2>3
    <3> QED
      BY <2>3, <3>1 DEF BaseOf, LettersOf, Base
  <2>4. CASE piece.spec = "x"
    <3>1. F = Numeral(16, Lowercase)[v]
      BY <2>1, <2>4
    <3> QED
      BY <2>4, <3>1 DEF BaseOf, LettersOf, Base
  <2>5. CASE piece.spec = "o"
    <3>1. F = Numeral(8, Decimal)[v]
      BY <2>1, <2>5
    <3> QED
      BY <2>5, <3>1 DEF BaseOf, LettersOf, Base
  <2>6. CASE piece.spec = "b"
    <3>1. F = Numeral(2, Decimal)[v]
      BY <2>1, <2>6
    <3> QED
      BY <2>6, <3>1 DEF BaseOf, LettersOf, Base
  <2>7. CASE piece.spec \in {"d", "i", "u"}
    <3>1. F = Numeral(10, Decimal)[v]
      BY <2>1, <2>7
    <3> QED
      BY <2>7, <3>1 DEF BaseOf, LettersOf, Base
  <2> QED
    BY <2>2, <2>3, <2>4, <2>5, <2>6, <2>7 DEF Integers_
<1>4. /\ \A k \in 1 .. base : letters[k] \in Symbol /\ (k <= 10 => letters[k] = Decimal[k])
      /\ base > 10 => base = 16
  <2>1. letters = Decimal => base <= 10
    BY DEF LettersOf, BaseOf, Base, Uppercase, Lowercase
  <2>2. letters = Decimal \/ letters = Uppercase \/ letters = Lowercase
    BY DEF LettersOf
  <2>3. \A k \in 1 .. base : k \in 1 .. 16 /\ (k <= 10 => k \in 1 .. 10)
    BY <1>2 DEF Bases
  <2>4. letters = Decimal => \A k \in 1 .. base : k \in 1 .. 10
    BY <1>2, <2>1 DEF Bases
  <2>5. base > 10 => base = 16
    BY <1>2 DEF Bases
  <2> HIDE DEF letters, base
  <2>6. CASE letters = Decimal
    BY <2>4, <2>5, <2>6, DecimalIs
  <2>7. CASE letters = Uppercase
    BY <2>3, <2>5, <2>7, CaseLetters
  <2>8. CASE letters = Lowercase
    BY <2>3, <2>5, <2>8, CaseLetters
  <2> QED
    BY <2>2, <2>6, <2>7, <2>8
<1> HIDE DEF v, base, letters, F
<1>5. Spells(Symbol, base, letters, v, F)
  <2>1. \A k \in 1 .. base : letters[k] \in Symbol
    BY <1>4
  <2> QED
    BY <1>1, <1>2, <1>3, <2>1, NumeralSpells
<1>6. F \in Seq(Symbol) /\ Len(F) >= 1
  BY <1>5 DEF Spells
<1>7. v = 0 => F = <<"0">>
  <2> SUFFICES ASSUME v = 0 PROVE F = <<"0">>
    OBVIOUS
  <2>1. v < base /\ 1 \in 1 .. base /\ v + 1 = 1
    BY <1>2 DEF Bases
  <2>2. Numeral(base, letters)[v] = <<letters[v + 1]>>
    BY <1>1, <1>2, <2>1, NumeralIs DEF NumeralOf
  <2>3. letters[1] = "0"
    BY <1>4, <2>1, DecimalIs
  <2> QED
    BY <1>3, <2>1, <2>2, <2>3
<1>8. v > 0 /\ base <= 10 => F[1] # "0"
  <2> SUFFICES ASSUME v > 0, base <= 10 PROVE F[1] # "0"
    OBVIOUS
  <2>1. PICK d \in 2 .. base : F[1] = letters[d]
    BY <1>5 DEF Spells
  <2>2. d \in 2 .. 10 /\ d \in 1 .. base /\ d <= 10
    BY <1>2, <2>1 DEF Bases
  <2> QED
    BY <1>4, <2>1, <2>2, DecimalIs
<1> QED
  BY <1>2, <1>3, <1>6, <1>7, <1>8 DEF F, v, base, letters

\* What is there before the precision's zeros.
Bare(piece, program) ==
  IF Magnitude(piece, program) = 0 /\ Precise(piece) THEN <<>> ELSE Figures(piece, program)

LEMMA DigitsText ==
  ASSUME NEW piece, NEW program \in {"kernel", "loader"}, piece.value \in Nat, piece.spec \in Integers_,
         piece.precision.n \in Nat, ~Precise(piece) => piece.precision.n = 0
  PROVE  LET n == piece.precision.n s == Bare(piece, program) D == Digits(piece, program) IN
         /\ D = Copies("0", n - Len(s)) \o s
         /\ s \in Seq(Symbol) /\ D \in Seq(Symbol)
         /\ Len(D) = IF n > Len(s) THEN n ELSE Len(s)
         /\ n <= Len(s) => D = s
         /\ n > Len(s) => D # <<>> /\ D[1] = "0"
<1> DEFINE n == piece.precision.n
           f == Figures(piece, program)
           v == Magnitude(piece, program)
           s == Bare(piece, program)
           D == Digits(piece, program)
<1>1. f \in Seq(Symbol) /\ Len(f) >= 1 /\ Len(f) \in Nat /\ (v = 0 => f = <<"0">>)
  BY FiguresAre, LenProperties
<1>2. s = (IF v = 0 /\ Precise(piece) THEN <<>> ELSE f)
  BY DEF Bare
<1>3. D = IF v = 0 /\ (IF Precise(piece) THEN n ELSE 1) = 0 THEN <<>>
          ELSE Copies("0", (IF Precise(piece) THEN n ELSE 1) - Len(f)) \o f
  BY DEF Digits, Least, Integers_
<1>4. "0" \in Symbol /\ Len(<<>>) = 0 /\ <<>> \in Seq(Symbol) /\ Len(<<"0">>) = 1
  BY SymbolsIn, EmptySeq
<1> HIDE DEF s, D, f, v
<1>5. s \in Seq(Symbol) /\ Len(s) \in Nat
  BY <1>1, <1>2, <1>4
<1>6. n \in Nat /\ (~Precise(piece) => n = 0)
  OBVIOUS
<1> HIDE DEF n
<1>7. D = Copies("0", n - Len(s)) \o s
  <2>1. CASE ~Precise(piece)
    <3>1. s = f /\ n = 0 /\ ~(n - Len(s) > 0) /\ ~(1 - Len(f) > 0)
      BY <1>1, <1>2, <1>6, <2>1
    <3>2. Copies("0", n - Len(s)) = <<>> /\ Copies("0", 1 - Len(f)) = <<>>
      BY <3>1 DEF Copies
    <3>3. D = Copies("0", 1 - Len(f)) \o f
      BY <1>3, <2>1
    <3> QED
      BY <3>1, <3>2, <3>3
  <2>2. CASE Precise(piece) /\ v # 0
    BY <1>2, <1>3, <2>2
  <2>3. CASE Precise(piece) /\ v = 0 /\ n = 0
    <3>1. D = <<>> /\ s = <<>> /\ ~(n - Len(s) > 0)
      BY <1>2, <1>3, <1>4, <2>3
    <3>2. Copies("0", n - Len(s)) = <<>>
      BY <3>1 DEF Copies
    <3>3. <<>> \o s = s
      BY <1>5, NothingInFront
    <3> QED
      BY <3>1, <3>2, <3>3
  <2>4. CASE Precise(piece) /\ v = 0 /\ n # 0
    <3>1. D = Copies("0", n - Len(f)) \o f /\ f = <<"0">> /\ s = <<>>
      BY <1>1, <1>2, <1>3, <2>4
    <3>2. n - Len(f) = n - 1 /\ n - Len(s) = n /\ n > 0
      BY <1>4, <1>6, <2>4, <3>1
    <3>3. Copies("0", n - 1) \o <<"0">> = Copies("0", n)
      BY <1>4, <1>6, <3>2, OneMore
    <3>4. Copies("0", n) \in Seq(Symbol)
      BY <1>4, <1>6, CopiesAre
    <3>5. Copies("0", n) \o <<>> = Copies("0", n)
      BY <3>4, NothingInFront
    <3> QED
      BY <3>1, <3>2, <3>3, <3>5
  <2> QED
    BY <2>1, <2>2, <2>3, <2>4
<1> DEFINE e == n - Len(s)
           z == Copies("0", e)
<1>8. e \in Int
  BY <1>5, <1>6
<1> HIDE DEF e
<1>9. z \in Seq(Symbol) /\ Len(z) = (IF e > 0 THEN e ELSE 0) /\ (\A i \in 1 .. e : z[i] = "0") /\ (e <= 0 => z = <<>>)
  BY <1>4, <1>8, CopiesAre
<1> HIDE DEF z
<1>10. /\ z \o s \in Seq(Symbol) /\ Len(z \o s) = Len(z) + Len(s)
       /\ \A i \in 1 .. Len(z) + Len(s) : (z \o s)[i] = IF i <= Len(z) THEN z[i] ELSE s[i - Len(z)]
  <2>1. z \in Seq(Symbol) /\ s \in Seq(Symbol)
    BY <1>5, <1>9
  <2> QED
    BY <2>1, ConcatProperties
<1>11. D = z \o s
  BY <1>7 DEF z, e
<1>12. Len(D) = IF n > Len(s) THEN n ELSE Len(s)
  <2>1. Len(D) = Len(z) + Len(s)
    BY <1>10, <1>11
  <2> QED
    BY <1>5, <1>6, <1>9, <2>1 DEF e
<1>13. n <= Len(s) => D = s
  <2>1. <<>> \o s = s
    BY <1>5, NothingInFront
  <2>2. n <= Len(s) => e <= 0
    BY <1>5, <1>6 DEF e
  <2> QED
    BY <1>9, <1>11, <2>1, <2>2
<1>14. n > Len(s) => D # <<>> /\ D[1] = "0"
  <2> SUFFICES ASSUME n > Len(s) PROVE D # <<>> /\ D[1] = "0"
    OBVIOUS
  <2>1. e > 0
    BY <1>5, <1>6 DEF e
  <2>2. 1 \in 1 .. e /\ 1 \in 1 .. Len(z) + Len(s) /\ 1 <= Len(z)
    BY <1>5, <1>8, <1>9, <2>1
  <2>3. D[1] = "0"
    BY <1>9, <1>10, <1>11, <2>2
  <2>4. Len(D) # 0
    BY <1>5, <1>6, <1>12
  <2> QED
    BY <1>4, <2>3, <2>4
<1> QED
  BY <1>5, <1>7, <1>10, <1>11, <1>12, <1>13, <1>14 DEF n, s, D

\* The flags _ntoa_format is given.
NumberFlags(piece) ==
  IF Magnitude(piece, call.program) = 0 THEN IntegerFlags(piece.spec) \ {HASH} ELSE IntegerFlags(piece.spec)

LEMMA NumberFlagsAre ==
  ASSUME NEW piece, WellFormed(piece), Read(piece), piece.spec \in Integers_
  PROVE  LET fl == NumberFlags(piece) IN
         /\ (LEFT \in fl) <=> OnLeft(piece)
         /\ ("PRECISION" \in fl) <=> Precise(piece)
         /\ ("UPPERCASE" \in fl) <=> (piece.spec = "X")
         /\ (ZEROPAD \in fl) <=> (Has(piece, "0") /\ ~Precise(piece))
         /\ (HASH \in fl) <=>
              (Has(piece, "#") /\ piece.spec \notin {"d", "i", "u"} /\ Magnitude(piece, call.program) # 0)
         /\ (PLUS \in fl) <=> (Has(piece, "+") /\ IsSigned(piece))
         /\ (SPACE \in fl) <=> (Has(piece, " ") /\ IsSigned(piece))
<1> DEFINE fl0 == IntegerFlags(piece.spec)
           v == Magnitude(piece, call.program)
           fl == NumberFlags(piece)
<1>1. FlagsApart(fl0, piece)
  BY IntegerFlagsAre
<1>2. fl = IF v = 0 THEN fl0 \ {HASH} ELSE fl0
  BY DEF NumberFlags
<1> HIDE DEF fl0, fl, v
<1>3. /\ LEFT \in fl <=> LEFT \in fl0
      /\ "PRECISION" \in fl <=> "PRECISION" \in fl0
      /\ "UPPERCASE" \in fl <=> "UPPERCASE" \in fl0
      /\ ZEROPAD \in fl <=> ZEROPAD \in fl0
      /\ PLUS \in fl <=> PLUS \in fl0
      /\ SPACE \in fl <=> SPACE \in fl0
      /\ HASH \in fl <=> HASH \in fl0 /\ v # 0
  BY <1>2 DEF LEFT, ZEROPAD, PLUS, SPACE, HASH
<1> QED
  BY <1>1, <1>3 DEF FlagsApart, fl, v

LEMMA StandardIs ==
  ASSUME NEW piece, NEW program, AsTheStandard(piece, program)
  PROVE  LET size == Len(Figures(piece, program)) zero == Magnitude(piece, program) = 0
             before == SignOf(piece, program) \o Prefix(piece, program)
             w == WidthOf(piece) n == piece.precision.n
         IN /\ Len(before) + Len(Digits(piece, program)) <= NTOA_BUFFER_SIZE
            /\ WithZeros(piece) => w <= NTOA_BUFFER_SIZE
            /\ OnLeft(piece) /\ Precise(piece) => n <= IF zero THEN 0 ELSE size
            /\ Has(piece, "#") /\ piece.spec \in {"x", "X", "o", "b"} /\ ~zero /\ ~Precise(piece) =>
                 \/ w < size
                 \/ WithZeros(piece) /\ IF piece.spec = "b" THEN w = size + 1 ELSE w >= size + Len(before)
                 \/ ~WithZeros(piece) /\ w # size
            /\ Has(piece, "#") /\ piece.spec = "o" /\ Precise(piece) => IF zero THEN n # 0 ELSE n <= size
BY DEF AsTheStandard

LEMMA SignTextIs ==
  ASSUME NEW piece, WellFormed(piece), Read(piece), piece.spec \in Integers_, call.program \in {"kernel", "loader"}
  PROVE  SignOf(piece, call.program) = SignText(Number(piece, call.program) < 0, NumberFlags(piece))
<1> DEFINE fl == NumberFlags(piece)
           N == Number(piece, call.program)
<1>1. (PLUS \in fl <=> Has(piece, "+") /\ IsSigned(piece)) /\ (SPACE \in fl <=> Has(piece, " ") /\ IsSigned(piece))
  BY NumberFlagsAre
<1>2. ~IsSigned(piece) => ~(N < 0)
  <2>1. piece.value \in Nat
    BY DEF WellFormed, Integers_
  <2>2. N \in Int /\ (~IsSigned(piece) => N >= 0)
    BY <2>1, NumberIs
  <2> HIDE DEF N
  <2> QED
    BY <2>2
<1>3. SignOf(piece, call.program)
        = IF ~IsSigned(piece) THEN <<>>
          ELSE IF N < 0 THEN <<"-">>
          ELSE IF Has(piece, "+") THEN <<"+">>
          ELSE IF Has(piece, " ") THEN <<" ">> ELSE <<>>
  BY DEF SignOf
<1> HIDE DEF N, fl
<1>4. SignOf(piece, call.program) = SignText(N < 0, fl)
  BY <1>1, <1>2, <1>3 DEF SignText
<1> QED
  BY <1>4 DEF N, fl

LEMMA HashTextIs ==
  ASSUME NEW piece, WellFormed(piece), Read(piece), piece.spec \in Integers_, call.program \in {"kernel", "loader"},
         AsTheStandard(piece, call.program)
  PROVE  Prefix(piece, call.program) = HashText(Base(piece.spec), NumberFlags(piece))
<1> DEFINE fl == NumberFlags(piece)
           v == Magnitude(piece, call.program)
           f == Figures(piece, call.program)
           s == Bare(piece, call.program)
           D == Digits(piece, call.program)
           n == piece.precision.n
           c == piece.spec
           pre == Prefix(piece, call.program)
<1>1. (HASH \in fl <=> Has(piece, "#") /\ c \notin {"d", "i", "u"} /\ v # 0) /\ ("UPPERCASE" \in fl <=> c = "X")
  BY NumberFlagsAre
<1>2. pre = IF ~Has(piece, "#") THEN <<>>
            ELSE IF c \in {"x", "X", "b"} THEN IF v # 0 THEN <<"0", c>> ELSE <<>>
            ELSE IF c = "o" THEN IF D # <<>> /\ D[1] = "0" THEN <<>> ELSE <<"0">>
            ELSE <<>>
  <2> HIDE DEF D, v
  <2>1. pre = IF ~Has(piece, "#") THEN <<>>
              ELSE CASE c \in {"x", "X", "b"} -> IF v # 0 THEN <<"0", c>> ELSE <<>>
                     [] c = "o" -> IF D # <<>> /\ D[1] = "0" THEN <<>> ELSE <<"0">>
                     [] OTHER -> <<>>
    BY DEF Prefix, D, v
  <2>2. CASE c \in {"x", "X", "b"}
    BY <2>1, <2>2
  <2>3. CASE c = "o"
    BY <2>1, <2>3
  <2>4. CASE c \notin {"x", "X", "b", "o"}
    BY <2>1, <2>4
  <2> QED
    BY <2>2, <2>3, <2>4
<1>3. piece.value \in Nat /\ n \in Nat /\ (~Precise(piece) => n = 0)
  <2>1. piece.value \in Nat
    BY DEF WellFormed, Integers_
  <2> QED
    BY <2>1, FieldsAre
<1>4. /\ (n <= Len(s) => D = s) /\ (n > Len(s) => D # <<>> /\ D[1] = "0")
  BY <1>3, DigitsText
<1>5. v \in Nat /\ Len(f) >= 1 /\ f \in Seq(Symbol) /\ (v = 0 => f = <<"0">>) /\ (v > 0 /\ BaseOf(piece) <= 10 => f[1] # "0")
  <2>1. v \in 0 .. ULLONG_MAX
    BY <1>3, NumberIs
  <2>2. Len(f) >= 1 /\ f \in Seq(Symbol) /\ (v = 0 => f = <<"0">>) /\ (v > 0 /\ BaseOf(piece) <= 10 => f[1] # "0")
    BY <1>3, FiguresAre
  <2> HIDE DEF v, f
  <2> QED
    BY <2>1, <2>2
<1>6. s = IF v = 0 /\ Precise(piece) THEN <<>> ELSE f
  BY DEF Bare
<1>7. Has(piece, "#") /\ c = "o" /\ Precise(piece) => IF v = 0 THEN n # 0 ELSE n <= Len(f)
  BY StandardIs
<1> HIDE DEF fl, v, f, s, D, n, pre
<1>8. CASE ~Has(piece, "#")
  BY <1>1, <1>2, <1>8 DEF HashText, fl, pre
<1>9. CASE Has(piece, "#") /\ c \in {"d", "i", "u"}
  <2>1. pre = <<>>
    BY <1>2, <1>9
  <2> QED
    BY <1>1, <1>9, <2>1 DEF HashText, fl, pre
<1>10. CASE Has(piece, "#") /\ c \in {"x", "X", "b"} /\ v = 0
  BY <1>1, <1>2, <1>10 DEF HashText, fl, pre
<1>11. CASE Has(piece, "#") /\ c \in {"x", "X", "b"} /\ v # 0
  <2>1. HASH \in fl /\ ("UPPERCASE" \in fl <=> c = "X") /\ pre = <<"0", c>>
    BY <1>1, <1>2, <1>11
  <2>2. CASE c = "x"
    <3>1. Base(c) = 16
      BY <2>2 DEF Base
    <3> QED
      BY <2>1, <2>2, <3>1 DEF HashText, fl, pre
  <2>3. CASE c = "X"
    <3>1. Base(c) = 16
      BY <2>3 DEF Base
    <3> QED
      BY <2>1, <2>3, <3>1 DEF HashText, fl, pre
  <2>4. CASE c = "b"
    <3>1. Base(c) = 2
      BY <2>4 DEF Base
    <3> QED
      BY <2>1, <2>4, <3>1 DEF HashText, fl, pre
  <2> QED
    BY <1>11, <2>2, <2>3, <2>4
<1>12. CASE Has(piece, "#") /\ c = "o"
  <2>1. Base(c) = 8 /\ BaseOf(piece) = 8
    BY <1>12 DEF Base, BaseOf
  <2>2. pre = IF D # <<>> /\ D[1] = "0" THEN <<>> ELSE <<"0">>
    BY <1>2, <1>12
  <2>3. Len(<<>>) = 0 /\ <<"0">> # <<>> /\ <<"0">>[1] = "0" /\ Len(<<"0">>) = 1
    OBVIOUS
  <2>4. CASE v = 0
    <3>1. D # <<>> /\ D[1] = "0"
      <4>1. CASE Precise(piece)
        <5>1. n > Len(s)
          BY <1>3, <1>6, <1>7, <1>12, <2>3, <2>4, <4>1 DEF n
        <5> QED
          BY <1>4, <5>1
      <4>2. CASE ~Precise(piece)
        <5>1. s = <<"0">> /\ n <= Len(s)
          BY <1>3, <1>5, <1>6, <2>3, <2>4, <4>2 DEF n
        <5> QED
          BY <1>4, <2>3, <5>1
      <4> QED
        BY <4>1, <4>2
    <3>2. HASH \notin fl
      BY <1>1, <2>4
    <3> QED
      BY <2>2, <3>1, <3>2 DEF HashText, fl, pre
  <2>5. CASE v # 0
    <3>1. s = f
      BY <1>6, <2>5
    <3>2. n <= Len(s)
      <4>1. CASE Precise(piece)
        BY <1>7, <1>12, <2>5, <3>1, <4>1
      <4>2. CASE ~Precise(piece)
        <5>1. n = 0 /\ Len(f) >= 1 /\ Len(f) \in Nat
          BY <1>3, <1>5, <4>2, LenProperties DEF n
        <5> QED
          BY <3>1, <5>1
      <4> QED
        BY <4>1, <4>2
    <3>3. D = f
      BY <1>4, <3>1, <3>2
    <3>4. f[1] # "0"
      <4>1. v > 0 /\ BaseOf(piece) <= 10
        BY <1>5, <2>1, <2>5
      <4> QED
        BY <1>5, <4>1
    <3>5. HASH \in fl
      BY <1>1, <1>12, <2>5
    <3> QED
      BY <2>1, <2>2, <3>3, <3>4, <3>5 DEF HashText, fl, pre
  <2> QED
    BY <2>4, <2>5
<1> QED
  BY <1>8, <1>9, <1>10, <1>11, <1>12 DEF Integers_

LEMMA IntegerRendered ==
  ASSUME NEW piece, WellFormed(piece), Read(piece), piece.spec \in Integers_, call.program \in {"kernel", "loader"},
         AsTheStandard(piece, call.program)
  PROVE  LET prog == call.program body == Digits(piece, prog) IN
         /\ Integer(piece.spec, piece.value) = Justified(piece, SignOf(piece, prog) \o Prefix(piece, prog), body)
         /\ SignOf(piece, prog) \in Seq(Symbol) /\ Prefix(piece, prog) \in Seq(Symbol) /\ body \in Seq(Symbol)
<1> DEFINE prog == call.program
           v == Magnitude(piece, prog)
           neg == Number(piece, prog) < 0
           f == Figures(piece, prog)
           s == Bare(piece, prog)
           D == Digits(piece, prog)
           n == piece.precision.n
           w == WidthOf(piece)
           base == Base(piece.spec)
           fl0 == IntegerFlags(piece.spec)
           fl == NumberFlags(piece)
           sg == SignText(neg, fl)
           pre == HashText(base, fl)
           digits == IF "PRECISION" \in fl0 /\ v = 0 THEN <<>> ELSE DigitsOf(v, base, fl0)
           out == _ntoa_format(digits, neg, base, n, w, fl)
           t == sg \o (pre \o D)
           blanks == Copies(" ", w - Len(t))
           fill == Copies("0", w - Len(sg) - Len(pre) - Len(D))
           J == Justified(piece, sg \o pre, D)
<1>1. piece.value \in Nat /\ w \in Nat /\ n \in Nat /\ (~Precise(piece) => n = 0)
  <2>1. piece.value \in Nat
    BY DEF WellFormed, Integers_
  <2> QED
    BY <2>1, FieldsAre
<1>2. NTOA_BUFFER_SIZE \in Nat
  BY PrintfAssumption
<1>3. v \in 0 .. ULLONG_MAX /\ neg \in BOOLEAN /\ (~IsSigned(piece) => ~neg)
  <2>1. /\ Number(piece, prog) \in Int /\ (~IsSigned(piece) => Number(piece, prog) >= 0)
        /\ v \in 0 .. ULLONG_MAX
    BY <1>1, NumberIs
  <2>2. neg \in BOOLEAN
    OBVIOUS
  <2>3. ~IsSigned(piece) => ~neg
    BY <2>1
  <2> HIDE DEF neg, v
  <2> QED
    BY <2>1, <2>2, <2>3
<1>4. base \in Bases /\ f = Numeral(base, LettersOf(piece))[v] /\ f \in Seq(Symbol) /\ Len(f) >= 1 /\ Len(f) \in Nat
  <2>1. BaseOf(piece) = base
    BY DEF BaseOf, Base, Integers_
  <2>2. /\ BaseOf(piece) \in Bases /\ f = Numeral(BaseOf(piece), LettersOf(piece))[v]
        /\ f \in Seq(Symbol) /\ Len(f) >= 1
    BY <1>1, FiguresAre
  <2> HIDE DEF base, f, v
  <2> QED
    BY <2>1, <2>2, LenProperties
<1>5. sg = SignOf(piece, prog) /\ pre = Prefix(piece, prog)
  BY SignTextIs, HashTextIs
<1>6. /\ sg \in Seq(Symbol) /\ pre \in Seq(Symbol)
      /\ Len(sg) = (IF neg \/ PLUS \in fl \/ SPACE \in fl THEN 1 ELSE 0)
      /\ Len(pre) = (IF HASH \notin fl THEN 0 ELSE IF base \in {2, 16} THEN 2 ELSE 1)
  <2> HIDE DEF neg, base, fl
  <2> QED
    BY <1>3, <1>4, TextsAre
<1>7. /\ s \in Seq(Symbol) /\ D \in Seq(Symbol) /\ D = Copies("0", n - Len(s)) \o s
      /\ Len(D) = (IF n > Len(s) THEN n ELSE Len(s)) /\ (n <= Len(s) => D = s)
  BY <1>1, DigitsText
<1>8. s = (IF v = 0 /\ Precise(piece) THEN <<>> ELSE f)
  BY DEF Bare
<1>9. /\ Len(sg \o pre) + Len(D) <= NTOA_BUFFER_SIZE
      /\ WithZeros(piece) => w <= NTOA_BUFFER_SIZE
      /\ OnLeft(piece) /\ Precise(piece) => n <= IF v = 0 THEN 0 ELSE Len(f)
      /\ Has(piece, "#") /\ piece.spec \in {"x", "X", "o", "b"} /\ v # 0 /\ ~Precise(piece) =>
           \/ w < Len(f)
           \/ WithZeros(piece) /\ IF piece.spec = "b" THEN w = Len(f) + 1 ELSE w >= Len(f) + Len(sg \o pre)
           \/ ~WithZeros(piece) /\ w # Len(f)
  <2> DEFINE before == SignOf(piece, prog) \o Prefix(piece, prog)
  <2>1. /\ Len(before) + Len(D) <= NTOA_BUFFER_SIZE
        /\ WithZeros(piece) => w <= NTOA_BUFFER_SIZE
        /\ OnLeft(piece) /\ Precise(piece) => n <= IF v = 0 THEN 0 ELSE Len(f)
        /\ Has(piece, "#") /\ piece.spec \in {"x", "X", "o", "b"} /\ v # 0 /\ ~Precise(piece) =>
             \/ w < Len(f)
             \/ WithZeros(piece) /\ IF piece.spec = "b" THEN w = Len(f) + 1 ELSE w >= Len(f) + Len(before)
             \/ ~WithZeros(piece) /\ w # Len(f)
    BY StandardIs
  <2>2. before = sg \o pre
    BY <1>5
  <2> HIDE DEF before, D, w, v, f, n, sg, pre
  <2> QED
    BY <2>1, <2>2
<1>10. /\ (LEFT \in fl) <=> OnLeft(piece)
       /\ ("PRECISION" \in fl) <=> Precise(piece)
       /\ ("UPPERCASE" \in fl) <=> (piece.spec = "X")
       /\ (ZEROPAD \in fl) <=> (Has(piece, "0") /\ ~Precise(piece))
       /\ (HASH \in fl) <=> (Has(piece, "#") /\ piece.spec \notin {"d", "i", "u"} /\ v # 0)
       /\ (PLUS \in fl) <=> (Has(piece, "+") /\ IsSigned(piece))
       /\ (SPACE \in fl) <=> (Has(piece, " ") /\ IsSigned(piece))
  BY NumberFlagsAre
<1>11. FlagsApart(fl0, piece)
  BY IntegerFlagsAre
<1>12. Integer(piece.spec, piece.value) = out
  <2>1. Integer(piece.spec, piece.value) = _ntoa_long(v, neg, base, n, w, fl0)
    BY IntegerIs
  <2> HIDE DEF v, neg, base, n, w
  <2>2. fl = IF v = 0 THEN fl0 \ {HASH} ELSE fl0
    BY DEF NumberFlags, v
  <2> HIDE DEF fl0, fl
  <2> QED
    BY <2>1, <2>2 DEF _ntoa_long
<1> HIDE DEF v, neg, f, s, D, n, w, base, fl0, fl, sg, pre
<1>13. /\ Len(sg) \in Nat /\ Len(pre) \in Nat /\ Len(s) \in Nat /\ Len(D) \in Nat
       /\ Len(sg \o pre) = Len(sg) + Len(pre)
       /\ Len(sg) + Len(pre) + Len(D) <= NTOA_BUFFER_SIZE /\ Len(s) <= Len(D) /\ n <= Len(D)
  <2>1. Len(sg) \in Nat /\ Len(pre) \in Nat /\ Len(s) \in Nat /\ Len(D) \in Nat
    BY <1>6, <1>7, LenProperties
  <2>2. sg \in Seq(Symbol) /\ pre \in Seq(Symbol)
    BY <1>6
  <2>3. Len(sg \o pre) = Len(sg) + Len(pre)
    BY <2>2, ConcatProperties
  <2>4. Len(D) = (IF n > Len(s) THEN n ELSE Len(s)) /\ Len(sg \o pre) + Len(D) <= NTOA_BUFFER_SIZE
    BY <1>7, <1>9
  <2>5. Len(sg) + Len(pre) + Len(D) <= NTOA_BUFFER_SIZE
    BY <2>3, <2>4
  <2>6. Len(s) <= Len(D) /\ n <= Len(D)
    BY <1>1, <2>1, <2>4
  <2> QED
    BY <2>1, <2>3, <2>5, <2>6
<1>14. Backwards(digits, s)
  <2>1. CASE Precise(piece) /\ v = 0
    <3>1. digits = <<>> /\ s = <<>>
      BY <1>8, <1>11, <2>1 DEF FlagsApart
    <3>2. <<>> \in Seq(Symbol) /\ Len(<<>>) = 0 /\ Reverse(<<>>) = <<>>
      BY DEF Reverse
    <3> QED
      BY <3>1, <3>2 DEF Backwards
  <2>2. CASE ~(Precise(piece) /\ v = 0)
    <3>1. s = f
      BY <1>8, <2>2
    <3>2. digits = DigitsOf(v, base, fl0)
      BY <1>11, <2>2 DEF FlagsApart
    <3>3. Len(f) <= NTOA_BUFFER_SIZE
      BY <1>2, <1>13, <3>1
    <3>4. \/ LettersOf(piece) = Uppercase /\ "UPPERCASE" \in fl0
          \/ LettersOf(piece) = Lowercase /\ "UPPERCASE" \notin fl0
          \/ LettersOf(piece) = Decimal /\ base <= 10
      <4>1. "UPPERCASE" \in fl0 <=> piece.spec = "X"
        BY <1>11 DEF FlagsApart
      <4>2. CASE piece.spec = "X"
        BY <4>1, <4>2 DEF LettersOf
      <4>3. CASE piece.spec = "x"
        BY <4>1, <4>3 DEF LettersOf
      <4>4. CASE piece.spec \notin {"x", "X"}
        BY <4>4 DEF LettersOf, base, Base, Integers_
      <4> QED
        BY <4>2, <4>3, <4>4
    <3> DEFINE letters == LettersOf(piece)
    <3>5. Backwards(DigitsOf(v, base, fl0), Numeral(base, letters)[v])
      <4>1. Len(Numeral(base, letters)[v]) <= NTOA_BUFFER_SIZE
        BY <1>4, <3>3
      <4>2. \/ letters = Uppercase /\ "UPPERCASE" \in fl0
            \/ letters = Lowercase /\ "UPPERCASE" \notin fl0
            \/ letters = Decimal /\ base <= 10
        BY <3>4
      <4> HIDE DEF letters
      <4> QED
        BY <1>3, <1>4, <4>1, <4>2, DigitsAre
    <3> QED
      BY <1>4, <3>1, <3>2, <3>5
  <2> QED
    BY <2>1, <2>2
<1>15. ~Precise(piece) => s = f /\ n = 0 /\ Len(s) >= 1 /\ D = s
  <2>1. ~Precise(piece) => s = f /\ n = 0
    BY <1>1, <1>8
  <2> QED
    BY <1>4, <1>7, <2>1
<1>16. /\ t \in Seq(Symbol) /\ Len(t) = Len(sg) + Len(pre) + Len(D)
       /\ OnLeft(piece) => J = t \o blanks
       /\ ~OnLeft(piece) /\ ~WithZeros(piece) => J = blanks \o t
       /\ ~OnLeft(piece) /\ WithZeros(piece) => J = sg \o (pre \o (fill \o D))
  <2>1. piece.spec \notin {"c", "s"}
    BY DEF Integers_
  <2>2. WidthOf(piece) \in Nat /\ sg \in Seq(Symbol) /\ pre \in Seq(Symbol) /\ D \in Seq(Symbol)
    BY <1>1, <1>6, <1>7 DEF w
  <2>3. w \in Nat /\ w = WidthOf(piece)
    BY <1>1 DEF w
  <2> DEFINE before == sg \o pre
  <2>4. Arranged(piece, sg, pre, D, w, t, before, blanks, fill)
    BY <2>1, <2>2, <2>3 DEF Arranged
  <2>5. J = Justified(piece, before, D)
    OBVIOUS
  <2> HIDE DEF before, t, J, blanks, fill
  <2>6. /\ t \in Seq(Symbol) /\ Len(t) = Len(sg) + Len(pre) + Len(D)
        /\ OnLeft(piece) => Justified(piece, before, D) = t \o blanks
        /\ ~OnLeft(piece) /\ ~WithZeros(piece) => Justified(piece, before, D) = blanks \o t
        /\ ~OnLeft(piece) /\ WithZeros(piece) => Justified(piece, before, D) = sg \o (pre \o (fill \o D))
    BY <2>4, JustifiedAs
  <2> QED
    BY <2>6, <2>5
<1> HIDE DEF J, digits
<1>17. CASE OnLeft(piece)
  <2>1. LEFT \in fl
    BY <1>10, <1>17
  <2>2. D = s
    <3>1. n <= Len(s)
      <4>1. CASE Precise(piece)
        <5>1. n <= IF v = 0 THEN 0 ELSE Len(f)
          BY <1>9, <1>17, <4>1
        <5>2. Len(<<>>) = 0
          OBVIOUS
        <5> QED
          BY <1>8, <4>1, <5>1, <5>2
      <4>2. CASE ~Precise(piece)
        BY <1>13, <1>15, <4>2
      <4> QED
        BY <4>1, <4>2
    <3> QED
      BY <1>7, <3>1
  <2>3. HASH \in fl /\ "PRECISION" \notin fl => Len(s) \notin {n, w}
    <3> SUFFICES ASSUME HASH \in fl, "PRECISION" \notin fl PROVE Len(s) \notin {n, w}
      OBVIOUS
    <3>1. ~Precise(piece) /\ Has(piece, "#") /\ piece.spec \in {"x", "X", "o", "b"} /\ v # 0
      BY <1>10 DEF Integers_
    <3>2. s = f /\ n = 0 /\ Len(s) >= 1
      BY <1>15, <3>1
    <3>3. ~WithZeros(piece)
      BY <1>17 DEF WithZeros
    <3>4. w < Len(f) \/ w # Len(f)
      BY <1>9, <3>1, <3>3
    <3> QED
      BY <1>1, <1>13, <3>2, <3>4
  <2>4. Len(sg) + Len(pre) + Len(s) <= NTOA_BUFFER_SIZE
    BY <1>13, <2>2
  <2>5. out = Ended(sg \o (pre \o s), w, fl)
    BY <1>3, <1>4, <1>14, <2>1, <2>3, <2>4, LeftNumber DEF sg, pre
  <2>6. out = Ended(t, w, fl)
    BY <2>2, <2>5
  <2> HIDE DEF t, out
  <2> QED
    BY <1>5, <1>6, <1>7, <1>12, <1>16, <1>17, <2>1, <2>6 DEF Ended, J, D, prog
<1>18. CASE ~OnLeft(piece) /\ ~WithZeros(piece)
  <2>1. LEFT \notin fl /\ ZEROPAD \notin fl
    BY <1>10, <1>18 DEF WithZeros
  <2>2. HASH \in fl /\ "PRECISION" \notin fl => n = 0 /\ Len(s) \notin {0, w}
    <3> SUFFICES ASSUME HASH \in fl, "PRECISION" \notin fl PROVE n = 0 /\ Len(s) \notin {0, w}
      OBVIOUS
    <3>1. ~Precise(piece) /\ Has(piece, "#") /\ piece.spec \in {"x", "X", "o", "b"} /\ v # 0
      BY <1>10 DEF Integers_
    <3>2. s = f /\ n = 0 /\ Len(s) >= 1
      BY <1>15, <3>1
    <3>3. w < Len(f) \/ w # Len(f)
      BY <1>9, <1>18, <3>1
    <3> QED
      BY <1>1, <1>13, <3>2, <3>3
  <2>3. n <= NTOA_BUFFER_SIZE
    BY <1>1, <1>2, <1>13
  <2> DEFINE u == Copies("0", n - Len(s)) \o s
  <2>4. Len(sg) + Len(pre) + Len(u) <= NTOA_BUFFER_SIZE /\ u = D
    BY <1>7, <1>13
  <2>5. out = Ended(sg \o (pre \o u), w, fl)
    BY <1>1, <1>3, <1>4, <1>14, <2>1, <2>2, <2>3, <2>4, SpacedNumber DEF sg, pre
  <2> HIDE DEF u
  <2>6. out = Ended(t, w, fl)
    BY <2>4, <2>5
  <2> HIDE DEF t, out
  <2> QED
    BY <1>5, <1>6, <1>7, <1>12, <1>16, <1>18, <2>1, <2>6 DEF Ended, J, D, prog
<1>19. CASE WithZeros(piece)
  <2>1. ~OnLeft(piece) /\ ~Precise(piece) /\ Has(piece, "0")
    BY <1>19 DEF WithZeros
  <2>2. LEFT \notin fl /\ ZEROPAD \in fl /\ "PRECISION" \notin fl
    BY <1>10, <2>1
  <2>3. s = f /\ n = 0 /\ Len(s) >= 1 /\ D = s
    BY <1>15, <2>1
  <2>4. w <= NTOA_BUFFER_SIZE
    BY <1>9, <1>19
  <2>5. J = sg \o (pre \o (Copies("0", w - Len(sg) - Len(pre) - Len(s)) \o s))
    BY <1>16, <1>19, <2>1, <2>3
  <2>6. CASE HASH \notin fl
    <3>1. Len(pre) = 0 /\ pre = <<>>
      BY <1>6, <2>6 DEF pre, HashText
    <3>2. Len(sg) + Len(s) <= NTOA_BUFFER_SIZE
      BY <1>13, <2>3, <3>1
    <3> DEFINE o == _ntoa_format(digits, neg, base, 0, w, fl)
               z == Copies("0", w - Len(sg) - Len(s))
    <3>3. o = sg \o (z \o s)
      BY <1>1, <1>3, <1>4, <1>14, <2>2, <2>4, <2>6, <3>2, ZeroNumber DEF sg
    <3>4. o = out
      BY <2>3
    <3> HIDE DEF o, out
    <3>5. w - Len(sg) - Len(pre) - Len(s) = w - Len(sg) - Len(s) /\ w - Len(sg) - Len(s) \in Int
      BY <1>1, <1>13, <3>1
    <3>6. Copies("0", w - Len(sg) - Len(pre) - Len(s)) = z
      BY <3>5
    <3>7. z \o s \in Seq(Symbol)
      <4> DEFINE e == w - Len(sg) - Len(s)
      <4>1. e \in Int /\ "0" \in Symbol
        BY <3>5, SymbolsIn
      <4> HIDE DEF e
      <4>2. Copies("0", e) \in Seq(Symbol)
        BY <4>1, CopiesAre
      <4>3. z \in Seq(Symbol) /\ s \in Seq(Symbol)
        BY <1>7, <4>2 DEF e
      <4> HIDE DEF z
      <4> QED
        BY <4>3, ConcatProperties
    <3> HIDE DEF z
    <3>8. pre \o (z \o s) = z \o s
      BY <3>1, <3>7, NothingInFront
    <3> QED
      BY <1>5, <1>6, <1>7, <1>12, <2>5, <3>3, <3>4, <3>6, <3>8 DEF J, D, prog
  <2>7. CASE HASH \in fl
    <3>1. Has(piece, "#") /\ piece.spec \in {"x", "X", "o", "b"} /\ v # 0 /\ ~IsSigned(piece)
      BY <1>10, <2>7 DEF Integers_, IsSigned
    <3>2. ~neg /\ PLUS \notin fl /\ SPACE \notin fl
      BY <1>3, <1>10, <3>1
    <3>3. Len(sg) = 0 /\ sg = <<>>
      BY <1>6, <3>2 DEF sg, SignText
    <3>4. w < Len(s) \/ IF base = 2 THEN w = Len(s) + 1 ELSE w >= Len(s) + Len(pre)
      <4>1. w < Len(f) \/ IF piece.spec = "b" THEN w = Len(f) + 1 ELSE w >= Len(f) + Len(sg \o pre)
        BY <1>9, <1>19, <2>1, <3>1
      <4>2. Len(sg \o pre) = Len(pre)
        BY <1>13, <3>3
      <4>3. base = 2 <=> piece.spec = "b"
        BY <3>1 DEF base, Base
      <4> QED
        BY <2>3, <4>1, <4>2, <4>3
    <3>5. Len(pre) + Len(s) <= NTOA_BUFFER_SIZE
      BY <1>13, <2>3, <3>3
    <3> DEFINE o == _ntoa_format(digits, neg, base, 0, w, fl)
               z == Copies("0", w - Len(pre) - Len(s))
    <3>6. o = pre \o (z \o s)
      <4>1. pre = HashText(base, fl) /\ z = Copies("0", w - Len(pre) - Len(s))
        BY DEF pre
      <4> HIDE DEF z
      <4>2. Prefixed(digits, s, base, w, fl, pre, z)
        BY <1>1, <1>4, <1>14, <2>2, <2>3, <2>4, <2>7, <3>2, <3>4, <3>5, <4>1 DEF Prefixed
      <4> QED
        BY <1>3, <3>2, <4>2, HashedNumber
    <3>7. o = out
      BY <2>3
    <3> HIDE DEF o, out
    <3>8. w - Len(sg) - Len(pre) - Len(s) = w - Len(pre) - Len(s) /\ w - Len(pre) - Len(s) \in Int
      BY <1>1, <1>13, <3>3
    <3>9. Copies("0", w - Len(sg) - Len(pre) - Len(s)) = z
      BY <3>8
    <3>10. z \in Seq(Symbol)
      <4> DEFINE e == w - Len(pre) - Len(s)
      <4>1. e \in Int /\ "0" \in Symbol
        BY <3>8, SymbolsIn
      <4> HIDE DEF e
      <4>2. Copies("0", e) \in Seq(Symbol)
        BY <4>1, CopiesAre
      <4> QED
        BY <4>2 DEF e
    <3> HIDE DEF z
    <3> DEFINE x == pre \o (z \o s)
    <3>11. x \in Seq(Symbol)
      <4>1. pre \in Seq(Symbol) /\ s \in Seq(Symbol)
        BY <1>6, <1>7
      <4> QED
        BY <3>10, <4>1, Regroup
    <3> HIDE DEF x
    <3>12. sg \o x = x
      BY <3>3, <3>11, NothingInFront
    <3> QED
      BY <1>5, <1>6, <1>7, <1>12, <2>5, <3>6, <3>7, <3>9, <3>12 DEF J, D, prog, x
  <2> QED
    BY <2>6, <2>7
<1> QED
  BY <1>17, <1>18, <1>19

-----------------------------------------------------------------------------
(* printf: what each conversion prints is what the standard says           *)

LEMMA ReadFlagsAre ==
  ASSUME NEW piece, WellFormed(piece), Read(piece)
  PROVE  /\ (LEFT \in flags) <=> OnLeft(piece)
         /\ ("PRECISION" \in flags) <=> Precise(piece)
<1>1. flags = PointFlags(piece) \cup LengthOf(piece)
  BY DEF Read
<1>2. LengthOf(piece) \subseteq {"SHORT", "CHAR", "LONG", "LONG_LONG"}
  BY DEF LengthOf
<1>3. ("-" \in FlagSet(piece) <=> Has(piece, "-")) /\ "PRECISION" \notin FlagSet(piece)
  <2>1. /\ FlagSet(piece) \subseteq FlagChars
        /\ \A c \in FlagChars : c \in FlagSet(piece) <=> Has(piece, c)
    BY FieldsAre
  <2>2. FlagChars = {"0", "-", "+", " ", "#"}
    BY DEF FlagChars, ZEROPAD, LEFT, PLUS, SPACE, HASH
  <2> QED
    BY <2>1, <2>2
<1> DEFINE L == LengthOf(piece)
           F == FlagSet(piece)
<1> HIDE DEF L, F
<1>4. flags = ((F \cup (IF piece.width.n < 0 THEN {"-"} ELSE {})) \cup (IF Precise(piece) THEN {"PRECISION"} ELSE {})) \cup L
  BY <1>1 DEF PointFlags, WidthFlags, LEFT, L, F
<1>5. L \subseteq {"SHORT", "CHAR", "LONG", "LONG_LONG"}
  BY <1>2 DEF L
<1>6. "-" \in flags <=> "-" \in F \/ piece.width.n < 0
  BY <1>4, <1>5
<1>7. "PRECISION" \in flags <=> "PRECISION" \in F \/ Precise(piece)
  BY <1>4, <1>5
<1> QED
  BY <1>3, <1>6, <1>7 DEF F, OnLeft, LEFT

LEMMA JustifiedText ==
  ASSUME NEW piece, WidthOf(piece) \in Nat, NEW before \in Seq(Symbol), NEW body \in Seq(Symbol)
  PROVE  Justified(piece, before, body) \in Seq(Symbol)
<1> DEFINE missing == WidthOf(piece) - Len(before) - Len(body)
           blanks == Copies(" ", missing)
           zeros == Copies("0", missing)
<1>1. missing \in Int
  BY LenProperties
<1>2. Justified(piece, before, body)
        = IF OnLeft(piece) THEN before \o body \o blanks
          ELSE IF WithZeros(piece) /\ piece.spec \notin {"c", "s"} THEN before \o zeros \o body
          ELSE blanks \o before \o body
  BY DEF Justified
<1> HIDE DEF missing
<1>3. blanks \in Seq(Symbol) /\ zeros \in Seq(Symbol)
  <2>1. "0" \in Symbol /\ " " \in Symbol
    BY SymbolsIn
  <2> QED
    BY <1>1, <2>1, CopiesAre
<1> HIDE DEF blanks, zeros
<1>4. \A a, b, c \in Seq(Symbol) : a \o b \o c \in Seq(Symbol)
  OBVIOUS
<1> QED
  BY <1>2, <1>3, <1>4

\* The cases c and s.
LEMMA PaddedIs ==
  ASSUME NEW piece, WellFormed(piece), Read(piece), piece.spec \in {"c", "s"}, NEW s \in Seq(Symbol)
  PROVE  Padded(s) = Justified(piece, <<>>, s) /\ Justified(piece, <<>>, s) \in Seq(Symbol)
<1> DEFINE w == WidthOf(piece)
           blanks == Copies(" ", w - Len(s))
           e == <<>>
<1>1. w \in Nat /\ width = w /\ Len(s) \in Nat
  BY FieldsAre, LenProperties DEF Read
<1>2. (LEFT \in flags) <=> OnLeft(piece)
  BY ReadFlagsAre
<1>3. Padded(s) = IF OnLeft(piece) THEN s \o blanks ELSE blanks \o s
  BY <1>1, <1>2 DEF Padded
<1>4. w - Len(e) - Len(s) = w - Len(s) /\ w - Len(s) \in Int
  <2>1. Len(e) = 0
    OBVIOUS
  <2> HIDE DEF e, w
  <2> QED
    BY <1>1, <2>1
<1>5. Justified(piece, e, s) = IF OnLeft(piece) THEN e \o s \o blanks ELSE blanks \o e \o s
  <2>1. Justified(piece, e, s) =
          LET missing == w - Len(e) - Len(s) IN
          IF OnLeft(piece) THEN e \o s \o Copies(" ", missing)
          ELSE IF WithZeros(piece) /\ piece.spec \notin {"c", "s"}
          THEN e \o Copies("0", missing) \o s
          ELSE Copies(" ", missing) \o e \o s
    BY DEF Justified
  <2> HIDE DEF e, w
  <2> QED
    BY <1>4, <2>1
<1>6. blanks \in Seq(Symbol)
  <2> DEFINE n == w - Len(s)
  <2>1. n \in Int /\ " " \in Symbol
    BY <1>4, SymbolsIn
  <2> HIDE DEF n
  <2>2. Copies(" ", n) \in Seq(Symbol)
    BY <2>1, CopiesAre
  <2> QED
    BY <2>2 DEF n
<1> HIDE DEF blanks
<1>7. e \o s = s /\ blanks \o e = blanks
  BY <1>6, NothingInFront
<1>8. Justified(piece, e, s) \in Seq(Symbol)
  <2>1. e \in Seq(Symbol)
    BY EmptySeq
  <2> HIDE DEF e
  <2> QED
    BY <1>1, <2>1, JustifiedText
<1> QED
  BY <1>3, <1>5, <1>7, <1>8

LEMMA CutIs ==
  ASSUME NEW piece, WellFormed(piece), Read(piece), NEW s \in Seq(Symbol)
  PROVE  /\ Cut(s) = (IF Precise(piece) THEN SubSeq(s, 1, Smaller(Len(s), piece.precision.n)) ELSE s)
         /\ Cut(s) \in Seq(Symbol)
<1>1. ("PRECISION" \in flags) <=> Precise(piece)
  BY ReadFlagsAre
<1>2. precision = piece.precision.n /\ precision \in Nat
  BY FieldsAre DEF Read
<1>3. Cut(s) = (IF Precise(piece) THEN SubSeq(s, 1, Smaller(Len(s), piece.precision.n)) ELSE s)
  BY <1>1, <1>2 DEF Cut
<1> DEFINE m == Smaller(Len(s), piece.precision.n)
<1>4. m \in Nat /\ m <= Len(s) /\ Len(s) \in Nat
  BY <1>2, LenProperties DEF Smaller
<1> HIDE DEF m
<1>5. SubSeq(s, 1, m) \in Seq(Symbol)
  <2>1. 1 \in Int /\ m \in Int
    BY <1>4
  <2>2. \A i \in 1 .. m : s[i] \in Symbol
    <3>1. \A i \in 1 .. m : i \in 1 .. Len(s)
      BY <1>4
    <3> QED
      BY <3>1, ElementOfSeq
  <2> QED
    BY <2>1, <2>2, SubSeqProperties
<1> QED
  BY <1>3, <1>5 DEF m

LEMMA PointerRendered ==
  ASSUME NEW piece, WellFormed(piece), Read(piece), piece.spec = "p", call.program \in {"kernel", "loader"},
         piece.flags = <<>>, piece.width.by = "none", ~Precise(piece),
         Len(Digits(piece, call.program)) <= NTOA_BUFFER_SIZE
  PROVE  LET prog == call.program body == Digits(piece, prog) IN
         /\ Pointer(piece.value) = Justified(piece, SignOf(piece, prog) \o Prefix(piece, prog), body)
         /\ SignOf(piece, prog) \in Seq(Symbol) /\ Prefix(piece, prog) \in Seq(Symbol) /\ body \in Seq(Symbol)
<1> DEFINE prog == call.program
           v == Magnitude(piece, prog)
           f == Figures(piece, prog)
           D == Digits(piece, prog)
           P == POINTER_DIGITS[prog]
           fl == flags \cup {ZEROPAD, "UPPERCASE"}
           no == FALSE
           nothing == <<>>
           J == Justified(piece, SignOf(piece, prog) \o Prefix(piece, prog), D)
<1>1. piece.value \in Nat /\ ~IsSigned(piece) /\ piece.spec \notin {"c", "s"}
  BY DEF WellFormed, IsSigned, Integers_
<1>2. P \in Nat /\ P > 0 /\ NTOA_BUFFER_SIZE \in Nat
  BY PrintfAssumption
<1>3. piece.width.n = 0 /\ WidthOf(piece) = 0
  BY DEF WellFormed, WidthOf
<1>4. \A c : ~Has(piece, c)
  BY DEF Has
<1>5. ~OnLeft(piece) /\ ~WithZeros(piece)
  BY <1>3, <1>4 DEF OnLeft, WithZeros
<1>6. SignOf(piece, prog) = nothing /\ Prefix(piece, prog) = nothing
  BY <1>1, <1>4 DEF SignOf, Prefix
<1>7. /\ LEFT \notin fl /\ ZEROPAD \in fl /\ HASH \notin fl /\ "PRECISION" \notin fl
      /\ PLUS \notin fl /\ SPACE \notin fl /\ "UPPERCASE" \in fl
  <2>1. FlagSet(piece) = {}
    BY DEF FlagSet
  <2>2. flags = LengthOf(piece)
    BY <1>3, <2>1 DEF Read, PointFlags, WidthFlags
  <2>3. LengthOf(piece) \subseteq {"SHORT", "CHAR", "LONG", "LONG_LONG"}
    BY DEF LengthOf
  <2> QED
    BY <2>2, <2>3 DEF LEFT, ZEROPAD, HASH, PLUS, SPACE
<1>8. precision = 0
  BY FieldsAre DEF Read
<1>9. v = Unsigned(piece.value, ULONG_MAX[prog]) /\ v \in 0 .. ULLONG_MAX
  <2>1. Number(piece, prog) = Unsigned(piece.value, ULONG_MAX[prog]) /\ Number(piece, prog) \in Int /\ Number(piece, prog) >= 0
        /\ v \in 0 .. ULLONG_MAX
    BY <1>1, NumberIs
  <2>2. v = Number(piece, prog)
    BY <2>1 DEF Magnitude
  <2> QED
    BY <2>1, <2>2
<1>10. f = Numeral(16, Uppercase)[v] /\ f \in Seq(Symbol) /\ Len(f) >= 1 /\ Len(f) \in Nat
  <2>1. /\ f = Numeral(BaseOf(piece), LettersOf(piece))[v] /\ f \in Seq(Symbol) /\ Len(f) >= 1
    BY <1>1, FiguresAre
  <2>2. BaseOf(piece) = 16 /\ LettersOf(piece) = Uppercase
    BY DEF BaseOf, LettersOf
  <2> HIDE DEF f, v
  <2> QED
    BY <2>1, <2>2, LenProperties
<1>11. D = Copies("0", P - Len(f)) \o f
  BY <1>2 DEF Digits, Least
<1>12. no \in BOOLEAN
  OBVIOUS
<1>13. ~no
  OBVIOUS
<1>14. Pointer(piece.value) = _ntoa_long(v, no, 16, 0, P, fl)
  BY <1>8, <1>9 DEF Pointer
<1>15. nothing \in Seq(Symbol) /\ Len(nothing) = 0 /\ 16 \in Bases
  BY EmptySeq DEF Bases
<1>16. Len(D) <= NTOA_BUFFER_SIZE
  OBVIOUS
<1> HIDE DEF v, f, D, P, fl, no, nothing
<1> DEFINE z == Copies("0", P - Len(f))
<1>17. z \in Seq(Symbol) /\ Len(z) = (IF P - Len(f) > 0 THEN P - Len(f) ELSE 0)
  <2> DEFINE n == P - Len(f)
             c == "0"
  <2>1. n \in Int
    BY <1>2, <1>10
  <2>2. c \in Symbol
    BY SymbolsIn
  <2> HIDE DEF n, c
  <2>3. Copies(c, n) \in Seq(Symbol) /\ Len(Copies(c, n)) = (IF n > 0 THEN n ELSE 0)
    BY <2>1, <2>2, CopiesAre
  <2> QED
    BY <2>3 DEF n, c
<1>18. D = z \o f
  BY <1>11
<1> HIDE DEF z
<1>19. D \in Seq(Symbol) /\ Len(D) = Len(z) + Len(f)
  <2>1. z \in Seq(Symbol) /\ f \in Seq(Symbol)
    BY <1>10, <1>17
  <2>2. z \o f \in Seq(Symbol) /\ Len(z \o f) = Len(z) + Len(f)
    BY <2>1, ConcatProperties
  <2> QED
    BY <1>18, <2>2
<1>20. P <= NTOA_BUFFER_SIZE /\ Len(f) <= NTOA_BUFFER_SIZE /\ Len(D) \in Nat /\ Len(D) > 0
  <2> DEFINE x == Len(D)
             y == Len(f)
             l == Len(z)
  <2>1. l = (IF P - y > 0 THEN P - y ELSE 0) /\ x = l + y /\ y \in Nat /\ y >= 1 /\ x <= NTOA_BUFFER_SIZE
    BY <1>10, <1>16, <1>17, <1>19
  <2> HIDE DEF x, y, l
  <2>2. P <= NTOA_BUFFER_SIZE /\ y <= NTOA_BUFFER_SIZE /\ x \in Nat /\ x > 0
    BY <1>2, <2>1
  <2> QED
    BY <2>2 DEF x, y
<1> DEFINE digits == DigitsOf(v, 16, fl)
<1>21. Backwards(digits, f)
  <2> DEFINE letters == Uppercase
             base == 16
  <2>1. letters = Uppercase /\ base \in Bases
    BY <1>15
  <2>2. f = Numeral(base, letters)[v]
    BY <1>10
  <2>3. digits = DigitsOf(v, base, fl)
    OBVIOUS
  <2> HIDE DEF letters, base, digits
  <2>4. Len(Numeral(base, letters)[v]) <= NTOA_BUFFER_SIZE
    BY <1>20, <2>2
  <2>5. Backwards(DigitsOf(v, base, fl), Numeral(base, letters)[v])
    BY <1>7, <1>9, <2>1, <2>4, DigitsAre
  <2> QED
    BY <2>2, <2>3, <2>5
<1>22. _ntoa_long(v, no, 16, 0, P, fl) = _ntoa_format(digits, no, 16, 0, P, fl)
  <2>1. (IF v = 0 THEN fl \ {HASH} ELSE fl) = fl
    BY <1>7
  <2>2. (IF "PRECISION" \in fl /\ v = 0 THEN <<>> ELSE digits) = digits
    BY <1>7
  <2> QED
    BY <2>1, <2>2 DEF _ntoa_long
<1> HIDE DEF digits
<1>23. SignText(no, fl) = nothing
  BY <1>7, <1>13 DEF SignText, nothing
<1>24. _ntoa_format(digits, no, 16, 0, P, fl) = D
  <2> DEFINE sg == SignText(no, fl)
             base == 16
             o == _ntoa_format(digits, no, base, 0, P, fl)
  <2>1. Len(sg) = 0
    BY <1>15, <1>23
  <2>2. Len(sg) + Len(f) <= NTOA_BUFFER_SIZE
    <3> HIDE DEF sg
    <3> QED
      BY <1>10, <1>20, <2>1
  <2>3. base \in Bases
    BY <1>15
  <2> HIDE DEF base
  <2>4. P \in Nat /\ P <= NTOA_BUFFER_SIZE
    BY <1>2, <1>20
  <2>5. LEFT \notin fl /\ ZEROPAD \in fl /\ HASH \notin fl
    BY <1>7
  <2>6. o = sg \o (Copies("0", P - Len(sg) - Len(f)) \o f)
    BY <1>12, <1>21, <2>3, <2>2, <2>4, <2>5, ZeroNumber
  <2>7. P - Len(sg) - Len(f) = P - Len(f)
    <3> HIDE DEF sg
    <3> QED
      BY <1>2, <1>10, <2>1
  <2>8. Copies("0", P - Len(sg) - Len(f)) = z
    BY <2>7 DEF z
  <2>9. o = nothing \o D
    BY <1>18, <1>23, <2>6, <2>8
  <2>10. nothing \o D = D
    BY <1>19, NothingInFront DEF nothing
  <2> QED
    BY <2>9, <2>10 DEF base
<1>25. J = D
  <2> DEFINE w == WidthOf(piece)
             before == nothing \o nothing
             t == nothing \o (nothing \o D)
             blanks == Copies(" ", w - Len(t))
             fill == Copies("0", w - Len(nothing) - Len(nothing) - Len(D))
  <2>1. w = 0 /\ w \in Nat
    BY <1>3
  <2>2. Arranged(piece, nothing, nothing, D, w, t, before, blanks, fill)
    BY <1>1, <1>15, <1>19, <2>1 DEF Arranged
  <2>3. t = D
    BY <1>19, NothingInFront DEF nothing
  <2>4. blanks = <<>>
    <3>1. ~(w - Len(t) > 0)
      <4> HIDE DEF w, t
      <4> QED
        BY <1>20, <2>1, <2>3
    <3> HIDE DEF w, t
    <3> QED
      BY <3>1 DEF Copies
  <2>5. J = Justified(piece, before, D)
    BY <1>6
  <2> HIDE DEF w, before, t, blanks, fill, J
  <2>6. Justified(piece, before, D) = blanks \o t
    BY <1>5, <2>2, JustifiedAs
  <2>7. <<>> \o D = D
    BY <1>19, NothingInFront
  <2> QED
    BY <2>3, <2>4, <2>5, <2>6, <2>7
<1> QED
  BY <1>6, <1>14, <1>15, <1>19, <1>22, <1>24, <1>25 DEF D

\* What the code converts at a specifier is what the standard says.
LEMMA DirectiveRendered ==
  ASSUME NEW piece, ~IsLit(piece), Conforming(piece, call.program), Read(piece),
         call.program \in {"kernel", "loader"}, piece.spec # "%"
  PROVE  /\ piece.spec \in Integers_ \cup {"p", "c", "s"}
         /\ Converted(piece.spec, piece.value) = Rendering(piece, call.program)
         /\ Rendering(piece, call.program) \in Seq(Symbol)
<1> DEFINE prog == call.program
           c == piece.spec
           D == Digits(piece, prog)
           before == SignOf(piece, prog) \o Prefix(piece, prog)
<1>1. WellFormed(piece)
  BY DEF Conforming
<1>2. c \in Integers_ \cup {"p", "c", "s"} /\ WidthOf(piece) \in Nat
  BY <1>1, FieldsAre DEF WellFormed
<1>3. /\ c \in Integers_ => Converted(c, piece.value) = Integer(c, piece.value)
      /\ c = "p" => Converted(c, piece.value) = Pointer(piece.value)
      /\ c = "c" => Converted(c, piece.value) = Padded(<<piece.value>>)
      /\ c = "s" => Converted(c, piece.value) = Padded(Cut(piece.value))
  BY DEF Converted, Integers_
<1>4. /\ c \in Integers_ \cup {"p"} => Rendering(piece, prog) = Justified(piece, before, D)
      /\ c = "c" => Rendering(piece, prog) = Justified(piece, <<>>, <<piece.value>>)
      /\ c = "s" => Rendering(piece, prog)
                      = Justified(piece, <<>>, IF Precise(piece)
                                               THEN SubSeq(piece.value, 1, Smaller(Len(piece.value), piece.precision.n))
                                               ELSE piece.value)
  BY DEF Rendering, Integers_
<1>5. CASE c \in Integers_
  <2>1. AsTheStandard(piece, prog)
    BY <1>5 DEF Conforming
  <2>2. /\ Integer(c, piece.value) = Justified(piece, before, D)
        /\ SignOf(piece, prog) \in Seq(Symbol) /\ Prefix(piece, prog) \in Seq(Symbol) /\ D \in Seq(Symbol)
    BY <1>1, <1>5, <2>1, IntegerRendered
  <2>3. before \in Seq(Symbol)
    BY <2>2, Regroup
  <2> HIDE DEF before, D
  <2>4. Justified(piece, before, D) \in Seq(Symbol)
    BY <1>2, <2>2, <2>3, JustifiedText
  <2> QED
    BY <1>2, <1>3, <1>4, <1>5, <2>2, <2>4
<1>6. CASE c = "p"
  <2>1. piece.flags = <<>> /\ piece.width.by = "none" /\ ~Precise(piece) /\ Len(D) <= NTOA_BUFFER_SIZE
    BY <1>6 DEF Conforming
  <2>2. /\ Pointer(piece.value) = Justified(piece, before, D)
        /\ SignOf(piece, prog) \in Seq(Symbol) /\ Prefix(piece, prog) \in Seq(Symbol) /\ D \in Seq(Symbol)
    BY <1>1, <1>6, <2>1, PointerRendered
  <2>3. before \in Seq(Symbol)
    BY <2>2, Regroup
  <2> HIDE DEF before, D
  <2>4. Justified(piece, before, D) \in Seq(Symbol)
    BY <1>2, <2>2, <2>3, JustifiedText
  <2> QED
    BY <1>2, <1>3, <1>4, <1>6, <2>2, <2>4
<1>7. CASE c = "c"
  <2>1. piece.value \in Symbol
    <3>1. piece.value \in STRING
      BY <1>1, <1>7 DEF WellFormed, Integers_
    <3> QED
      BY <3>1, SymbolsIn
  <2> DEFINE s == <<piece.value>>
  <2>2. s \in Seq(Symbol)
    BY <2>1, ReverseOne
  <2>3. Converted(c, piece.value) = Padded(s) /\ Rendering(piece, prog) = Justified(piece, <<>>, s)
    BY <1>3, <1>4, <1>7
  <2> HIDE DEF s
  <2>4. Padded(s) = Justified(piece, <<>>, s) /\ Justified(piece, <<>>, s) \in Seq(Symbol)
    BY <1>1, <1>7, <2>2, PaddedIs
  <2> QED
    BY <1>2, <2>3, <2>4
<1>8. CASE c = "s"
  <2> DEFINE s == piece.value
             r == IF Precise(piece) THEN SubSeq(s, 1, Smaller(Len(s), piece.precision.n)) ELSE s
  <2>1. s \in Seq(Symbol)
    <3>1. s \in Seq(STRING)
      BY <1>1, <1>8 DEF WellFormed, Integers_
    <3>2. STRING \subseteq Symbol
      BY SymbolsIn
    <3> QED
      BY <3>1, <3>2, SeqMonotonic
  <2>2. Converted(c, s) = Padded(Cut(s)) /\ Rendering(piece, prog) = Justified(piece, <<>>, r)
    BY <1>3, <1>4, <1>8
  <2>3. Cut(s) = r /\ Cut(s) \in Seq(Symbol)
    BY <1>1, <2>1, CutIs
  <2> HIDE DEF r
  <2>4. r \in Seq(Symbol)
    BY <2>3
  <2>5. Padded(r) = Justified(piece, <<>>, r) /\ Justified(piece, <<>>, r) \in Seq(Symbol)
    BY <1>1, <1>8, <2>4, PaddedIs
  <2> QED
    BY <1>2, <2>2, <2>3, <2>5
<1> QED
  BY <1>2, <1>5, <1>6, <1>7, <1>8

-----------------------------------------------------------------------------
(* printf: how the fields of a directive are read                          *)

\* s is text and its first character is none of C.
Avoids(s, C) == s \in Seq(Symbol) /\ s # <<>> /\ s[1] \notin C

LEMMA HeadIs ==
  ASSUME NEW s, NEW C, Avoids(s, C)
  PROVE  Head(s) = s[1] /\ Head(s) \notin C
<1>1. s \in Seq(Symbol) /\ s # <<>> /\ s[1] \notin C
  BY DEF Avoids
<1>2. Head(s) = s[1]
  BY <1>1, HeadTailProperties
<1> QED
  BY <1>1, <1>2

\* A width or precision, and what is behind it.
IsField(f) ==
  /\ f.by \in {"none", "number", "star", "point"}
  /\ f.by = "number" => f.n \in 0 .. ULLONG_MAX

LEMMA FieldRead ==
  ASSUME NEW f, IsField(f), NEW b, Avoids(b, _is_digit \cup {"*"})
  PROVE  LET s == Field(f) \o b IN
         /\ s \in Seq(Symbol) /\ s # <<>> /\ Field(f) \in Seq(Symbol)
         /\ f.by \in {"none", "point"} => s = b /\ Head(s) \notin _is_digit \cup {"*"}
         /\ f.by = "star" => Head(s) = "*" /\ Head(s) \notin _is_digit /\ Tail(s) = b
         /\ f.by = "number" =>
              /\ Head(s) \in _is_digit /\ Head(s) # "*" /\ (f.n > 0 => Head(s) # "0")
              /\ _atoi(s) = f.n
              /\ After(s, Leading(s, _is_digit)) = b
<1> DEFINE s == Field(f) \o b
<1>1. b \in Seq(Symbol) /\ b # <<>> /\ b[1] \notin _is_digit \cup {"*"}
  BY DEF Avoids
<1>2. "*" \notin _is_digit
  BY DecimalIs
<1>3. CASE f.by \in {"none", "point"}
  <2>1. Field(f) = <<>>
    BY <1>3 DEF Field
  <2>2. <<>> \o b = b
    BY <1>1, NothingInFront
  <2>3. Head(b) \notin _is_digit \cup {"*"}
    BY HeadIs
  <2>4. <<>> \in Seq(Symbol)
    BY EmptySeq
  <2> QED
    BY <1>1, <1>3, <2>1, <2>2, <2>3, <2>4
<1>4. CASE f.by = "star"
  <2>1. Field(f) = <<"*">>
    BY <1>4 DEF Field
  <2>2. "*" \in Symbol
    BY SymbolsIn
  <2> DEFINE c == "*"
  <2> HIDE DEF c
  <2>3. c \in Symbol
    BY <2>2 DEF c
  <2>4. /\ <<c>> \in Seq(Symbol) /\ <<c>> \o b \in Seq(Symbol)
        /\ <<c>> \o b # <<>> /\ Head(<<c>> \o b) = c /\ Tail(<<c>> \o b) = b
    BY <1>1, <2>3, InFront
  <2> QED
    BY <1>2, <1>4, <2>1, <2>4 DEF c
<1>5. CASE f.by = "number"
  <2> DEFINE n == f.n
             T == Numeral(10, Decimal)[n]
  <2>1. Field(f) = T
    BY <1>5 DEF Field
  <2>2. n \in 0 .. ULLONG_MAX
    BY <1>5 DEF IsField
  <2>3. b = <<>> \/ b[1] \notin _is_digit
    BY <1>1
  <2> HIDE DEF n
  <2>4. /\ T \in Seq(Symbol) /\ Len(T) >= 1
        /\ (T \o b)[1] \in _is_digit /\ (n > 0 => (T \o b)[1] # "0")
        /\ _atoi(T \o b) = n
        /\ After(T \o b, Leading(T \o b, _is_digit)) = b
    BY <1>1, <2>2, <2>3, NumberRead
  <2> HIDE DEF T
  <2> DEFINE r == T \o b
  <2>5. r \in Seq(Symbol) /\ Len(r) >= 1
    <3>1. r \in Seq(Symbol) /\ Len(r) = Len(T) + Len(b)
      BY <1>1, <2>4, ConcatProperties
    <3>2. Len(T) \in Nat /\ Len(b) \in Nat
      BY <1>1, <2>4, LenProperties
    <3> QED
      BY <2>4, <3>1, <3>2
  <2>6. r # <<>>
    <3>1. Len(<<>>) = 0
      BY EmptySeq
    <3> HIDE DEF r
    <3> QED
      BY <2>5, <3>1
  <2>7. Head(r) = r[1]
    BY <2>5, <2>6, HeadTailProperties
  <2>8. s = r
    BY <2>1
  <2>9. /\ r[1] \in _is_digit /\ (n > 0 => r[1] # "0") /\ _atoi(r) = n
        /\ After(r, Leading(r, _is_digit)) = b
    BY <2>4
  <2> HIDE DEF r, s
  <2> QED
    BY <1>2, <1>5, <2>1, <2>4, <2>5, <2>6, <2>7, <2>8, <2>9 DEF n, s
<1> QED
  BY <1>3, <1>4, <1>5 DEF IsField

LEMMA FieldsOf ==
  ASSUME NEW piece, WellFormed(piece)
  PROVE  /\ IsField(piece.width) /\ IsField(piece.precision)
         /\ piece.width.by \in {"none", "number", "star"}
         /\ piece.width.by = "number" => piece.width.n > 0
<1>1. UINT_MAX \in 0 .. ULLONG_MAX /\ ULLONG_MAX \in Nat
  BY PrintfAssumption
<1> DEFINE w == piece.width
           pr == piece.precision
<1>2. \/ w.by = "none" /\ w.n = 0
      \/ w.by = "number" /\ w.n \in 1 .. UINT_MAX
      \/ w.by = "star"
  BY DEF WellFormed
<1>3. \/ pr.by \in {"none", "point"}
      \/ pr.by = "number" /\ pr.n \in 0 .. UINT_MAX
      \/ pr.by = "star"
  BY DEF WellFormed
<1> HIDE DEF w, pr
<1>4. IsField(w) /\ w.by \in {"none", "number", "star"} /\ (w.by = "number" => w.n > 0)
  BY <1>1, <1>2 DEF IsField
<1>5. IsField(pr)
  BY <1>1, <1>3 DEF IsField
<1> QED
  BY <1>4, <1>5 DEF w, pr

\* The int that va_arg takes for a width or precision is the one passed.
LEMMA StarIs ==
  ASSUME NEW n \in Int, n <= UINT_MAX \div 2, -n <= UINT_MAX \div 2
  PROVE  Unsigned(n, UINT_MAX) \in Nat /\ Signed(Unsigned(n, UINT_MAX), UINT_MAX) = n
<1>1. UINT_MAX \in 0 .. ULLONG_MAX /\ ULLONG_MAX \in Nat
  BY PrintfAssumption
<1> DEFINE m == UINT_MAX
           u == Unsigned(n, m)
<1>2. m \in Nat
  BY <1>1
<1> HIDE DEF m
<1>3. n <= m \div 2 /\ -n <= m \div 2
  BY DEF m
<1>4. 2 * (m \div 2) <= m
  BY <1>2
<1>5. u = IF n >= 0 THEN n ELSE n + (m + 1)
  BY <1>2, <1>3, <1>4 DEF Unsigned
<1>6. u \in 0 .. m /\ (u <= m \div 2 <=> n >= 0)
  BY <1>2, <1>3, <1>4, <1>5
<1>7. Unsigned(u, m) = u
  BY <1>2, <1>6 DEF Unsigned
<1> HIDE DEF u
<1>8. Signed(u, m) = n
  BY <1>2, <1>5, <1>6, <1>7 DEF Signed
<1> QED
  BY <1>2, <1>6, <1>8 DEF u, m

Specifiers == Integers_ \cup {"p", "c", "s", "%"}
LengthLetters == {"l", "h", "j", "z"}
Marks == FlagChars \cup _is_digit \cup {"*", "."}

\* The characters that are a piece's length.
LengthText(piece) ==
  IF piece.length = "none" THEN <<>>
  ELSE IF piece.length = "hh" THEN <<"h", "h">>
  ELSE IF piece.length = "ll" THEN <<"l", "l">>
  ELSE <<piece.length>>

LEMMA SpecifierIs ==
  ASSUME NEW piece, WellFormed(piece)
  PROVE  /\ piece.spec \in Specifiers /\ piece.spec \in Symbol
         /\ piece.spec \notin Marks /\ piece.spec \notin LengthLetters
<1>1. piece.spec \in Specifiers
  BY DEF WellFormed, Specifiers
<1>2. Specifiers \subseteq Symbol
  BY SymbolsIn DEF Specifiers, Integers_
<1>3. piece.spec \notin LengthLetters
  BY <1>1 DEF Specifiers, Integers_, LengthLetters
<1>4. piece.spec \notin Marks
  BY <1>1, DecimalIs DEF Specifiers, Integers_, Marks, FlagChars, ZEROPAD, LEFT, PLUS, SPACE, HASH
<1> QED
  BY <1>1, <1>2, <1>3, <1>4

LEMMA LengthTextIs ==
  ASSUME NEW piece, WellFormed(piece)
  PROVE  /\ FromLength(piece) = LengthText(piece) \o <<piece.spec>>
         /\ LengthText(piece) \in Seq(Symbol)
<1>1. piece.length \in {"none", "hh", "h", "l", "ll", "j", "z"}
  BY DEF WellFormed
<1>2. {"h", "l", "j", "z"} \subseteq Symbol
  BY SymbolsIn
<1>3. FromLength(piece) = LengthText(piece) \o <<piece.spec>>
  BY <1>1 DEF FromLength, LengthText
<1>4. ASSUME NEW c \in Symbol PROVE <<c>> \in Seq(Symbol) /\ <<c, c>> \in Seq(Symbol)
  BY <1>4
<1>5. <<>> \in Seq(Symbol)
  BY EmptySeq
<1>6. LengthText(piece) \in Seq(Symbol)
  BY <1>1, <1>2, <1>4, <1>5 DEF LengthText
<1> QED
  BY <1>3, <1>6

\* Reading a length, which is the same letter once or twice.
LEMMA LettersRead ==
  ASSUME NEW c \in Symbol, NEW l \in Seq(Symbol), Len(l) \in {1, 2},
         \A k \in 1 .. Len(l) : l[k] = c, NEW b, Avoids(b, {c})
  PROVE  /\ l \o b \in Seq(Symbol) /\ l \o b # <<>> /\ (l \o b)[1] = c
         /\ Leading(l \o b, {c}) = Len(l) /\ After(l \o b, Len(l)) = b
<1> DEFINE s == l \o b
           n == Len(l)
<1>1. b \in Seq(Symbol) /\ b # <<>> /\ b[1] # c
  BY DEF Avoids
<1>2. Len(b) \in Nat
  BY <1>1, LenProperties
<1>3. /\ s \in Seq(Symbol) /\ Len(s) = n + Len(b)
      /\ \A i \in 1 .. n + Len(b) : s[i] = IF i <= n THEN l[i] ELSE b[i - n]
  BY <1>1, ConcatProperties
<1>4. Leading(s, {c}) = Len(l) /\ After(s, Len(l)) = b
  <2>1. \A k \in 1 .. Len(l) : l[k] \in {c}
    OBVIOUS
  <2>2. b = <<>> \/ b[1] \notin {c}
    BY <1>1
  <2> QED
    BY <1>1, <2>1, <2>2, LeadingIs
<1> HIDE DEF s
<1>5. 1 \in 1 .. n + Len(b) /\ 1 \in 1 .. n /\ 1 <= n
  <2>1. n \in {1, 2}
    OBVIOUS
  <2> HIDE DEF n
  <2> QED
    BY <1>2, <2>1
<1>6. s[1] = c
  BY <1>3, <1>5
<1>7. s # <<>>
  <2>1. Len(<<>>) = 0
    BY EmptySeq
  <2> QED
    BY <1>2, <1>3, <2>1
<1> QED
  BY <1>3, <1>4, <1>6, <1>7 DEF s

\* What is behind a precision.
LEMMA LengthRead ==
  ASSUME NEW piece, WellFormed(piece), NEW t \in Seq(Symbol)
  PROVE  LET s == FromLength(piece) \o t b == <<piece.spec>> \o t n == LengthChars(s[1]) IN
         /\ FromLength(piece) \in Seq(Symbol)
         /\ Avoids(s, Marks)
         /\ format = s => After(s, n) = b /\ LengthFlags(s[1], n) = LengthOf(piece)
<1> DEFINE l == LengthText(piece)
           c == piece.spec
           b == <<c>> \o t
           s == FromLength(piece) \o t
           n == LengthChars(s[1])
           len == piece.length
<1>1. c \in Symbol /\ c \notin Marks /\ c \notin LengthLetters
  BY SpecifierIs
<1>2. FromLength(piece) = l \o <<c>> /\ l \in Seq(Symbol)
  BY LengthTextIs
<1>3. len \in {"none", "hh", "h", "l", "ll", "j", "z"}
  BY DEF WellFormed
<1>4. LengthLetters \subseteq Symbol /\ LengthLetters \cap Marks = {}
  <2>1. LengthLetters \subseteq Symbol
    BY SymbolsIn DEF LengthLetters
  <2>2. LengthLetters \cap Marks = {}
    BY DecimalIs DEF LengthLetters, Marks, FlagChars, ZEROPAD, LEFT, PLUS, SPACE, HASH
  <2> QED
    BY <2>1, <2>2
<1> HIDE DEF c
<1>5. <<c>> \in Seq(Symbol) /\ b \in Seq(Symbol) /\ b # <<>> /\ b[1] = c
  BY <1>1, InFront
<1>6. FromLength(piece) \in Seq(Symbol) /\ s = l \o b
  <2> HIDE DEF l
  <2> QED
    BY <1>2, <1>5, Regroup
<1> HIDE DEF b, l, s
<1>7. CASE len = "none"
  <2>1. s = b
    <3>1. l = <<>>
      BY <1>7 DEF l, LengthText
    <3>2. <<>> \o b = b
      BY <1>5, NothingInFront
    <3> QED
      BY <1>6, <3>1, <3>2
  <2>2. s[1] = c /\ n = 0
    BY <1>1, <1>5, <2>1 DEF LengthChars, LengthLetters
  <2>3. After(b, 0) = b
    <3>1. SubSeq(b, 1, Len(b)) = b
      BY <1>5, WholeOf
    <3> QED
      BY <3>1 DEF After
  <2>4. LengthFlags(c, 0) = {}
    BY <1>1 DEF LengthFlags, LengthLetters
  <2>5. LengthOf(piece) = {}
    BY <1>7 DEF LengthOf
  <2>6. Avoids(s, Marks)
    BY <1>1, <1>5, <2>1 DEF Avoids
  <2> HIDE DEF n
  <2> QED
    BY <1>6, <2>1, <2>2, <2>3, <2>4, <2>5, <2>6 DEF n, s, b, c
<1>8. CASE len # "none"
  <2> DEFINE x == IF len = "hh" THEN "h" ELSE IF len = "ll" THEN "l" ELSE len
             m == IF len \in {"hh", "ll"} THEN 2 ELSE 1
  <2>1. x \in LengthLetters /\ m \in {1, 2}
    BY <1>3, <1>8 DEF LengthLetters
  <2>2. Len(l) = m /\ \A k \in 1 .. m : l[k] = x
    <3>1. CASE len \in {"hh", "ll"}
      <4>1. l = <<x, x>> /\ m = 2
        BY <3>1 DEF l, LengthText
      <4> HIDE DEF x, m
      <4> QED
        BY <4>1
    <3>2. CASE len \notin {"hh", "ll"}
      <4>1. l = <<x>> /\ m = 1
        BY <1>8, <3>2 DEF l, LengthText
      <4> HIDE DEF x, m
      <4> QED
        BY <4>1
    <3> QED
      BY <3>1, <3>2
  <2>3. Avoids(b, {x})
    <3>1. x # c
      BY <1>1, <2>1
    <3> QED
      BY <1>5, <3>1 DEF Avoids
  <2>4. x \in Symbol
    BY <1>4, <2>1
  <2>5. \/ len = "hh" /\ x = "h" /\ m = 2
        \/ len = "ll" /\ x = "l" /\ m = 2
        \/ len = "h" /\ x = "h" /\ m = 1
        \/ len = "l" /\ x = "l" /\ m = 1
        \/ len \in {"j", "z"} /\ x = len /\ m = 1
    BY <1>3, <1>8
  <2> HIDE DEF x, m
  <2>6. Len(l) \in {1, 2} /\ \A k \in 1 .. Len(l) : l[k] = x
    BY <2>1, <2>2
  <2>7. /\ l \o b \in Seq(Symbol) /\ l \o b # <<>> /\ (l \o b)[1] = x
        /\ Leading(l \o b, {x}) = Len(l) /\ After(l \o b, Len(l)) = b
    BY <1>2, <2>3, <2>4, <2>6, LettersRead
  <2>8. s \in Seq(Symbol) /\ s # <<>> /\ s[1] = x /\ Leading(s, {x}) = m /\ After(s, m) = b
    BY <1>6, <2>2, <2>7
  <2>9. Smaller(2, m) = m
    BY <2>1 DEF Smaller
  <2>10. format = s => LengthChars(x) = m
    BY <2>5, <2>8, <2>9 DEF LengthChars
  <2>11. LengthFlags(x, m) = LengthOf(piece)
    BY <2>5 DEF LengthFlags, LengthOf
  <2>12. x \notin Marks
    BY <1>4, <2>1
  <2> QED
    BY <1>6, <2>8, <2>10, <2>11, <2>12 DEF s, b, c, Avoids
<1> QED
  BY <1>3, <1>7, <1>8

\* What is behind a width.
LEMMA PrecisionRead ==
  ASSUME NEW piece, WellFormed(piece), NEW t \in Seq(Symbol)
  PROVE  LET s == FromPrecision(piece) \o t b == FromLength(piece) \o t IN
         /\ FromPrecision(piece) \in Seq(Symbol)
         /\ Avoids(s, FlagChars \cup _is_digit \cup {"*"})
         /\ Precise(piece) => s[1] = "." /\ Tail(s) = Field(piece.precision) \o b
         /\ ~Precise(piece) => s = b /\ s[1] # "."
<1> DEFINE c == "."
           f == Field(piece.precision)
           l == FromLength(piece)
           b == l \o t
           s == FromPrecision(piece) \o t
           others == FlagChars \cup _is_digit \cup {"*"}
<1>1. l \in Seq(Symbol) /\ Avoids(b, Marks)
  BY LengthRead
<1>2. others \subseteq Marks /\ "." \in Marks
  BY DEF Marks
<1>3. CASE ~Precise(piece)
  <2>1. FromPrecision(piece) = l
    BY <1>3 DEF FromPrecision, Precise
  <2>2. s = b
    BY <2>1
  <2>3. b \in Seq(Symbol) /\ b # <<>> /\ b[1] \notin others /\ b[1] # "."
    BY <1>1, <1>2 DEF Avoids
  <2> HIDE DEF others, s, b, l
  <2> QED
    BY <1>1, <1>3, <2>1, <2>2, <2>3 DEF Avoids, others, s, b, l
<1>4. CASE Precise(piece)
  <2>1. FromPrecision(piece) = <<c>> \o (f \o l)
    BY <1>4 DEF FromPrecision, Precise
  <2>2. c \in Symbol
    BY SymbolsIn
  <2>3. f \in Seq(Symbol)
    <3>1. IsField(piece.precision)
      BY FieldsOf
    <3>2. Avoids(b, _is_digit \cup {"*"})
      BY <1>1 DEF Avoids, Marks
    <3> HIDE DEF b
    <3> QED
      BY <3>1, <3>2, FieldRead
  <2>4. c \notin others
    BY DecimalIs DEF FlagChars, ZEROPAD, LEFT, PLUS, SPACE, HASH
  <2> DEFINE x == f \o l
             e == <<c>>
  <2> HIDE DEF c, f, l, others, s
  <2>5. l \in Seq(Symbol)
    BY <1>1
  <2>6. x \in Seq(Symbol) /\ x \o t \in Seq(Symbol) /\ x \o t = f \o b
    BY <2>3, <2>5, Regroup
  <2> HIDE DEF x, b
  <2>7. e \in Seq(Symbol) /\ e \o x \in Seq(Symbol)
    BY <2>2, <2>6, InFront
  <2> HIDE DEF e
  <2>8. x \in Seq(Symbol)
    BY <2>6
  <2>9. (e \o x) \o t = e \o (x \o t)
    BY <2>7, <2>8, Regroup
  <2> DEFINE y == x \o t
  <2>10. y \in Seq(Symbol) /\ y = f \o b
    BY <2>6
  <2>11. s = <<c>> \o y
    BY <2>1, <2>9 DEF s, x, e
  <2> HIDE DEF y
  <2>12. /\ <<c>> \o y \in Seq(Symbol)
         /\ <<c>> \o y # <<>> /\ Tail(<<c>> \o y) = y
         /\ (<<c>> \o y)[1] = c
    BY <2>2, <2>10, InFront
  <2>13. FromPrecision(piece) \in Seq(Symbol)
    BY <2>1, <2>7 DEF x, e
  <2> QED
    BY <1>4, <2>4, <2>10, <2>11, <2>12, <2>13 DEF Avoids, s, c, f, b, l, others
<1> QED
  BY <1>3, <1>4

\* What is behind the flags, and a whole directive.
LEMMA WidthRead ==
  ASSUME NEW piece, WellFormed(piece), NEW t \in Seq(Symbol)
  PROVE  LET s == FromWidth(piece) \o t IN
         /\ FromWidth(piece) \in Seq(Symbol)
         /\ Avoids(s, FlagChars)
         /\ s = Field(piece.width) \o (FromPrecision(piece) \o t)
<1> DEFINE f == Field(piece.width)
           fp == FromPrecision(piece)
           b == fp \o t
           s == FromWidth(piece) \o t
           r == f \o b
           by == piece.width.by
<1>1. fp \in Seq(Symbol) /\ Avoids(b, FlagChars \cup _is_digit \cup {"*"})
  BY PrecisionRead
<1>2. IsField(piece.width) /\ by \in {"none", "number", "star"} /\ (by = "number" => piece.width.n > 0)
  BY FieldsOf
<1>3. /\ r \in Seq(Symbol) /\ r # <<>> /\ f \in Seq(Symbol)
      /\ by \in {"none", "point"} => r = b
      /\ by = "star" => Head(r) = "*"
      /\ by = "number" => Head(r) \in _is_digit /\ (piece.width.n > 0 => Head(r) # "0")
  <2>1. Avoids(b, _is_digit \cup {"*"})
    BY <1>1 DEF Avoids
  <2> HIDE DEF b
  <2> QED
    BY <1>2, <2>1, FieldRead
<1>4. Head(r) = r[1]
  <2> HIDE DEF r
  <2> QED
    BY <1>3, HeadTailProperties
<1>5. FromWidth(piece) = f \o fp
  BY DEF FromWidth
<1>6. s = r /\ FromWidth(piece) \in Seq(Symbol)
  <2>1. f \in Seq(Symbol)
    BY <1>3
  <2>2. fp \in Seq(Symbol)
    BY <1>1
  <2> HIDE DEF f, fp
  <2>3. f \o fp \o t = f \o (fp \o t) /\ f \o fp \in Seq(Symbol)
    BY <2>1, <2>2, Regroup
  <2> QED
    BY <1>5, <2>3
<1>7. r[1] \notin FlagChars
  <2>1. CASE by = "none"
    <3>1. r = b
      BY <1>3, <2>1
    <3> HIDE DEF b, r
    <3> QED
      BY <1>1, <3>1 DEF Avoids
  <2>2. CASE by = "star"
    BY <1>3, <1>4, <2>2 DEF FlagChars, ZEROPAD, LEFT, PLUS, SPACE, HASH
  <2>3. CASE by = "number"
    <3>1. r[1] \in _is_digit /\ r[1] # "0"
      BY <1>2, <1>3, <1>4, <2>3
    <3> HIDE DEF r
    <3> QED
      BY <3>1, DecimalIs DEF FlagChars, ZEROPAD, LEFT, PLUS, SPACE, HASH
  <2> QED
    BY <1>2, <2>1, <2>2, <2>3
<1> QED
  BY <1>3, <1>6, <1>7 DEF Avoids

LEMMA DirectiveRead ==
  ASSUME NEW piece, WellFormed(piece), ~IsLit(piece), NEW t \in Seq(Symbol)
  PROVE  LET s == Spelled(piece) \o t y == piece.flags \o (FromWidth(piece) \o t) IN
         /\ Spelled(piece) \in Seq(Symbol) /\ y \in Seq(Symbol)
         /\ s \in Seq(Symbol) /\ s # <<>> /\ Head(s) = "%" /\ Tail(s) = y
<1> DEFINE c == "%"
           f == piece.flags
           w == FromWidth(piece)
           x == f \o w
           y == x \o t
           s == Spelled(piece) \o t
<1>1. w \in Seq(Symbol) /\ c \in Symbol
  BY WidthRead, SymbolsIn
<1>2. f \in Seq(Symbol)
  <2>1. f \in Seq(FlagChars)
    BY DEF WellFormed
  <2>2. FlagChars \subseteq Symbol
    BY SymbolsIn DEF FlagChars, ZEROPAD, LEFT, PLUS, SPACE, HASH
  <2> HIDE DEF f
  <2> QED
    BY <2>1, <2>2, SeqMonotonic
<1>3. Spelled(piece) = <<c>> \o x
  BY DEF Spelled
<1> HIDE DEF c, f, w, s
<1>4. x \in Seq(Symbol) /\ y \in Seq(Symbol) /\ y = f \o (w \o t)
  BY <1>1, <1>2, Regroup
<1> HIDE DEF x
<1> DEFINE e == <<c>>
<1>5. e \in Seq(Symbol) /\ e \o x \in Seq(Symbol)
  BY <1>1, <1>4, InFront
<1> HIDE DEF e
<1>6. x \in Seq(Symbol)
  BY <1>4
<1>7. (e \o x) \o t = e \o y
  BY <1>5, <1>6, Regroup
<1>8. s = <<c>> \o y
  BY <1>3, <1>7 DEF s, e
<1> HIDE DEF y
<1>9. <<c>> \o y \in Seq(Symbol) /\ <<c>> \o y # <<>> /\ Head(<<c>> \o y) = c /\ Tail(<<c>> \o y) = y
  BY <1>1, <1>4, InFront
<1> QED
  BY <1>3, <1>4, <1>5, <1>8, <1>9 DEF s, c, f, w, e

-----------------------------------------------------------------------------
(* printf: the arguments of a directive, and its text                      *)

\* What the arguments can be, and what is left of them within a directive.
Arguments == Nat \cup Symbol \cup Seq(Symbol)
FromValue(piece, u) == ValueOf(piece) \o u
FromStar(piece, u) == StarOf(piece.precision) \o FromValue(piece, u)
FromStars(piece, u) == StarOf(piece.width) \o FromStar(piece, u)

LEMMA OneOrTwo ==
  ASSUME NEW c \in Symbol, NEW d \in Symbol
  PROVE  <<c>> \in Seq(Symbol) /\ <<c, d>> \in Seq(Symbol)
OBVIOUS

LEMMA StringsAreText ==
  ASSUME NEW s \in Seq(STRING)
  PROVE  s \in Seq(Symbol)
<1>1. STRING \subseteq Symbol
  BY SymbolsIn
<1> QED
  BY <1>1, SeqMonotonic

\* What the standard says is text.
LEMMA RenderingText ==
  ASSUME NEW piece, NEW program \in {"kernel", "loader"}, Conforming(piece, program)
  PROVE  Rendering(piece, program) \in Seq(Symbol)
<1> DEFINE r == Rendering(piece, program)
           c == piece.spec
           v == piece.value
           sg == SignOf(piece, program)
           pre == Prefix(piece, program)
           D == Digits(piece, program)
<1>1. CASE IsLit(piece)
  <2>1. piece.lit \in STRING
    BY <1>1 DEF Conforming
  <2>2. piece.lit \in Symbol
    BY <2>1, SymbolsIn
  <2>3. r = <<piece.lit>>
    BY <1>1 DEF Rendering
  <2> QED
    BY <2>2, <2>3
<1>2. CASE ~IsLit(piece)
  <2>1. WellFormed(piece)
    BY <1>2 DEF Conforming
  <2>2. WidthOf(piece) \in Nat /\ piece.precision.n \in Nat /\ (~Precise(piece) => piece.precision.n = 0)
    BY <2>1, FieldsAre
  <2>3. \/ c \in Integers_ \cup {"p"} /\ v \in Nat
        \/ c = "c" /\ v \in STRING
        \/ c = "s" /\ v \in Seq(STRING)
        \/ c = "%"
    BY <2>1 DEF WellFormed
  <2>4. <<>> \in Seq(Symbol)
    BY EmptySeq
  <2>5. CASE c \in Integers_ \cup {"p"} /\ v \in Nat
    <3>1. r = Justified(piece, sg \o pre, D)
      BY <1>2, <2>5 DEF Rendering, Integers_
    <3>2. sg \in Seq(Symbol)
      <4>1. <<"-">> \in Seq(Symbol) /\ <<"+">> \in Seq(Symbol) /\ <<" ">> \in Seq(Symbol)
        BY SymbolsIn, OneOrTwo
      <4> QED
        BY <2>4, <4>1 DEF SignOf
    <3>3. pre \in Seq(Symbol)
      <4>1. "0" \in Symbol
        BY SymbolsIn
      <4>2. c \in Symbol
        BY <2>1, SpecifierIs
      <4>3. pre \in {<<>>, <<"0", c>>, <<"0">>}
        BY DEF Prefix
      <4> DEFINE zero == "0"
      <4>4. zero \in Symbol
        BY <4>1
      <4> HIDE DEF zero, c
      <4>5. <<zero>> \in Seq(Symbol) /\ <<zero, c>> \in Seq(Symbol)
        BY <4>2, <4>4, OneOrTwo
      <4> QED
        BY <2>4, <4>3, <4>5 DEF zero
    <3>4. D \in Seq(Symbol)
      <4>1. CASE c \in Integers_
        BY <2>2, <2>5, <4>1, DigitsText
      <4>2. CASE c = "p"
        <5> DEFINE f == Figures(piece, program)
                   n == POINTER_DIGITS[program] - Len(f)
                   zero == "0"
        <5>1. f \in Seq(Symbol) /\ Len(f) >= 1
          BY <2>5, FiguresAre
        <5>2. D \in {<<>>, Copies(zero, n) \o f}
          BY <4>2 DEF Digits, Least
        <5>3. n \in Int
          <6>1. Len(f) \in Nat /\ POINTER_DIGITS[program] \in Nat
            BY <5>1, LenProperties, PrintfAssumption
          <6> QED
            BY <6>1
        <5>4. zero \in Symbol
          BY SymbolsIn
        <5> HIDE DEF n, f, D, zero
        <5>5. Copies(zero, n) \in Seq(Symbol)
          BY <5>3, <5>4, CopiesAre
        <5>6. Copies(zero, n) \o f \in Seq(Symbol)
          BY <5>1, <5>5, ConcatProperties
        <5> QED
          BY <2>4, <5>2, <5>6 DEF D
      <4> QED
        BY <2>5, <4>1, <4>2
    <3>5. sg \o pre \in Seq(Symbol)
      <4> HIDE DEF sg, pre
      <4> QED
        BY <3>2, <3>3, ConcatProperties
    <3> HIDE DEF r, sg, pre, D
    <3> DEFINE before == sg \o pre
    <3> HIDE DEF before
    <3>6. Justified(piece, before, D) \in Seq(Symbol)
      BY <2>2, <3>4, <3>5, JustifiedText DEF before
    <3> QED
      BY <3>1, <3>6 DEF r, before
  <2>6. CASE c = "c" /\ v \in STRING
    <3> DEFINE e == <<>>
               body == <<v>>
    <3>1. r = Justified(piece, e, body)
      BY <1>2, <2>6 DEF Rendering
    <3>2. v \in Symbol
      BY <2>6, SymbolsIn
    <3>3. body \in Seq(Symbol) /\ e \in Seq(Symbol)
      BY <2>4, <3>2
    <3> HIDE DEF r, e, body
    <3>4. Justified(piece, e, body) \in Seq(Symbol)
      BY <2>2, <3>3, JustifiedText
    <3> QED
      BY <3>1, <3>4 DEF r
  <2>7. CASE c = "s" /\ v \in Seq(STRING)
    <3> DEFINE e == <<>>
               m == Smaller(Len(v), piece.precision.n)
               body == IF Precise(piece) THEN SubSeq(v, 1, m) ELSE v
    <3>1. r = Justified(piece, e, body)
      BY <1>2, <2>7 DEF Rendering
    <3>2. v \in Seq(Symbol) /\ Len(v) \in Nat
      BY <2>7, StringsAreText, LenProperties
    <3>3. m \in 0 .. Len(v)
      BY <2>2, <3>2 DEF Smaller
    <3>4. SubSeq(v, 1, m) \in Seq(Symbol)
      <4>1. \A i \in 1 .. m : i \in 1 .. Len(v)
        BY <3>2, <3>3
      <4> HIDE DEF m, v
      <4> QED
        BY <3>2, <3>3, <4>1, SubSeqProperties
    <3>5. body \in Seq(Symbol) /\ e \in Seq(Symbol)
      BY <2>4, <3>2, <3>4
    <3> HIDE DEF r, e, body
    <3>6. Justified(piece, e, body) \in Seq(Symbol)
      BY <2>2, <3>5, JustifiedText
    <3> QED
      BY <3>1, <3>6 DEF r
  <2>8. CASE c = "%"
    <3>1. r = <<"%">>
      BY <1>2, <2>8 DEF Rendering
    <3>2. "%" \in Symbol
      BY SymbolsIn
    <3> QED
      BY <3>1, <3>2
  <2> QED
    BY <2>3, <2>5, <2>6, <2>7, <2>8
<1> QED
  BY <1>1, <1>2

\* The arguments of a directive.
LEMMA StarTaken ==
  ASSUME NEW f, f.by = "star" => f.n \in Int /\ f.n <= UINT_MAX \div 2 /\ -f.n <= UINT_MAX \div 2
  PROVE  StarOf(f) \in Seq(Arguments)
<1>1. CASE f.by = "star"
  <2>1. Unsigned(f.n, UINT_MAX) \in Nat
    BY <1>1, StarIs
  <2> QED
    BY <1>1, <2>1 DEF StarOf, Arguments
<1>2. CASE f.by # "star"
  BY <1>2, EmptySeq DEF StarOf
<1> QED
  BY <1>1, <1>2

LEMMA StarsAre ==
  ASSUME NEW piece, WellFormed(piece)
  PROVE  /\ piece.width.by = "star" => /\ piece.width.n \in Int /\ piece.width.n <= UINT_MAX \div 2
                                       /\ -piece.width.n <= UINT_MAX \div 2
         /\ piece.precision.by = "star" => /\ piece.precision.n \in Int /\ piece.precision.n <= UINT_MAX \div 2
                                           /\ -piece.precision.n <= UINT_MAX \div 2 /\ piece.precision.n >= 0
<1> DEFINE w == piece.width
           pr == piece.precision
           h == UINT_MAX \div 2
<1>1. UINT_MAX \in Nat
  BY PrintfAssumption
<1>2. h \in Nat
  BY <1>1
<1>3. w.by = "star" => w.n \in -h .. h
  BY DEF WellFormed
<1>4. pr.by = "star" => pr.n \in 0 .. h
  BY DEF WellFormed
<1> HIDE DEF w, pr, h
<1>5. /\ w.by = "star" => w.n \in Int /\ w.n <= h /\ -w.n <= h
      /\ pr.by = "star" => pr.n \in Int /\ pr.n <= h /\ -pr.n <= h /\ pr.n >= 0
  BY <1>2, <1>3, <1>4
<1> QED
  BY <1>5 DEF w, pr, h

LEMMA TakenAre ==
  ASSUME NEW piece, WellFormed(piece), ~IsLit(piece), NEW u \in Seq(Arguments)
  PROVE  /\ Taken(piece) \in Seq(Arguments) /\ Taken(piece) \o u = FromStars(piece, u)
         /\ FromStar(piece, u) \in Seq(Arguments) /\ FromValue(piece, u) \in Seq(Arguments)
         /\ ValueOf(piece) \in Seq(Arguments)
<1> DEFINE a == StarOf(piece.width)
           b == StarOf(piece.precision)
           v == ValueOf(piece)
<1>1. a \in Seq(Arguments) /\ b \in Seq(Arguments)
  BY StarsAre, StarTaken
<1>2. v \in Seq(Arguments)
  <2>1. CASE piece.spec = "%"
    BY <2>1, EmptySeq DEF ValueOf
  <2>2. CASE piece.spec # "%"
    <3>1. piece.value \in Nat \/ piece.value \in STRING \/ piece.value \in Seq(STRING)
      BY <2>2 DEF WellFormed
    <3>2. piece.value \in Arguments
      BY <3>1, SymbolsIn, StringsAreText DEF Arguments
    <3> QED
      BY <2>2, <3>2 DEF ValueOf
  <2> QED
    BY <2>1, <2>2
<1>3. Taken(piece) = a \o (b \o v)
  BY DEF Taken
<1>4. FromStars(piece, u) = a \o (b \o (v \o u)) /\ FromStar(piece, u) = b \o (v \o u) /\ FromValue(piece, u) = v \o u
  BY DEF FromStars, FromStar, FromValue
<1> HIDE DEF a, b, v
<1> DEFINE x == b \o v
           y == v \o u
<1>5. x \in Seq(Arguments) /\ y \in Seq(Arguments) /\ x \o u = b \o y /\ b \o y \in Seq(Arguments)
  BY <1>1, <1>2, Regroup
<1>6. Taken(piece) = a \o x /\ FromStars(piece, u) = a \o (b \o y)
  BY <1>3, <1>4
<1>7. x \in Seq(Arguments)
  BY <1>5
<1> HIDE DEF x
<1>8. (a \o x) \o u = a \o (x \o u) /\ a \o x \in Seq(Arguments)
  BY <1>1, <1>7, Regroup
<1> QED
  BY <1>2, <1>4, <1>5, <1>6, <1>8 DEF v, y

-----------------------------------------------------------------------------
(* printf: the steps within a directive                                    *)

\* The format, the arguments and the fields when this part of a directive is
\* next, t and u being what is behind the directive.
AtFlags(piece, t, u) ==
  format = piece.flags \o (FromWidth(piece) \o t) /\ va = FromStars(piece, u)
AtWidth(piece, t, u) ==
  /\ format = FromWidth(piece) \o t /\ va = FromStars(piece, u)
  /\ flags = FlagSet(piece)
AtPrecision(piece, t, u) ==
  /\ format = FromPrecision(piece) \o t /\ va = FromStar(piece, u)
  /\ flags = WidthFlags(piece) /\ width = WidthOf(piece)
AtPoint(piece, t, u) ==
  /\ format = Field(piece.precision) \o (FromLength(piece) \o t) /\ va = FromStar(piece, u)
  /\ Precise(piece) /\ flags = PointFlags(piece) /\ width = WidthOf(piece) /\ precision = 0
AtLength(piece, t, u) ==
  /\ format = FromLength(piece) \o t /\ va = FromValue(piece, u)
  /\ flags = PointFlags(piece) /\ width = WidthOf(piece) /\ precision = piece.precision.n
AtSpecifier(piece, t, u) ==
  format = <<piece.spec>> \o t /\ va = FromValue(piece, u) /\ Read(piece)

Stage(piece, t, u) ==
  \/ at = "flags" /\ AtFlags(piece, t, u)
  \/ at = "width" /\ AtWidth(piece, t, u)
  \/ at = "precision" /\ AtPrecision(piece, t, u)
  \/ at = "point" /\ AtPoint(piece, t, u)
  \/ at = "length" /\ AtLength(piece, t, u)
  \/ at = "specifier" /\ AtSpecifier(piece, t, u)

LEMMA CharIs ==
  ASSUME format # <<>>
  PROVE  Char = Head(format)
BY DEF Char

LEMMA FlagsStep ==
  ASSUME NEW piece, WellFormed(piece), NEW t \in Seq(Symbol), NEW u, AtFlags(piece, t, u), ReadFlags
  PROVE  AtWidth(piece, t, u)'
<1> DEFINE f == piece.flags
           b == FromWidth(piece) \o t
           n == Leading(format, FlagChars)
<1>1. b \in Seq(Symbol) /\ Avoids(b, FlagChars)
  BY WidthRead DEF Avoids
<1>2. f \in Seq(FlagChars)
  BY DEF WellFormed
<1>3. f \in Seq(Symbol) /\ Len(f) \in Nat /\ DOMAIN f = 1 .. Len(f) /\ \A k \in 1 .. Len(f) : f[k] \in FlagChars
  <2>1. FlagChars \subseteq Symbol
    BY SymbolsIn DEF FlagChars, ZEROPAD, LEFT, PLUS, SPACE, HASH
  <2> HIDE DEF f
  <2>2. f \in Seq(Symbol)
    BY <1>2, <2>1, SeqMonotonic
  <2> QED
    BY <1>2, <2>2, LenProperties, ElementOfSeq
<1>4. format = f \o b /\ va = FromStars(piece, u)
  BY DEF AtFlags
<1> HIDE DEF f, b
<1>5. Leading(f \o b, FlagChars) = Len(f) /\ After(f \o b, Len(f)) = b
  <2>1. b = <<>> \/ b[1] \notin FlagChars
    BY <1>1 DEF Avoids
  <2> QED
    BY <1>1, <1>3, <2>1, LeadingIs
<1>6. n = Len(f) /\ After(format, n) = b
  BY <1>4, <1>5
<1>7. \A k \in 1 .. Len(f) : format[k] = f[k]
  <2>1. Len(b) \in Nat
    BY <1>1, LenProperties
  <2>2. \A i \in 1 .. Len(f) + Len(b) : (f \o b)[i] = IF i <= Len(f) THEN f[i] ELSE b[i - Len(f)]
    BY <1>1, <1>3, ConcatProperties
  <2>3. \A k \in 1 .. Len(f) : k \in 1 .. Len(f) + Len(b) /\ k <= Len(f)
    <3> DEFINE m == Len(f)
               o == Len(b)
    <3>1. m \in Nat /\ o \in Nat
      BY <1>3, <2>1
    <3> HIDE DEF m, o
    <3>2. \A k \in 1 .. m : k \in 1 .. m + o /\ k <= m
      BY <3>1
    <3> QED
      BY <3>2 DEF m, o
  <2> QED
    BY <1>4, <2>2, <2>3
<1>8. {format[k] : k \in 1 .. n} = FlagSet(piece)
  BY <1>3, <1>6, <1>7 DEF FlagSet, f
<1>9. flags' = {format[k] : k \in 1 .. n} /\ format' = After(format, n) /\ va' = va
  BY DEF ReadFlags
<1>10. flags' = FlagSet(piece) /\ format' = b /\ va' = FromStars(piece, u)
  BY <1>4, <1>6, <1>8, <1>9
<1> QED
  BY <1>10 DEF AtWidth, b, FlagSet

LEMMA WidthStep ==
  ASSUME NEW piece, WellFormed(piece), ~IsLit(piece), NEW t \in Seq(Symbol), NEW u \in Seq(Arguments),
         AtWidth(piece, t, u), ReadWidth
  PROVE  AtPrecision(piece, t, u)' /\ width' \in Nat
<1> DEFINE f == piece.width
           b == FromPrecision(piece) \o t
           s == Field(f) \o b
           a == FromStar(piece, u)
<1>1. Avoids(b, _is_digit \cup {"*"})
  BY PrecisionRead DEF Avoids
<1>2. IsField(f) /\ f.by \in {"none", "number", "star"} /\ (f.by = "number" => f.n > 0)
  BY FieldsOf
<1>3. format = s
  <2>1. format = FromWidth(piece) \o t
    BY DEF AtWidth
  <2> QED
    BY <2>1, WidthRead
<1>4. va = StarOf(f) \o a /\ flags = FlagSet(piece)
  BY DEF AtWidth, FromStars
<1>5. a \in Seq(Arguments)
  BY TakenAre
<1>6. WidthOf(piece) \in Nat /\ f.n \in Int
  BY FieldsAre
<1>7. WidthOf(piece) = (IF f.n < 0 THEN -f.n ELSE f.n)
      /\ WidthFlags(piece) = FlagSet(piece) \cup (IF f.n < 0 THEN {LEFT} ELSE {})
  BY DEF WidthOf, WidthFlags
<1> HIDE DEF b, a
<1>8. /\ s \in Seq(Symbol) /\ s # <<>>
      /\ f.by \in {"none", "point"} => s = b /\ Head(s) \notin _is_digit \cup {"*"}
      /\ f.by = "star" => Head(s) = "*" /\ Head(s) \notin _is_digit /\ Tail(s) = b
      /\ f.by = "number" =>
           /\ Head(s) \in _is_digit /\ Head(s) # "*"
           /\ _atoi(s) = f.n
           /\ After(s, Leading(s, _is_digit)) = b
  BY <1>1, <1>2, FieldRead
<1> HIDE DEF s
<1>9. Char = Head(s)
  BY <1>3, <1>8, CharIs
<1>10. f.by # "star" => va = a
  <2>1. <<>> \o a = a
    BY <1>5, NothingInFront
  <2> QED
    BY <1>4, <2>1 DEF StarOf
<1>11. SUFFICES format' = b /\ va' = a /\ flags' = WidthFlags(piece) /\ width' = WidthOf(piece)
  BY <1>6, <1>11 DEF AtPrecision, b, a, WidthFlags, FlagSet
<1>12. CASE WidthNumber
  <2>1. Char \in _is_digit /\ width' = _atoi(format) /\ format' = After(format, Leading(format, _is_digit))
        /\ flags' = flags /\ va' = va
    BY <1>12 DEF WidthNumber
  <2>2. f.by = "number"
    BY <1>2, <1>8, <1>9, <2>1
  <2>3. ~(f.n < 0)
    BY <1>2, <1>6, <2>2
  <2>4. width' = f.n /\ format' = b /\ va' = a
    BY <1>3, <1>8, <1>10, <2>1, <2>2
  <2> QED
    BY <1>4, <1>7, <2>1, <2>3, <2>4
<1>13. CASE WidthStar
  <2> DEFINE w == Signed(Head(va), UINT_MAX)
  <2>1. /\ Char = "*" /\ width' = (IF w < 0 THEN -w ELSE w)
        /\ flags' = (IF w < 0 THEN flags \cup {LEFT} ELSE flags)
        /\ va' = Tail(va) /\ format' = Tail(format)
    BY <1>13 DEF WidthStar
  <2>2. f.by = "star"
    <3>1. "*" \notin _is_digit
      BY DecimalIs
    <3> QED
      BY <1>2, <1>8, <1>9, <2>1, <3>1
  <2> DEFINE x == Unsigned(f.n, UINT_MAX)
  <2>3. x \in Nat /\ Signed(x, UINT_MAX) = f.n
    BY <2>2, StarsAre, StarIs
  <2>4. va = <<x>> \o a
    BY <1>4, <2>2 DEF StarOf
  <2>5. x \in Arguments
    BY <2>3 DEF Arguments
  <2> HIDE DEF x
  <2>6. Head(<<x>> \o a) = x /\ Tail(<<x>> \o a) = a
    BY <1>5, <2>5, InFront
  <2>7. Head(va) = x /\ va' = a
    BY <2>1, <2>4, <2>6
  <2>8. w = f.n
    BY <2>3, <2>7
  <2>9. format' = b
    BY <1>3, <1>8, <2>1, <2>2
  <2> HIDE DEF w
  <2>10. width' = WidthOf(piece)
    BY <1>7, <2>1, <2>8
  <2>11. flags' = WidthFlags(piece)
    BY <1>4, <1>7, <2>1, <2>8
  <2> QED
    BY <2>7, <2>9, <2>10, <2>11
<1>14. CASE NoWidth
  <2>1. /\ Char \notin _is_digit \cup {"*"} /\ width' = 0
        /\ flags' = flags /\ va' = va /\ format' = format
    BY <1>14 DEF NoWidth
  <2>2. f.by = "none"
    BY <1>2, <1>8, <1>9, <2>1
  <2>3. f.n = 0
    <3>1. piece.width.by = "none" => piece.width.n = 0
      BY DEF WellFormed
    <3> QED
      BY <2>2, <3>1
  <2>4. format' = b /\ va' = a
    BY <1>3, <1>8, <1>10, <2>1, <2>2
  <2> QED
    BY <1>4, <1>7, <2>1, <2>3, <2>4
<1> QED
  BY <1>12, <1>13, <1>14 DEF ReadWidth

LEMMA PrecisionStep ==
  ASSUME NEW piece, WellFormed(piece), ~IsLit(piece), NEW t \in Seq(Symbol), NEW u \in Seq(Arguments),
         AtPrecision(piece, t, u)
  PROVE  /\ NoPrecision => AtLength(piece, t, u)' /\ precision' \in Nat
         /\ Point => AtPoint(piece, t, u)' /\ precision' \in Nat
<1> DEFINE b == FromLength(piece) \o t
           r == Field(piece.precision) \o b
           s == FromPrecision(piece) \o t
<1>1. /\ s \in Seq(Symbol) /\ s # <<>>
      /\ Precise(piece) => s[1] = "." /\ Tail(s) = r
      /\ ~Precise(piece) => s = b /\ s[1] # "."
  BY PrecisionRead DEF Avoids
<1>2. format = s /\ va = FromStar(piece, u) /\ flags = WidthFlags(piece) /\ width = WidthOf(piece)
  BY DEF AtPrecision
<1>3. Head(s) = s[1]
  <2> HIDE DEF s
  <2> QED
    BY <1>1, HeadTailProperties
<1>4. Char = s[1]
  BY <1>1, <1>2, <1>3, CharIs
<1>5. PointFlags(piece) = WidthFlags(piece) \cup (IF Precise(piece) THEN {"PRECISION"} ELSE {})
  BY DEF PointFlags
<1>6. /\ Precise(piece) <=> piece.precision.by # "none"
      /\ ~Precise(piece) => piece.precision.n = 0
  BY FieldsAre DEF Precise
<1>7. ASSUME NoPrecision PROVE AtLength(piece, t, u)' /\ precision' \in Nat
  <2>1. Char # "." /\ precision' = 0 /\ format' = format /\ va' = va /\ flags' = flags /\ width' = width
    BY <1>7 DEF NoPrecision
  <2>2. ~Precise(piece)
    BY <1>1, <1>4, <2>1
  <2>3. FromValue(piece, u) \in Seq(Arguments)
    BY TakenAre
  <2>4. va' = FromValue(piece, u)
    <3>1. FromStar(piece, u) = <<>> \o FromValue(piece, u)
      BY <1>6, <2>2 DEF FromStar, StarOf
    <3>2. <<>> \o FromValue(piece, u) = FromValue(piece, u)
      BY <2>3, NothingInFront
    <3> QED
      BY <1>2, <2>1, <3>1, <3>2
  <2>5. format' = b /\ flags' = PointFlags(piece) /\ width' = WidthOf(piece) /\ precision' = piece.precision.n
    BY <1>1, <1>2, <1>5, <1>6, <2>1, <2>2
  <2> QED
    BY <2>1, <2>4, <2>5 DEF AtLength
<1>8. ASSUME Point PROVE AtPoint(piece, t, u)' /\ precision' \in Nat
  <2>1. /\ Char = "." /\ precision' = 0 /\ format' = Tail(format) /\ va' = va
        /\ flags' = flags \cup {"PRECISION"} /\ width' = width
    BY <1>8 DEF Point
  <2>2. Precise(piece)
    BY <1>1, <1>4, <2>1
  <2>3. format' = r /\ flags' = PointFlags(piece) /\ width' = WidthOf(piece) /\ va' = FromStar(piece, u)
    BY <1>1, <1>2, <1>5, <2>1, <2>2
  <2> QED
    BY <2>1, <2>2, <2>3 DEF AtPoint
<1> QED
  BY <1>7, <1>8

LEMMA PointStep ==
  ASSUME NEW piece, WellFormed(piece), ~IsLit(piece), NEW t \in Seq(Symbol), NEW u \in Seq(Arguments),
         AtPoint(piece, t, u), PrecisionNumber \/ PrecisionStar \/ PrecisionZero
  PROVE  AtLength(piece, t, u)' /\ precision' \in Nat
<1> DEFINE f == piece.precision
           b == FromLength(piece) \o t
           s == Field(f) \o b
           a == FromValue(piece, u)
<1>1. Avoids(b, _is_digit \cup {"*"})
  BY LengthRead DEF Avoids, Marks
<1>2. IsField(f) /\ f.by \in {"number", "star", "point"}
  BY FieldsOf DEF AtPoint, Precise, IsField
<1>3. /\ format = s /\ va = StarOf(f) \o a
      /\ flags = PointFlags(piece) /\ width = WidthOf(piece) /\ precision = 0
  BY DEF AtPoint, FromStar
<1>4. a \in Seq(Arguments)
  BY TakenAre
<1>5. f.n \in Nat /\ (f.by = "point" => f.n = 0)
  <2>1. piece.precision.by = "point" => piece.precision.n = 0
    BY DEF WellFormed
  <2> QED
    BY <2>1, FieldsAre
<1> HIDE DEF b, a
<1>6. /\ s \in Seq(Symbol) /\ s # <<>>
      /\ f.by \in {"none", "point"} => s = b /\ Head(s) \notin _is_digit \cup {"*"}
      /\ f.by = "star" => Head(s) = "*" /\ Head(s) \notin _is_digit /\ Tail(s) = b
      /\ f.by = "number" =>
           /\ Head(s) \in _is_digit /\ Head(s) # "*"
           /\ _atoi(s) = f.n
           /\ After(s, Leading(s, _is_digit)) = b
  BY <1>1, <1>2, FieldRead
<1> HIDE DEF s
<1>7. Char = Head(s)
  BY <1>3, <1>6, CharIs
<1>8. f.by # "star" => va = a
  <2>1. <<>> \o a = a
    BY <1>4, NothingInFront
  <2> QED
    BY <1>3, <2>1 DEF StarOf
<1>9. flags' = flags /\ width' = width
  BY DEF PrecisionNumber, PrecisionStar, PrecisionZero
<1>10. SUFFICES format' = b /\ va' = a /\ precision' = f.n
  BY <1>3, <1>5, <1>9, <1>10 DEF AtLength, b, a, PointFlags, WidthFlags, FlagSet
<1>11. CASE PrecisionNumber
  <2>1. Char \in _is_digit /\ precision' = _atoi(format) /\ format' = After(format, Leading(format, _is_digit))
        /\ va' = va
    BY <1>11 DEF PrecisionNumber
  <2>2. f.by = "number"
    BY <1>2, <1>6, <1>7, <2>1
  <2> QED
    BY <1>3, <1>6, <1>8, <2>1, <2>2
<1>12. CASE PrecisionStar
  <2> DEFINE w == Signed(Head(va), UINT_MAX)
  <2>1. /\ Char = "*" /\ precision' = Larger(0, w)
        /\ va' = Tail(va) /\ format' = Tail(format)
    BY <1>12 DEF PrecisionStar
  <2>2. f.by = "star"
    <3>1. "*" \notin _is_digit
      BY DecimalIs
    <3> QED
      BY <1>2, <1>6, <1>7, <2>1, <3>1
  <2> DEFINE x == Unsigned(f.n, UINT_MAX)
  <2>3. x \in Nat /\ Signed(x, UINT_MAX) = f.n
    BY <2>2, StarsAre, StarIs
  <2>4. va = <<x>> \o a
    BY <1>3, <2>2 DEF StarOf
  <2>5. x \in Arguments
    BY <2>3 DEF Arguments
  <2> HIDE DEF x
  <2>6. Head(<<x>> \o a) = x /\ Tail(<<x>> \o a) = a
    BY <1>4, <2>5, InFront
  <2>7. Head(va) = x /\ va' = a
    BY <2>1, <2>4, <2>6
  <2>8. w = f.n
    BY <2>3, <2>7
  <2>9. format' = b
    BY <1>3, <1>6, <2>1, <2>2
  <2> HIDE DEF w
  <2>10. precision' = f.n
    BY <1>5, <2>1, <2>8 DEF Larger
  <2> QED
    BY <2>7, <2>9, <2>10
<1>13. CASE PrecisionZero
  <2>1. /\ Char \notin _is_digit \cup {"*"} /\ precision' = precision
        /\ va' = va /\ format' = format
    BY <1>13 DEF PrecisionZero
  <2>2. f.by = "point"
    BY <1>2, <1>6, <1>7, <2>1
  <2> QED
    BY <1>3, <1>5, <1>6, <1>8, <2>1, <2>2
<1> QED
  BY <1>11, <1>12, <1>13

LEMMA LengthStep ==
  ASSUME NEW piece, WellFormed(piece), NEW t \in Seq(Symbol), NEW u,
         AtLength(piece, t, u), ReadLength
  PROVE  AtSpecifier(piece, t, u)'
<1> DEFINE s == FromLength(piece) \o t
           b == <<piece.spec>> \o t
           n == LengthChars(Char)
<1>1. format = s /\ va = FromValue(piece, u)
      /\ flags = PointFlags(piece) /\ width = WidthOf(piece) /\ precision = piece.precision.n
  BY DEF AtLength
<1>2. Avoids(s, Marks) /\ (format = s => After(s, LengthChars(s[1])) = b
                                         /\ LengthFlags(s[1], LengthChars(s[1])) = LengthOf(piece))
  BY LengthRead
<1>3. Char = s[1]
  <2>1. s \in Seq(Symbol) /\ s # <<>>
    BY <1>2 DEF Avoids
  <2> HIDE DEF s
  <2>2. Head(s) = s[1]
    BY <2>1, HeadTailProperties
  <2> QED
    BY <1>1, <2>1, <2>2, CharIs
<1>4. flags' = flags \cup LengthFlags(Char, n) /\ format' = After(format, n)
      /\ va' = va /\ width' = width /\ precision' = precision /\ call' = call
  BY DEF ReadLength
<1>5. flags' = PointFlags(piece) \cup LengthOf(piece) /\ format' = b
  BY <1>1, <1>2, <1>3, <1>4
<1>6. LengthOf(piece)' = LengthOf(piece)
  BY <1>4 DEF LengthOf
<1>7. Read(piece)'
  BY <1>1, <1>4, <1>5, <1>6 DEF Read, PointFlags, WidthFlags, FlagSet, WidthOf
<1> QED
  BY <1>1, <1>4, <1>5, <1>7 DEF AtSpecifier, b, FromValue

-----------------------------------------------------------------------------
(* printf: output                                                          *)

\* That text, and no more, has been printed.
Stored(text, i) == IF call.out = "buffer" /\ i < Len(text) /\ i < call.maxlen THEN text[i + 1] ELSE Junk
Holds(text) ==
  /\ idx = Len(text)
  /\ sent = IF call.out = "char" THEN _out_char(text) ELSE <<>>
  /\ buffer = [i \in 0 .. Cells - 1 |-> Stored(text, i)]

LEMMA Grown ==
  ASSUME NEW text \in Seq(Symbol), NEW r \in Seq(Symbol), Holds(text), Out(r), call' = call,
         call.maxlen \in Nat
  PROVE  Holds(text \o r)'
<1> DEFINE both == text \o r
           M == Len(text)
           L == Len(r)
<1>1. M \in Nat /\ L \in Nat
  BY LenProperties
<1>2. /\ both \in Seq(Symbol) /\ Len(both) = M + L
      /\ \A i \in 1 .. M + L : both[i] = IF i <= M THEN text[i] ELSE r[i - M]
  BY ConcatProperties
<1>3. idx = M /\ buffer = [i \in 0 .. Cells - 1 |-> Stored(text, i)]
  BY DEF Holds
<1>4. idx' = Len(both)
  BY <1>1, <1>2, <1>3 DEF Out
<1>5. sent' = IF call.out = "char" THEN _out_char(both) ELSE <<>>
  <2>1. CASE call.out = "char"
    <3>1. sent = _out_char(text) /\ sent' = sent \o _out_char(r)
      BY <2>1 DEF Holds, Out
    <3>2. _out_char(both) = _out_char(text) \o _out_char(r)
      BY SentBoth
    <3> QED
      BY <2>1, <3>1, <3>2
  <2>2. CASE call.out # "char"
    BY <2>2 DEF Holds, Out
  <2> QED
    BY <2>1, <2>2
<1> DEFINE next(i) == IF call.out = "buffer" /\ i < M + L /\ i < call.maxlen THEN both[i + 1] ELSE Junk
<1>6. buffer' = [i \in 0 .. Cells - 1 |-> next(i)]
  <2>1. CASE call.out = "buffer"
    <3>1. buffer' = [i \in 0 .. Cells - 1 |->
                       IF i >= M /\ i < M + L /\ i < call.maxlen THEN r[i - M + 1] ELSE Stored(text, i)]
      <4>1. buffer' = [i \in DOMAIN buffer |->
                         IF i >= idx /\ i < idx + Len(r) /\ i < call.maxlen THEN r[i - idx + 1] ELSE buffer[i]]
        BY <2>1 DEF Out, _out_buffer
      <4>2. DOMAIN buffer = 0 .. Cells - 1 /\ \A i \in 0 .. Cells - 1 : buffer[i] = Stored(text, i)
        BY <1>3
      <4> QED
        BY <1>3, <4>1, <4>2
    <3>2. ASSUME NEW i \in 0 .. Cells - 1
          PROVE  (IF i >= M /\ i < M + L /\ i < call.maxlen THEN r[i - M + 1] ELSE Stored(text, i)) = next(i)
      <4> HIDE DEF both, M, L
      <4>1. CASE i >= M /\ i < M + L /\ i < call.maxlen
        <5>1. i + 1 \in 1 .. M + L /\ ~(i + 1 <= M) /\ (i + 1) - M = i - M + 1
          BY <1>1, <4>1
        <5>2. both[i + 1] = r[i - M + 1]
          BY <1>2, <5>1
        <5> QED
          BY <2>1, <4>1, <5>2
      <4>2. CASE i < M /\ i < call.maxlen
        <5>1. i + 1 \in 1 .. M + L /\ i + 1 <= M /\ i < M + L /\ ~(i >= M)
          BY <1>1, <4>2
        <5>2. both[i + 1] = text[i + 1]
          BY <1>2, <5>1
        <5>3. Stored(text, i) = text[i + 1]
          BY <2>1, <4>2 DEF Stored, M
        <5> QED
          BY <2>1, <4>2, <5>1, <5>2, <5>3
      <4>3. CASE ~(i < call.maxlen)
        BY <4>3 DEF Stored
      <4>4. CASE ~(i < M + L)
        <5>1. ~(i < M)
          BY <1>1, <4>4
        <5> QED
          BY <4>4, <5>1 DEF Stored, M
      <4> QED
        BY <1>1, <4>1, <4>2, <4>3, <4>4
    <3> QED
      BY <3>1, <3>2
  <2>2. CASE call.out # "buffer"
    <3>1. buffer' = [i \in 0 .. Cells - 1 |-> Stored(text, i)]
      BY <1>3, <2>2 DEF Out
    <3>2. \A i \in 0 .. Cells - 1 : Stored(text, i) = Junk /\ next(i) = Junk
      BY <2>2 DEF Stored
    <3> QED
      BY <3>1, <3>2
  <2> QED
    BY <2>1, <2>2
<1>7. \A i : next(i) = IF call'.out = "buffer" /\ i < Len(both) /\ i < call'.maxlen THEN both[i + 1] ELSE Junk
  BY <1>2
<1> HIDE DEF both
<1>8. Holds(both)'
  BY <1>4, <1>5, <1>6, <1>7 DEF Holds, Stored
<1> QED
  BY <1>8 DEF both

\* The zero at the end.
LEMMA Finished ==
  ASSUME NEW text \in Seq(Symbol), Holds(text), Terminate,
         call.maxlen \in 0 .. SIZE_MAX,
         call.out = "buffer" => Smaller(Len(text) + 1, call.maxlen) <= Cells
  PROVE  LET stored == Smaller(Len(text), Larger(call.maxlen - 1, 0)) IN
         /\ idx' = Len(text) /\ sent' = (IF call.out = "char" THEN _out_char(text) ELSE <<>>)
         /\ DOMAIN buffer' = 0 .. Cells - 1
         /\ \A i \in DOMAIN buffer' :
              buffer'[i] = IF call.out # "buffer" \/ call.maxlen = 0 \/ i > stored THEN Junk
                           ELSE IF i < stored THEN text[i + 1] ELSE EOS
<1> DEFINE L == Len(text)
           max == call.maxlen
           stored == Smaller(L, Larger(max - 1, 0))
           E == End
<1>1. L \in Nat /\ SIZE_MAX \in Nat /\ Cells \in Nat /\ max \in 0 .. SIZE_MAX
  BY LenProperties, PrintfAssumption
<1>2. idx = L /\ sent = (IF call.out = "char" THEN _out_char(text) ELSE <<>>)
      /\ buffer = [i \in 0 .. Cells - 1 |-> Stored(text, i)]
  BY DEF Holds
<1>3. /\ idx' = idx /\ sent' = sent
      /\ buffer' = IF call.out = "buffer" /\ E < max
                   THEN [i \in DOMAIN buffer \cup {E} |-> IF i = E THEN EOS ELSE buffer[i]]
                   ELSE buffer
  BY DEF Terminate
<1>4. \A i : Stored(text, i) = IF call.out = "buffer" /\ i < L /\ i < max THEN text[i + 1] ELSE Junk
  BY DEF Stored
<1>5. E = IF L < max THEN L ELSE (max - 1) % (SIZE_MAX + 1)
  BY <1>2 DEF End
<1>6. call.out = "buffer" => Smaller(L + 1, max) <= Cells
  OBVIOUS
<1>7. DOMAIN buffer = 0 .. Cells - 1 /\ \A i \in 0 .. Cells - 1 : buffer[i] = Stored(text, i)
  BY <1>2
<1> HIDE DEF L, max, E, stored
<1>8. (max - 1) % (SIZE_MAX + 1) = IF max = 0 THEN SIZE_MAX ELSE max - 1
  BY <1>1
<1>9. CASE call.out # "buffer"
  BY <1>2, <1>3, <1>4, <1>7, <1>9 DEF L
<1>10. CASE call.out = "buffer" /\ max = 0
  <2>1. ~(E < max)
    BY <1>1, <1>5, <1>8, <1>10
  <2>2. buffer' = buffer
    BY <1>3, <2>1
  <2>3. \A i \in 0 .. Cells - 1 : ~(i < max)
    BY <1>1, <1>10
  <2> QED
    BY <1>2, <1>3, <1>4, <1>7, <1>10, <2>2, <2>3 DEF L, max
<1>11. CASE call.out = "buffer" /\ max > 0
  <2>1. E = stored /\ E < max /\ E \in 0 .. Cells - 1
    BY <1>1, <1>5, <1>6, <1>8, <1>11 DEF stored, Smaller, Larger
  <2>2. buffer' = [i \in 0 .. Cells - 1 |-> IF i = E THEN EOS ELSE Stored(text, i)]
    <3>1. DOMAIN buffer \cup {E} = 0 .. Cells - 1
      BY <1>7, <2>1
    <3> QED
      BY <1>3, <1>7, <1>11, <2>1, <3>1
  <2>3. ASSUME NEW i \in 0 .. Cells - 1
        PROVE  (IF i = E THEN EOS ELSE Stored(text, i))
                  = IF i > stored THEN Junk ELSE IF i < stored THEN text[i + 1] ELSE EOS
    <3>1. i < E => i < L /\ i < max
      BY <1>1, <1>5, <1>8, <1>11, <2>1
    <3>2. i > E => ~(i < L /\ i < max)
      BY <1>1, <1>5, <1>8, <1>11, <2>1
    <3>3. E \in Int /\ i \in Int /\ (i = E \/ i < E \/ i > E)
      BY <2>1
    <3>4. CASE i = E
      BY <2>1, <3>3, <3>4
    <3>5. CASE i < E
      <4>1. Stored(text, i) = text[i + 1]
        BY <1>4, <1>11, <3>1, <3>5
      <4> QED
        BY <2>1, <3>3, <3>5, <4>1
    <3>6. CASE i > E
      <4>1. Stored(text, i) = Junk
        BY <1>4, <3>2, <3>6
      <4> QED
        BY <2>1, <3>3, <3>6, <4>1
    <3> QED
      BY <3>3, <3>4, <3>5, <3>6
  <2>4. ~(max = 0)
    BY <1>1, <1>11
  <2>5. DOMAIN buffer' = 0 .. Cells - 1
    BY <2>2
  <2>6. \A i \in 0 .. Cells - 1 : buffer'[i] = IF i > stored THEN Junk ELSE IF i < stored THEN text[i + 1] ELSE EOS
    BY <2>2, <2>3
  <2> QED
    BY <1>2, <1>3, <1>11, <2>4, <2>5, <2>6 DEF L, max, stored
<1> QED
  <2>1. max = 0 \/ max > 0
    BY <1>1
  <2> QED
    BY <1>9, <1>10, <1>11, <2>1

-----------------------------------------------------------------------------
(* printf: the invariant                                                   *)

\* What each piece is spelled, takes and prints.
Spellings == [k \in DOMAIN call.pieces |-> Spelled(call.pieces[k])]
Takings == [k \in DOMAIN call.pieces |-> Taken(call.pieces[k])]
Renderings == [k \in DOMAIN call.pieces |-> Rendering(call.pieces[k], call.program)]

\* Behind the first n sequences of elements of S comes r.
Leaves(S, seqs, n, r) == r \in Seq(S) /\ FlattenSeq(seqs) = Up(seqs, n) \o r
NextOf(S, seqs, m, r) == \E t : r = seqs[m] \o t /\ Leaves(S, seqs, m, t)

\* Behind the first n pieces there is t of the format and u of the arguments.
Rest(n, t, u) == Leaves(Symbol, Spellings, n, t) /\ Leaves(Arguments, Takings, n, u)
Printed(n) == Holds(Up(Renderings, n))

Looped(n) == Rest(n, format, va) /\ Printed(n)
Inside(n, piece, t, u) ==
  /\ piece = call.pieces[n] /\ ~IsLit(piece)
  /\ Rest(n, t, u) /\ Printed(n - 1)
  /\ Stage(piece, t, u)
InLoop == \E n \in 0 .. Len(call.pieces) : Looped(n)
InDirective == \E n \in 1 .. Len(call.pieces) : \E piece, t, u : Inside(n, piece, t, u)

\* The inductive invariant.
PrintInv ==
  /\ call \in Calls /\ TextRendered
  /\ at = "loop" => InLoop
  /\ at \notin {"loop", "done"} => InDirective

LEMMA CallIs ==
  ASSUME call \in Calls
  PROVE  /\ call.program \in {"kernel", "loader"} /\ call.maxlen \in 0 .. SIZE_MAX
         /\ Len(call.pieces) \in Nat /\ DOMAIN call.pieces = 1 .. Len(call.pieces)
         /\ \A k \in 1 .. Len(call.pieces) : Conforming(call.pieces[k], call.program)
         /\ call.out = "buffer" => Smaller(Len(Text(call)) + 1, call.maxlen) <= Cells
<1>1. /\ call.program \in {"kernel", "loader"} /\ call.maxlen \in 0 .. SIZE_MAX
      /\ call.pieces \in Seq({call.pieces[k] : k \in DOMAIN call.pieces})
      /\ \A k \in DOMAIN call.pieces : Conforming(call.pieces[k], call.program)
      /\ call.out = "buffer" => Smaller(Len(Text(call)) + 1, call.maxlen) <= Cells
  BY CallsAssumption
<1>2. Len(call.pieces) \in Nat /\ DOMAIN call.pieces = 1 .. Len(call.pieces)
  BY <1>1, LenProperties
<1> QED
  BY <1>1, <1>2

LEMMA PieceIs ==
  ASSUME NEW piece, NEW program \in {"kernel", "loader"}, Conforming(piece, program)
  PROVE  /\ Spelled(piece) \in Seq(Symbol) /\ Taken(piece) \in Seq(Arguments)
         /\ Rendering(piece, program) \in Seq(Symbol)
         /\ IsLit(piece) => /\ piece.lit \in Symbol \ {"%", EOS} /\ Spelled(piece) = <<piece.lit>>
                            /\ Taken(piece) = <<>> /\ Rendering(piece, program) = <<piece.lit>>
         /\ ~IsLit(piece) => WellFormed(piece)
<1>1. Rendering(piece, program) \in Seq(Symbol)
  BY RenderingText
<1>2. CASE IsLit(piece)
  <2>1. piece.lit \in STRING \ {"%", EOS}
    BY <1>2 DEF Conforming
  <2>2. piece.lit \in Symbol \ {"%", EOS}
    BY <2>1, SymbolsIn
  <2>3. Spelled(piece) = <<piece.lit>> /\ Taken(piece) = <<>> /\ Rendering(piece, program) = <<piece.lit>>
    BY <1>2 DEF Spelled, Taken, Rendering
  <2>4. <<>> \in Seq(Arguments)
    BY EmptySeq
  <2>5. <<piece.lit>> \in Seq(Symbol)
    BY <2>2
  <2> QED
    BY <1>2, <2>2, <2>3, <2>4, <2>5
<1>3. CASE ~IsLit(piece)
  <2>1. WellFormed(piece)
    BY <1>3 DEF Conforming
  <2>2. <<>> \in Seq(Symbol) /\ <<>> \in Seq(Arguments)
    BY EmptySeq
  <2>3. Spelled(piece) \in Seq(Symbol) /\ Taken(piece) \in Seq(Arguments)
    BY <1>3, <2>1, <2>2, DirectiveRead, TakenAre
  <2> QED
    BY <1>1, <1>3, <2>1, <2>3
<1> QED
  BY <1>2, <1>3

LEMMA PiecesAre ==
  ASSUME call \in Calls
  PROVE  /\ Spellings \in Seq(Seq(Symbol)) /\ Len(Spellings) = Len(call.pieces)
         /\ Takings \in Seq(Seq(Arguments)) /\ Len(Takings) = Len(call.pieces)
         /\ Renderings \in Seq(Seq(Symbol)) /\ Len(Renderings) = Len(call.pieces)
         /\ \A k \in 1 .. Len(call.pieces) :
              /\ Spellings[k] = Spelled(call.pieces[k]) /\ Takings[k] = Taken(call.pieces[k])
              /\ Renderings[k] = Rendering(call.pieces[k], call.program)
<1> DEFINE N == Len(call.pieces)
           T == Seq(Symbol)
           A == Seq(Arguments)
<1>1. N \in Nat /\ DOMAIN call.pieces = 1 .. N
  BY CallIs
<1>2. \A k \in 1 .. N : /\ Spelled(call.pieces[k]) \in T /\ Taken(call.pieces[k]) \in A
                        /\ Rendering(call.pieces[k], call.program) \in T
  BY CallIs, PieceIs
<1> HIDE DEF N, T, A
<1>3. /\ Spellings = [k \in 1 .. N |-> Spelled(call.pieces[k])]
      /\ Takings = [k \in 1 .. N |-> Taken(call.pieces[k])]
      /\ Renderings = [k \in 1 .. N |-> Rendering(call.pieces[k], call.program)]
  BY <1>1 DEF Spellings, Takings, Renderings
<1>4. /\ Spellings \in Seq(T) /\ Len(Spellings) = N
  BY <1>1, <1>2, <1>3
<1>5. /\ Takings \in Seq(A) /\ Len(Takings) = N
  BY <1>1, <1>2, <1>3
<1>6. /\ Renderings \in Seq(T) /\ Len(Renderings) = N
  BY <1>1, <1>2, <1>3
<1> QED
  BY <1>3, <1>4, <1>5, <1>6 DEF N, T, A

LEMMA NextBehindIs ==
  ASSUME NEW S, NEW seqs \in Seq(Seq(S)), NEW n \in 0 .. Len(seqs) - 1, NEW m, m = n + 1,
         NEW r, Leaves(S, seqs, n, r)
  PROVE  NextOf(S, seqs, m, r)
<1>1. r \in Seq(S) /\ FlattenSeq(seqs) = Up(seqs, n) \o r
  BY DEF Leaves
<1>2. \E t \in Seq(S) : r = seqs[n + 1] \o t /\ FlattenSeq(seqs) = Up(seqs, n + 1) \o t
  BY <1>1, NextOne
<1> QED
  BY <1>2 DEF NextOf, Leaves

LEMMA LastBehind ==
  ASSUME NEW S, NEW seqs \in Seq(Seq(S)), NEW r, Leaves(S, seqs, Len(seqs), r)
  PROVE  r = <<>>
BY NoneLeft DEF Leaves

\* The next piece, at the top of the loop.
Ahead(n, piece, t, u) ==
  /\ n \in 1 .. Len(call.pieces) /\ piece = call.pieces[n]
  /\ Rest(n, t, u) /\ format = Spelled(piece) \o t /\ va = Taken(piece) \o u

LEMMA OpenedAt ==
  ASSUME call \in Calls, NEW n \in 0 .. Len(call.pieces), Rest(n, format, va), n # Len(call.pieces)
  PROVE  \E piece, t, u : Ahead(n + 1, piece, t, u)
<1> DEFINE N == Len(call.pieces)
           m == n + 1
<1>1. N \in Nat /\ n \in 0 .. N
  BY CallIs
<1>2. Leaves(Symbol, Spellings, n, format) /\ Leaves(Arguments, Takings, n, va)
  BY DEF Rest
<1>3. /\ Spellings \in Seq(Seq(Symbol)) /\ Len(Spellings) = N
      /\ Takings \in Seq(Seq(Arguments)) /\ Len(Takings) = N
  BY PiecesAre
<1>4. n # N
  OBVIOUS
<1>5. n \in 0 .. N - 1 /\ m \in 1 .. N /\ m = n + 1
  <2> HIDE DEF N
  <2> QED
    BY <1>1, <1>4
<1>6. n \in 0 .. Len(Spellings) - 1 /\ n \in 0 .. Len(Takings) - 1
  BY <1>3, <1>5
<1> HIDE DEF m
<1>7. NextOf(Symbol, Spellings, m, format)
  BY <1>2, <1>3, <1>5, <1>6, NextBehindIs
<1>8. NextOf(Arguments, Takings, m, va)
  BY <1>2, <1>3, <1>5, <1>6, NextBehindIs
<1>9. PICK t : format = Spellings[m] \o t /\ Leaves(Symbol, Spellings, m, t)
  BY <1>7 DEF NextOf
<1>10. PICK u : va = Takings[m] \o u /\ Leaves(Arguments, Takings, m, u)
  BY <1>8 DEF NextOf
<1>11. Spellings[m] = Spelled(call.pieces[m]) /\ Takings[m] = Taken(call.pieces[m])
  BY <1>5, PiecesAre
<1>12. Rest(m, t, u)
  BY <1>9, <1>10 DEF Rest
<1>13. Ahead(m, call.pieces[m], t, u)
  BY <1>5, <1>9, <1>10, <1>11, <1>12 DEF Ahead
<1> QED
  BY <1>13 DEF m

LEMMA Opened ==
  ASSUME call \in Calls, NEW n \in 0 .. Len(call.pieces), Rest(n, format, va), format # <<>>
  PROVE  \E piece, t, u : Ahead(n + 1, piece, t, u)
<1>1. Spellings \in Seq(Seq(Symbol)) /\ Len(Spellings) = Len(call.pieces)
  BY PiecesAre
<1>2. Leaves(Symbol, Spellings, n, format)
  BY DEF Rest
<1>3. n # Len(call.pieces)
  BY <1>1, <1>2, LastBehind
<1> QED
  BY <1>3, OpenedAt

LEMMA RestSame ==
  ASSUME NEW n, NEW t, NEW u, Rest(n, t, u), call' = call
  PROVE  Rest(n, t, u)'
BY DEF Rest, Spellings, Takings

LEMMA PrintedSame ==
  ASSUME NEW n, Printed(n), UNCHANGED <<call, idx, sent, buffer>>
  PROVE  Printed(n)'
<1>1. Up(Renderings, n)' = Up(Renderings, n)
  BY DEF Renderings, Up
<1> DEFINE x == Up(Renderings, n)
<1>2. Holds(x) /\ x' = x
  BY <1>1 DEF Printed
<1> HIDE DEF x
<1>3. /\ idx' = Len(x)
      /\ sent' = IF call'.out = "char" THEN _out_char(x) ELSE <<>>
      /\ buffer' = [i \in 0 .. Cells - 1 |-> IF call'.out = "buffer" /\ i < Len(x) /\ i < call'.maxlen THEN x[i + 1] ELSE Junk]
  BY <1>2 DEF Holds, Stored
<1>4. Holds(x)'
  BY <1>2, <1>3 DEF Holds, Stored
<1> QED
  BY <1>4 DEF Printed, x

\* What one more piece prints.
LEMMA PrintedNext ==
  ASSUME call \in Calls, NEW n \in 1 .. Len(call.pieces), Printed(n - 1), call' = call,
         Out(Rendering(call.pieces[n], call.program))
  PROVE  Printed(n)'
<1> DEFINE r == Rendering(call.pieces[n], call.program)
           x == Up(Renderings, n - 1)
           y == Up(Renderings, n)
           N == Len(call.pieces)
<1>1. /\ Renderings \in Seq(Seq(Symbol)) /\ Len(Renderings) = N /\ Renderings[n] = r
  BY PiecesAre
<1>2. N \in Nat /\ call.maxlen \in Nat
  BY CallIs
<1>3. n - 1 \in 0 .. N
  <2>1. n \in 1 .. N
    OBVIOUS
  <2> HIDE DEF N
  <2> QED
    BY <1>2, <2>1
<1>4. x \in Seq(Symbol) /\ r \in Seq(Symbol) /\ y = x \o r
  BY <1>1, <1>3, UpFacts
<1>5. Holds(x)
  BY DEF Printed
<1> HIDE DEF r, x
<1>6. PICK a, b : a = x /\ b = r
  OBVIOUS
<1>7. a \in Seq(Symbol) /\ b \in Seq(Symbol) /\ Holds(a)
  BY <1>4, <1>5, <1>6
<1>8. Out(b)
  BY <1>6 DEF r
<1>9. Holds(a \o b)'
  BY <1>2, <1>7, <1>8, Grown
<1>10. y' = y
  BY DEF Renderings, Up
<1>11. y' = a \o b
  BY <1>4, <1>6, <1>10
<1> HIDE DEF y
<1>12. Holds(y)'
  BY <1>9, <1>11 DEF Holds, Stored
<1> QED
  BY <1>12 DEF Printed, y

LEMMA PercentStep ==
  ASSUME call \in Calls, InLoop, Percent
  PROVE  InDirective'
<1>1. PICK n \in 0 .. Len(call.pieces) : Looped(n)
  BY DEF InLoop
<1>2. Rest(n, format, va) /\ Printed(n)
  BY <1>1 DEF Looped
<1>3. Char = "%" /\ format' = Tail(format) /\ at' = "flags"
      /\ UNCHANGED <<call, va, flags, width, precision, idx, buffer, sent>>
  BY DEF Percent
<1>4. format # <<>> /\ Char = Head(format)
  BY <1>3 DEF Char, EOS
<1> DEFINE m == n + 1
<1>5. \E piece, t, u : Ahead(m, piece, t, u)
  BY <1>2, <1>4, Opened
<1> HIDE DEF m
<1>6. PICK piece, t, u : Ahead(m, piece, t, u)
  BY <1>5
<1>7. /\ m \in 1 .. Len(call.pieces) /\ piece = call.pieces[m]
      /\ Rest(m, t, u) /\ format = Spelled(piece) \o t /\ va = Taken(piece) \o u
  BY <1>6 DEF Ahead
<1>8. call.program \in {"kernel", "loader"} /\ Conforming(piece, call.program)
  BY <1>7, CallIs
<1>9. t \in Seq(Symbol) /\ u \in Seq(Arguments)
  BY <1>7 DEF Rest, Leaves
<1>10. ~IsLit(piece)
  <2> SUFFICES ASSUME IsLit(piece) PROVE FALSE
    OBVIOUS
  <2> DEFINE c == piece.lit
  <2>1. c \in Symbol /\ c # "%" /\ Spelled(piece) = <<c>>
    BY <1>8, PieceIs
  <2> HIDE DEF c
  <2>2. Head(<<c>> \o t) = c
    BY <1>9, <2>1, InFront
  <2>3. Head(format) = c
    BY <1>7, <2>1, <2>2
  <2> QED
    BY <1>3, <1>4, <2>1, <2>3
<1>11. WellFormed(piece)
  BY <1>8, <1>10, PieceIs
<1>12. Tail(format) = piece.flags \o (FromWidth(piece) \o t)
  BY <1>7, <1>9, <1>10, <1>11, DirectiveRead
<1>13. va = FromStars(piece, u)
  BY <1>7, <1>9, <1>10, <1>11, TakenAre
<1>14. Stage(piece, t, u)'
  <2>1. format' = piece.flags \o (FromWidth(piece) \o t) /\ va' = FromStars(piece, u)
    BY <1>3, <1>12, <1>13
  <2>2. AtFlags(piece, t, u)'
    BY <2>1 DEF AtFlags, FromStars, FromStar, FromValue, StarOf
  <2> QED
    BY <1>3, <2>2 DEF Stage
<1>15. m - 1 = n
  BY CallIs DEF m
<1>16. Printed(m - 1)'
  <2>1. Printed(n)'
    BY <1>2, <1>3, PrintedSame
  <2> QED
    BY <1>15, <2>1
<1>17. Rest(m, t, u)'
  BY <1>3, <1>7, RestSame
<1>18. Inside(m, piece, t, u)'
  BY <1>3, <1>7, <1>10, <1>14, <1>16, <1>17 DEF Inside
<1> QED
  BY <1>3, <1>7, <1>18 DEF InDirective

LEMMA LiteralStep ==
  ASSUME call \in Calls, InLoop, Literal
  PROVE  InLoop'
<1>1. PICK n \in 0 .. Len(call.pieces) : Looped(n)
  BY DEF InLoop
<1>2. Rest(n, format, va) /\ Printed(n)
  BY <1>1 DEF Looped
<1>3. Char \notin {"%", EOS} /\ Out(<<Char>>) /\ format' = Tail(format)
      /\ UNCHANGED <<call, va, flags, width, precision, at>>
  BY DEF Literal
<1>4. format # <<>> /\ Char = Head(format)
  BY <1>3 DEF Char
<1> DEFINE m == n + 1
<1>5. \E piece, t, u : Ahead(m, piece, t, u)
  BY <1>2, <1>4, Opened
<1> HIDE DEF m
<1>6. PICK piece, t, u : Ahead(m, piece, t, u)
  BY <1>5
<1>7. /\ m \in 1 .. Len(call.pieces) /\ piece = call.pieces[m]
      /\ Rest(m, t, u) /\ format = Spelled(piece) \o t /\ va = Taken(piece) \o u
  BY <1>6 DEF Ahead
<1>8. call.program \in {"kernel", "loader"} /\ Conforming(piece, call.program)
  BY <1>7, CallIs
<1>9. t \in Seq(Symbol) /\ u \in Seq(Arguments)
  BY <1>7 DEF Rest, Leaves
<1>10. IsLit(piece)
  <2> SUFFICES ASSUME ~IsLit(piece) PROVE FALSE
    OBVIOUS
  <2>1. WellFormed(piece)
    BY <1>8, PieceIs
  <2>2. Head(Spelled(piece) \o t) = "%"
    BY <1>9, <2>1, DirectiveRead
  <2> QED
    BY <1>3, <1>4, <1>7, <2>2
<1> DEFINE c == piece.lit
<1>11. /\ c \in Symbol /\ Spelled(piece) = <<c>> /\ Taken(piece) = <<>>
       /\ Rendering(piece, call.program) = <<c>>
  BY <1>8, <1>10, PieceIs
<1> HIDE DEF c
<1>12. Head(<<c>> \o t) = c /\ Tail(<<c>> \o t) = t
  BY <1>9, <1>11, InFront
<1>13. Char = c /\ format' = t
  BY <1>3, <1>4, <1>7, <1>11, <1>12
<1>14. va' = u
  <2>1. <<>> \o u = u
    BY <1>9, NothingInFront
  <2> QED
    BY <1>3, <1>7, <1>11, <2>1
<1>15. m - 1 = n
  BY CallIs DEF m
<1>16. Printed(m)'
  <2>1. Printed(m - 1)
    BY <1>2, <1>15
  <2>2. Out(Rendering(call.pieces[m], call.program))
    BY <1>3, <1>7, <1>11, <1>13
  <2> QED
    BY <1>3, <1>7, <2>1, <2>2, PrintedNext
<1>17. Rest(m, t, u)'
  BY <1>3, <1>7, RestSame
<1>18. Rest(m, format, va)'
  BY <1>13, <1>14, <1>17 DEF Rest
<1>19. m \in 0 .. Len(call'.pieces)
  BY <1>3, <1>7
<1> QED
  BY <1>16, <1>18, <1>19 DEF InLoop, Looped

Reading == ReadFlags \/ ReadWidth \/ ReadPrecision \/ ReadLength

LEMMA StageStep ==
  ASSUME NEW piece, WellFormed(piece), ~IsLit(piece), NEW t \in Seq(Symbol), NEW u \in Seq(Arguments),
         Stage(piece, t, u), Reading
  PROVE  /\ Stage(piece, t, u)' /\ at' \notin {"loop", "done"}
         /\ width' = width \/ width' \in Nat
         /\ precision' = precision \/ precision' \in Nat
<1>1. CASE ReadFlags
  <2>1. at = "flags" /\ at' = "width" /\ width' = width /\ precision' = precision
    BY <1>1 DEF ReadFlags
  <2>2. AtFlags(piece, t, u)
    BY <2>1 DEF Stage
  <2>3. AtWidth(piece, t, u)'
    BY <1>1, <2>2, FlagsStep
  <2> QED
    BY <2>1, <2>3 DEF Stage
<1>2. CASE ReadWidth
  <2>1. at = "width" /\ at' = "precision" /\ precision' = precision
    BY <1>2 DEF ReadWidth, WidthNumber, WidthStar, NoWidth
  <2>2. AtWidth(piece, t, u)
    BY <2>1 DEF Stage
  <2>3. AtPrecision(piece, t, u)' /\ width' \in Nat
    BY <1>2, <2>2, WidthStep
  <2> QED
    BY <2>1, <2>3 DEF Stage
<1>3. CASE NoPrecision
  <2>1. at = "precision" /\ at' = "length" /\ width' = width
    BY <1>3 DEF NoPrecision
  <2>2. AtPrecision(piece, t, u)
    BY <2>1 DEF Stage
  <2>3. AtLength(piece, t, u)' /\ precision' \in Nat
    BY <1>3, <2>2, PrecisionStep
  <2> QED
    BY <2>1, <2>3 DEF Stage
<1>4. CASE Point
  <2>1. at = "precision" /\ at' = "point" /\ width' = width
    BY <1>4 DEF Point
  <2>2. AtPrecision(piece, t, u)
    BY <2>1 DEF Stage
  <2>3. AtPoint(piece, t, u)' /\ precision' \in Nat
    BY <1>4, <2>2, PrecisionStep
  <2> QED
    BY <2>1, <2>3 DEF Stage
<1>5. CASE PrecisionNumber \/ PrecisionStar \/ PrecisionZero
  <2>1. at = "point" /\ at' = "length" /\ width' = width
    BY <1>5 DEF PrecisionNumber, PrecisionStar, PrecisionZero
  <2>2. AtPoint(piece, t, u)
    BY <2>1 DEF Stage
  <2>3. AtLength(piece, t, u)' /\ precision' \in Nat
    BY <1>5, <2>2, PointStep
  <2> QED
    BY <2>1, <2>3 DEF Stage
<1>6. CASE ReadLength
  <2>1. at = "length" /\ at' = "specifier" /\ width' = width /\ precision' = precision
    BY <1>6 DEF ReadLength
  <2>2. AtLength(piece, t, u)
    BY <2>1 DEF Stage
  <2>3. AtSpecifier(piece, t, u)'
    BY <1>6, <2>2, LengthStep
  <2> QED
    BY <2>1, <2>3 DEF Stage
<1> QED
  BY <1>1, <1>2, <1>3, <1>4, <1>5, <1>6 DEF Reading, ReadPrecision

\* What being within a directive says.
LEMMA InsideIs ==
  ASSUME call \in Calls, NEW n \in 1 .. Len(call.pieces), NEW piece, NEW t, NEW u, Inside(n, piece, t, u)
  PROVE  /\ WellFormed(piece) /\ ~IsLit(piece) /\ t \in Seq(Symbol) /\ u \in Seq(Arguments)
         /\ call.program \in {"kernel", "loader"} /\ Conforming(piece, call.program)
<1>1. piece = call.pieces[n] /\ ~IsLit(piece) /\ Rest(n, t, u)
  BY DEF Inside
<1>2. call.program \in {"kernel", "loader"} /\ Conforming(piece, call.program)
  BY <1>1, CallIs
<1>3. WellFormed(piece)
  BY <1>1, <1>2, PieceIs
<1> QED
  BY <1>1, <1>2, <1>3 DEF Rest, Leaves

LEMMA ReadingStep ==
  ASSUME call \in Calls, InDirective, Reading
  PROVE  /\ InDirective' /\ at' \notin {"loop", "done"}
         /\ width' = width \/ width' \in Nat
         /\ precision' = precision \/ precision' \in Nat
<1>1. PICK n \in 1 .. Len(call.pieces) : \E piece, t, u : Inside(n, piece, t, u)
  BY DEF InDirective
<1>2. PICK piece, t, u : Inside(n, piece, t, u)
  BY <1>1
<1>3. piece = call.pieces[n] /\ Rest(n, t, u) /\ Printed(n - 1) /\ Stage(piece, t, u)
  BY <1>2 DEF Inside
<1>4. WellFormed(piece) /\ ~IsLit(piece) /\ t \in Seq(Symbol) /\ u \in Seq(Arguments)
  BY <1>2, InsideIs
<1>5. UNCHANGED <<call, idx, sent, buffer>>
  BY DEF Reading, ReadFlags, ReadWidth, WidthNumber, WidthStar, NoWidth, ReadPrecision, NoPrecision, Point,
         PrecisionNumber, PrecisionStar, PrecisionZero, ReadLength
<1>6. /\ Stage(piece, t, u)' /\ at' \notin {"loop", "done"}
      /\ width' = width \/ width' \in Nat
      /\ precision' = precision \/ precision' \in Nat
  BY <1>3, <1>4, StageStep
<1>7. Rest(n, t, u)' /\ Printed(n - 1)'
  BY <1>3, <1>5, RestSame, PrintedSame
<1>8. Inside(n, piece, t, u)'
  BY <1>3, <1>4, <1>5, <1>6, <1>7 DEF Inside
<1> QED
  BY <1>5, <1>6, <1>8 DEF InDirective

LEMMA SpecifierStep ==
  ASSUME call \in Calls, InDirective, Convert \/ OtherSpecifier
  PROVE  InLoop'
<1>1. PICK n \in 1 .. Len(call.pieces) : \E piece, t, u : Inside(n, piece, t, u)
  BY DEF InDirective
<1>2. PICK piece, t, u : Inside(n, piece, t, u)
  BY <1>1
<1>3. piece = call.pieces[n] /\ Rest(n, t, u) /\ Printed(n - 1) /\ Stage(piece, t, u)
  BY <1>2 DEF Inside
<1>4. /\ WellFormed(piece) /\ ~IsLit(piece) /\ t \in Seq(Symbol) /\ u \in Seq(Arguments)
      /\ call.program \in {"kernel", "loader"} /\ Conforming(piece, call.program)
  BY <1>2, InsideIs
<1>5. at = "specifier" /\ format' = Tail(format) /\ call' = call
  BY DEF Convert, OtherSpecifier
<1>6. format = <<piece.spec>> \o t /\ va = FromValue(piece, u) /\ Read(piece)
  BY <1>3, <1>5 DEF Stage, AtSpecifier
<1> DEFINE c == piece.spec
           v == piece.value
           r == Rendering(piece, call.program)
<1>7. c \in Symbol /\ c \in Specifiers
  BY <1>4, SpecifierIs
<1>8. format # <<>> /\ Head(format) = c /\ Tail(format) = t
  <2> HIDE DEF c
  <2>1. <<c>> \o t # <<>> /\ Head(<<c>> \o t) = c /\ Tail(<<c>> \o t) = t
    BY <1>4, <1>7, InFront
  <2> QED
    BY <1>6, <2>1 DEF c
<1>9. Char = c /\ format' = t
  BY <1>5, <1>8, CharIs
<1>10. Out(r) /\ va' = u
  <2>1. CASE c = "%"
    <3>1. Out(<<c>>) /\ va' = va
      BY <1>9, <2>1 DEF Convert, OtherSpecifier, Integers_
    <3>2. r = <<c>>
      BY <1>4, <2>1 DEF Rendering
    <3>3. va = <<>> \o u
      BY <1>6, <2>1 DEF FromValue, ValueOf
    <3>4. <<>> \o u = u
      BY <1>4, NothingInFront
    <3> QED
      BY <3>1, <3>2, <3>3, <3>4
  <2>2. CASE c # "%"
    <3>1. c \in Integers_ \cup {"p", "c", "s"}
      BY <1>7, <2>2 DEF Specifiers
    <3>2. Out(Converted(c, Head(va))) /\ va' = Tail(va)
      BY <1>9, <3>1 DEF Convert, OtherSpecifier
    <3>3. va = <<v>> \o u
      BY <1>6, <2>2 DEF FromValue, ValueOf
    <3>4. v \in Arguments
      <4>1. v \in Nat \/ v \in STRING \/ v \in Seq(STRING)
        BY <1>4, <2>2 DEF WellFormed
      <4> QED
        BY <4>1, SymbolsIn, StringsAreText DEF Arguments
    <3>5. Converted(c, v) = r
      BY <1>4, <1>6, <2>2, DirectiveRendered
    <3> HIDE DEF v, r, c
    <3>6. Head(<<v>> \o u) = v /\ Tail(<<v>> \o u) = u
      BY <1>4, <3>4, InFront
    <3>7. Head(va) = v /\ va' = u
      BY <3>2, <3>3, <3>6
    <3> QED
      BY <3>2, <3>5, <3>7
  <2> QED
    BY <2>1, <2>2
<1>11. Printed(n)'
  <2>1. Out(Rendering(call.pieces[n], call.program))
    BY <1>3, <1>10
  <2> QED
    BY <1>3, <1>5, <2>1, PrintedNext
<1>12. Rest(n, t, u)'
  BY <1>3, <1>5, RestSame
<1>13. Rest(n, format, va)'
  BY <1>9, <1>10, <1>12 DEF Rest
<1>14. n \in 0 .. Len(call'.pieces)
  BY <1>5
<1> QED
  BY <1>11, <1>13, <1>14 DEF InLoop, Looped

LEMMA PrintedType ==
  ASSUME call \in Calls, call' = call, NEW n \in 0 .. Len(call.pieces), Printed(n)'
  PROVE  idx' \in Nat /\ DOMAIN buffer' = 0 .. Cells - 1
<1> DEFINE x == Up(Renderings, n)
<1>1. x' = x
  BY DEF Renderings, Up
<1>2. Renderings \in Seq(Seq(Symbol)) /\ Len(Renderings) = Len(call.pieces)
  BY PiecesAre
<1>3. x \in Seq(Symbol)
  BY <1>2, UpFacts
<1>4. Len(x) \in Nat
  BY <1>3, LenProperties
<1>5. Holds(x)'
  BY DEF Printed
<1> HIDE DEF x
<1>6. idx' = Len(x') /\ buffer' = [i \in 0 .. Cells - 1 |-> Stored(x, i)']
  BY <1>5 DEF Holds
<1> QED
  BY <1>1, <1>4, <1>6

LEMMA PrintInitInv == PrintInit => PrintInv
<1> SUFFICES ASSUME PrintInit PROVE PrintInv
  OBVIOUS
<1>1. call \in Calls /\ at = "loop" /\ idx = 0 /\ sent = <<>> /\ width = 0 /\ precision = 0
      /\ buffer = [i \in 0 .. Cells - 1 |-> Junk]
      /\ format = FlattenSeq(Spellings) /\ va = FlattenSeq(Takings)
  BY DEF PrintInit, Called, Spellings, Takings
<1>2. /\ Spellings \in Seq(Seq(Symbol)) /\ Takings \in Seq(Seq(Arguments)) /\ Renderings \in Seq(Seq(Symbol))
  BY <1>1, PiecesAre
<1>3. Len(call.pieces) \in Nat
  BY <1>1, CallIs
<1>4. ASSUME NEW S, NEW seqs \in Seq(Seq(S)) PROVE Leaves(S, seqs, 0, FlattenSeq(seqs))
  <2> DEFINE f == FlattenSeq(seqs)
  <2>1. Len(seqs) \in 0 .. Len(seqs)
    BY UpFacts
  <2>2. f \in Seq(S) /\ Up(seqs, 0) = <<>>
    BY <2>1, UpFacts
  <2> HIDE DEF f
  <2>3. <<>> \o f = f
    BY <2>2, NothingInFront
  <2> QED
    BY <2>2, <2>3 DEF Leaves, f
<1>5. Rest(0, format, va)
  <2>1. Leaves(Symbol, Spellings, 0, FlattenSeq(Spellings)) /\ Leaves(Arguments, Takings, 0, FlattenSeq(Takings))
    BY <1>2, <1>4
  <2> QED
    BY <1>1, <2>1 DEF Rest
<1>6. Printed(0)
  <2> DEFINE x == <<>>
  <2>1. x \in Seq(Symbol) /\ Len(x) = 0
    BY EmptySeq
  <2>2. Up(Renderings, 0) = x
    BY DEF Up
  <2>3. _out_char(x) = <<>>
    <3> HIDE DEF x
    <3>1. Sends(x) \in Seq(Seq(Symbol)) /\ Len(Sends(x)) = 0
      BY <2>1, SendsIs
    <3>2. FlattenSeq(Sends(x)) = Up(Sends(x), 0)
      BY <3>1, UpFacts
    <3>3. _out_char(x) = FlattenSeq(Sends(x))
      BY DEF _out_char, Sends
    <3> QED
      BY <3>2, <3>3 DEF Up
  <2> HIDE DEF x
  <2>4. \A i \in 0 .. Cells - 1 : Stored(x, i) = Junk
    <3>1. \A i \in 0 .. Cells - 1 : ~(i < Len(x))
      BY <2>1
    <3> QED
      BY <3>1 DEF Stored
  <2>5. Holds(x)
    BY <1>1, <2>1, <2>3, <2>4 DEF Holds
  <2> QED
    BY <2>2, <2>5 DEF Printed
<1>7. InLoop
  BY <1>3, <1>5, <1>6 DEF InLoop, Looped
<1>8. TextRendered
  BY <1>1 DEF TextRendered, PrintTypeOK
<1> QED
  BY <1>1, <1>7, <1>8 DEF PrintInv

\* There is a piece ahead only when there is something of the format.
LEMMA AheadIs ==
  ASSUME call \in Calls, NEW m, NEW piece, NEW t, NEW u, Ahead(m, piece, t, u)
  PROVE  format # <<>> /\ Head(format) # EOS
<1>1. /\ m \in 1 .. Len(call.pieces) /\ piece = call.pieces[m]
      /\ Rest(m, t, u) /\ format = Spelled(piece) \o t
  BY DEF Ahead
<1>2. call.program \in {"kernel", "loader"} /\ Conforming(piece, call.program)
  BY <1>1, CallIs
<1>3. t \in Seq(Symbol)
  BY <1>1 DEF Rest, Leaves
<1>4. CASE IsLit(piece)
  <2> DEFINE c == piece.lit
  <2>1. c \in Symbol /\ c # EOS /\ Spelled(piece) = <<c>>
    BY <1>2, <1>4, PieceIs
  <2> HIDE DEF c
  <2>2. <<c>> \o t # <<>> /\ Head(<<c>> \o t) = c
    BY <1>3, <2>1, InFront
  <2> QED
    BY <1>1, <2>1, <2>2
<1>5. CASE ~IsLit(piece)
  <2>1. WellFormed(piece)
    BY <1>2, <1>5, PieceIs
  <2>2. Spelled(piece) \o t # <<>> /\ Head(Spelled(piece) \o t) = "%"
    BY <1>3, <1>5, <2>1, DirectiveRead
  <2> QED
    BY <1>1, <2>2 DEF EOS
<1> QED
  BY <1>4, <1>5

LEMMA TerminateStep ==
  ASSUME PrintInv, Terminate
  PROVE  TextRendered' /\ at' = "done"
<1>1. at = "loop" /\ Char = EOS /\ at' = "done"
      /\ UNCHANGED <<call, format, va, flags, width, precision, idx, sent>>
  BY DEF Terminate
<1>2. call \in Calls /\ InLoop /\ PrintTypeOK
  BY <1>1 DEF PrintInv, TextRendered
<1>3. PICK n \in 0 .. Len(call.pieces) : Looped(n)
  BY <1>2 DEF InLoop
<1>4. Rest(n, format, va) /\ Printed(n)
  BY <1>3 DEF Looped
<1>5. n = Len(call.pieces)
  <2> SUFFICES ASSUME n # Len(call.pieces) PROVE FALSE
    OBVIOUS
  <2>1. \E piece, t, u : Ahead(n + 1, piece, t, u)
    BY <1>2, <1>4, OpenedAt
  <2> DEFINE m == n + 1
  <2>2. \E piece, t, u : Ahead(m, piece, t, u)
    BY <2>1
  <2> HIDE DEF m
  <2>3. format # <<>> /\ Head(format) # EOS
    BY <1>2, <2>2, AheadIs
  <2> QED
    BY <1>1, <2>3, CharIs
<1> DEFINE text == Text(call)
<1>6. text \in Seq(Symbol) /\ Holds(text)
  <2>1. Renderings \in Seq(Seq(Symbol)) /\ Len(Renderings) = Len(call.pieces)
    BY <1>2, PiecesAre
  <2>2. text = FlattenSeq(Renderings)
    BY DEF Text, Renderings
  <2>3. FlattenSeq(Renderings) = Up(Renderings, n) /\ Up(Renderings, n) \in Seq(Symbol)
    BY <1>5, <2>1, UpFacts
  <2> QED
    BY <1>4, <2>2, <2>3 DEF Printed
<1>7. call.maxlen \in 0 .. SIZE_MAX /\ (call.out = "buffer" => Smaller(Len(text) + 1, call.maxlen) <= Cells)
  BY <1>2, CallIs
<1>8. text' = text
  BY <1>1 DEF Text, Rendering
<1> HIDE DEF text
<1>9. PICK x : x = text
  OBVIOUS
<1> DEFINE stored == Smaller(Len(x), Larger(call.maxlen - 1, 0))
<1>10. /\ idx' = Len(x) /\ sent' = (IF call.out = "char" THEN _out_char(x) ELSE <<>>)
       /\ DOMAIN buffer' = 0 .. Cells - 1
       /\ \A i \in DOMAIN buffer' :
            buffer'[i] = IF call.out # "buffer" \/ call.maxlen = 0 \/ i > stored THEN Junk
                         ELSE IF i < stored THEN x[i + 1] ELSE EOS
  BY <1>6, <1>7, <1>9, Finished
<1>11. PrintTypeOK'
  BY <1>1, <1>2, <1>10 DEF PrintTypeOK
<1>12. TextRendered'
  BY <1>1, <1>8, <1>9, <1>10, <1>11 DEF TextRendered, text
<1> QED
  BY <1>1, <1>12

LEMMA PrintStep == PrintInv /\ [PrintNext]_printVars => PrintInv'
<1> SUFFICES ASSUME PrintInv, [PrintNext]_printVars PROVE PrintInv'
  OBVIOUS
<1>1. call \in Calls /\ TextRendered /\ PrintTypeOK
  BY DEF PrintInv, TextRendered
<1>2. CASE Percent
  <2>1. at = "loop" /\ at' = "flags" /\ UNCHANGED <<call, width, precision, idx, buffer>>
    BY <1>2 DEF Percent
  <2>2. InDirective'
    BY <1>1, <1>2, <2>1, PercentStep DEF PrintInv
  <2> QED
    BY <1>1, <2>1, <2>2 DEF PrintInv, TextRendered, PrintTypeOK
<1>3. CASE Reading
  <2>1. at \notin {"loop", "done"} /\ UNCHANGED <<call, idx, buffer>>
        /\ at' \in {"width", "precision", "point", "length", "specifier"}
    BY <1>3 DEF Reading, ReadFlags, ReadWidth, WidthNumber, WidthStar, NoWidth, ReadPrecision, NoPrecision, Point,
         PrecisionNumber, PrecisionStar, PrecisionZero, ReadLength
  <2>2. /\ InDirective'
        /\ width' = width \/ width' \in Nat
        /\ precision' = precision \/ precision' \in Nat
    BY <1>1, <1>3, <2>1, ReadingStep DEF PrintInv
  <2>3. PrintTypeOK'
    BY <1>1, <2>1, <2>2 DEF PrintTypeOK
  <2> QED
    BY <1>1, <2>1, <2>2, <2>3 DEF PrintInv, TextRendered
<1>4. CASE Literal \/ Convert \/ OtherSpecifier
  <2>1. at' = "loop" /\ UNCHANGED <<call, width, precision>>
    BY <1>4 DEF Literal, Convert, OtherSpecifier
  <2>2. InLoop'
    <3>1. CASE Literal
      <4>1. at = "loop"
        BY <3>1 DEF Literal
      <4> QED
        BY <1>1, <3>1, <4>1, LiteralStep DEF PrintInv
    <3>2. CASE Convert \/ OtherSpecifier
      <4>1. at = "specifier"
        BY <3>2 DEF Convert, OtherSpecifier
      <4> QED
        BY <1>1, <3>2, <4>1, SpecifierStep DEF PrintInv
    <3> QED
      BY <1>4, <3>1, <3>2
  <2>3. PICK n \in 0 .. Len(call.pieces) : Printed(n)'
    BY <2>1, <2>2 DEF InLoop, Looped
  <2>4. idx' \in Nat /\ DOMAIN buffer' = 0 .. Cells - 1
    BY <1>1, <2>1, <2>3, PrintedType
  <2>5. PrintTypeOK'
    BY <1>1, <2>1, <2>4 DEF PrintTypeOK
  <2> QED
    BY <1>1, <2>1, <2>2, <2>5 DEF PrintInv, TextRendered
<1>5. CASE Terminate
  <2>1. TextRendered' /\ at' = "done"
    BY <1>5, TerminateStep
  <2>2. call' = call
    BY <1>5 DEF Terminate
  <2> QED
    BY <1>1, <2>1, <2>2 DEF PrintInv
<1>6. CASE UNCHANGED printVars
  <2>1. UNCHANGED <<call, format, va, flags, width, precision, idx, buffer, sent, at>>
    BY <1>6 DEF printVars
  <2>2. at = "loop" => InLoop'
    <3> SUFFICES ASSUME at = "loop" PROVE InLoop'
      OBVIOUS
    <3>1. PICK n \in 0 .. Len(call.pieces) : Looped(n)
      BY DEF PrintInv, InLoop
    <3>2. Rest(n, format, va)' /\ Printed(n)'
      <4>1. Rest(n, format, va) /\ Printed(n)
        BY <3>1 DEF Looped
      <4>2. PICK t, u : t = format /\ u = va
        OBVIOUS
      <4>3. Rest(n, t, u)'
        BY <2>1, <4>1, <4>2, RestSame
      <4>4. Printed(n)'
        BY <2>1, <4>1, PrintedSame
      <4> QED
        BY <2>1, <4>2, <4>3, <4>4 DEF Rest
    <3> QED
      BY <2>1, <3>2 DEF InLoop, Looped
  <2>3. at \notin {"loop", "done"} => InDirective'
    <3> SUFFICES ASSUME at \notin {"loop", "done"} PROVE InDirective'
      OBVIOUS
    <3>1. PICK n \in 1 .. Len(call.pieces) : \E piece, t, u : Inside(n, piece, t, u)
      BY DEF PrintInv, InDirective
    <3>2. PICK piece, t, u : Inside(n, piece, t, u)
      BY <3>1
    <3>3. piece = call.pieces[n] /\ ~IsLit(piece) /\ Rest(n, t, u) /\ Printed(n - 1) /\ Stage(piece, t, u)
      BY <3>2 DEF Inside
    <3>4. Rest(n, t, u)' /\ Printed(n - 1)'
      BY <2>1, <3>3, RestSame, PrintedSame
    <3>5. Stage(piece, t, u)'
      BY <2>1, <3>3 DEF Stage, AtFlags, AtWidth, AtPrecision, AtPoint, AtLength, AtSpecifier, Read, LengthOf
    <3>6. Inside(n, piece, t, u)'
      BY <2>1, <3>3, <3>4, <3>5 DEF Inside
    <3> QED
      BY <2>1, <3>6 DEF InDirective
  <2>4. TextRendered'
    <3>1. Text(call)' = Text(call)
      BY <2>1 DEF Text, Rendering
    <3> QED
      BY <1>1, <2>1, <3>1 DEF TextRendered, PrintTypeOK, _out_char
  <2> QED
    BY <1>1, <2>1, <2>2, <2>3, <2>4 DEF PrintInv
<1> QED
  BY <1>2, <1>3, <1>4, <1>5, <1>6 DEF PrintNext, Reading

\* Whatever is printed: for every call whose directives conform, on both
\* programs, _vsnprintf sends to putchar, or stores up to count, the text that
\* the C standard makes of the format and the arguments, ends it with one zero
\* within the buffer, and returns its length.
THEOREM Printf_TextRendered == PrintSpec => []TextRendered
<1>1. PrintInit => PrintInv
  BY PrintInitInv
<1>2. PrintInv /\ [PrintNext]_printVars => PrintInv'
  BY PrintStep
<1>3. PrintInv => TextRendered
  BY DEF PrintInv
<1> QED
  BY <1>1, <1>2, <1>3, PTL DEF PrintSpec
=============================================================================
