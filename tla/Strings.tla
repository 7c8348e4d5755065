------------------------------- MODULE Strings -------------------------------
(***************************************************************************)
(* strtok (src/libc/src/string.c) with which the file system takes paths   *)
(* apart: it cuts a copy of the path in place, from a static pointer.      *)
(* Vfs takes the sequence of names strtok finds for a path; here it is     *)
(* found.  Memory is bytes, and goes on behind the string.                 *)
(***************************************************************************)
EXTENDS Integers, Sequences

CONSTANTS Byte,      \* what memory holds
          Paths,     \* what strdup is given: the bytes before the NUL
          Behind     \* the bytes behind the copy

NUL == "NUL"
delim == {"/"}

ASSUME StringsAssumption ==
  /\ NUL \in Byte
  /\ Paths \subseteq Seq(Byte \ {NUL})
  /\ Behind \in Seq(Byte)

VARIABLES path,    \* the string strdup is given
          heap,    \* addresses to bytes
          p,       \* strtok's static, null if 0
          got,     \* the pointers it returned for this path
          done     \* it returned 0

tokVars == <<path, heap, p, got, done>>

\* strdup: the string and its terminator in a block of the heap, at 1.
strdup(s) == s \o <<NUL>> \o Behind

\* How far the first of the bytes in stop is from s.
Span(m, s, stop) ==
  CHOOSE n \in {a - s : a \in DOMAIN m} :
    n >= 0 /\ m[s + n] \in stop /\ \A k \in 0 .. n - 1 : m[s + k] \notin stop

strlen(m, s) == Span(m, s, {NUL})
strspn(m, s, ct) == Span(m, s, Byte \ ct)
\* strchr is only asked for bytes that are not NUL.
strcspn(m, s, ct) == Span(m, s, ct \cup {NUL})

TokInit ==
  /\ path = <<>> /\ heap = strdup(<<>>)
  /\ p = 0 /\ got = <<>> /\ done = TRUE

\* p = *p ? *p = 0, p + 1 : 0.
Beyond(c) == TRUE
More(c) == c # NUL
\* strtok from where it stands; before says what it has returned.
Scan(m, from, before) ==
  LET str == from + strspn(m, from, delim)
      end == str + strcspn(m, str, delim)
  IN IF end = str
     THEN /\ p' = 0 /\ heap' = m /\ got' = before /\ done' = TRUE
     ELSE /\ p' = IF More(m[end]) THEN end + 1 ELSE 0
          /\ heap' = IF More(m[end]) THEN [m EXCEPT ![end] = NUL] ELSE m
          /\ got' = Append(before, str) /\ done' = FALSE

\* strtok(strdup(path), "/"), whatever was left of the path before it.
strtok(s) ==
  /\ path' = s
  /\ Scan(strdup(s), 1, <<>>)

\* strtok(NULL, "/")
strtok_next ==
  /\ p # 0
  /\ Scan(heap, p, got)
  /\ UNCHANGED path
strtok_none ==
  /\ p = 0
  /\ done' = TRUE
  /\ UNCHANGED <<path, heap, p, got>>

TokNext == (\E s \in Paths : strtok(s)) \/ strtok_next \/ strtok_none
TokSpec == TokInit /\ [][TokNext]_tokVars

-----------------------------------------------------------------------------
(* Properties                                                              *)

\* strtok's pointer is null or points into the copy, at most to its end, and
\* so do those it returned.
TokTypeOK ==
  /\ DOMAIN heap = 1 .. Len(path) + 1 + Len(Behind)
  /\ p \in 0 .. Len(path) + 1
  /\ \A k \in DOMAIN got : got[k] \in 1 .. Len(path)
  /\ done \in BOOLEAN

String(m, s) == [k \in 1 .. strlen(m, s) |-> m[s + k - 1]]

\* The names of a path are what is between slashes and not empty: where they
\* start, and the one that starts at i.
Starts(s) == {i \in DOMAIN s : s[i] # "/" /\ (i = 1 \/ s[i - 1] = "/")}
NameAt(s, i) ==
  SubSeq(s, i, CHOOSE j \in i .. Len(s) :
                 /\ \A k \in i .. j : s[k] # "/"
                 /\ j = Len(s) \/ s[j + 1] = "/")

\* Typed; and what strtok has returned are the first names of the path in
\* their order, each still reading as it did, and when it returns 0 they are
\* all of them: the loops of kcreate and kseek over a path see its names.
PathTokens ==
  /\ TokTypeOK
  /\ \A k \in DOMAIN got : /\ got[k] \in Starts(path)
                           /\ String(heap, got[k]) = NameAt(path, got[k])
  /\ \A k, l \in DOMAIN got : k < l => got[k] < got[l]
  /\ \A i \in Starts(path) :
       \/ \E k \in DOMAIN got : got[k] = i
       \/ ~done /\ \A k \in DOMAIN got : got[k] < i
=============================================================================
