----------------------------- MODULE Namespace -----------------------------
(***************************************************************************)
(* What a tree of named nodes promises: it maps paths to nodes, it has the *)
(* parent of every path it has, a request adds only prefixes of its path,  *)
(* no path ever changes its node or disappears, no two paths share a node, *)
(* and the answer to a request is the node of its path.                    *)
(***************************************************************************)
EXTENDS Integers, Sequences

CONSTANTS Requests,  \* paths that may be asked for
          Root       \* the node of the empty path

VARIABLES files,     \* path -> node
          want,      \* {path} while a request is served, {} otherwise
          answer,    \* the answer to the last request
          halted     \* the system has stopped

vars == <<files, want, answer, halted>>

Init ==
  /\ files = [q \in {<<>>} |-> Root]
  /\ want = {}
  /\ answer = Root
  /\ halted = FALSE

Request(w) ==
  /\ ~halted /\ want = {}
  /\ want' = {w}
  /\ UNCHANGED <<files, answer, halted>>

\* One more prefix of the path, below a path there is, gets a node no other
\* path has.
Make(q) ==
  /\ q \notin DOMAIN files
  /\ SubSeq(q, 1, Len(q) - 1) \in DOMAIN files
  /\ DOMAIN files' = DOMAIN files \cup {q}
  /\ \A r \in DOMAIN files : files'[r] = files[r] /\ files'[q] # files[r]
  /\ UNCHANGED <<want, answer, halted>>

Answer ==
  /\ \E w \in want : w \in DOMAIN files /\ answer' = files[w]
  /\ want' = {}
  /\ UNCHANGED <<files, halted>>

\* A request may find the system unable to go on.
Halt ==
  /\ halted' = TRUE
  /\ want' = {}
  /\ UNCHANGED <<files, answer>>

Next == \/ \E w \in Requests : Request(w)
        \/ \E w \in want : \E k \in 1 .. Len(w) : Make(SubSeq(w, 1, k))
        \/ Answer
        \/ Halt

Spec == Init /\ [][Next]_vars
=============================================================================
