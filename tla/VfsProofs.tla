----------------------------- MODULE VfsProofs -----------------------------
(* The tree of Vfs stays a tree with distinct siblings, kmount finds what   *)
(* its paths name, and the tree implements Namespace, for every set of      *)
(* requests.                                                                *)
EXTENDS Vfs, SequenceTheorems, TLAPS

\* No two nodes were created at one path.
Unique == \A m, n \in Nodes : where[m] = where[n] => m = n

\* Every prefix of a node's path is the path of a node.
Closed ==
  \A n \in Nodes : \A k \in 0 .. Len(where[n]) :
    \E m \in Nodes : where[m] = SubSeq(where[n], 1, k)

\* The path the loop in progress walks.
Walked == IF pc = "seek_device" THEN device ELSE path

\* The loops have walked the part of their path that strtok has handed out,
\* and kmount's node is that of its path once it is looking for the device.
Loops ==
  /\ Seeking \/ pc = "create" => where[cur] \o p = Walked
  /\ pc # "idle" => fn \in {"kcreate", "kmount"}
  /\ pc \in {"seek_path", "seek_device", "mount"} => fn = "kmount"
  /\ pc \in {"seek_device", "mount"} => where[target] = path

Shaped == Tree /\ Siblings /\ Unique /\ Closed

VfsInv == TypeOK /\ Shaped /\ Loops /\ Found

-----------------------------------------------------------------------------
(* Paths                                                                   *)

\* A path and its last name.
LEMMA AppendFacts ==
  ASSUME NEW s \in Seq(Names), NEW e \in Names
  PROVE  /\ Append(s, e) \in Seq(Names)
         /\ Len(s) \in Nat /\ Len(Append(s, e)) = Len(s) + 1
         /\ Append(s, e)[Len(s) + 1] = e
         /\ \A i \in 1 .. Len(s) : Append(s, e)[i] = s[i]
<1>1. Append(s, e) \in Seq(Names)
  BY AppendProperties
<1>2. Len(s) \in Nat
  BY LenProperties
<1>3. Len(Append(s, e)) = Len(s) + 1
  BY AppendProperties
<1>4. Append(s, e)[Len(s) + 1] = e
  BY AppendProperties
<1>5. \A i \in 1 .. Len(s) : Append(s, e)[i] = s[i]
  BY AppendProperties
<1> QED
  BY <1>1, <1>2, <1>3, <1>4, <1>5

\* One token more: the path walked so far and the rest are still the path.
LEMMA TokenStep ==
  ASSUME NEW s \in Seq(Names), NEW q \in Seq(Names), q # <<>>
  PROVE  /\ Head(q) \in Names /\ Tail(q) \in Seq(Names)
         /\ Append(s, Head(q)) \in Seq(Names)
         /\ Append(s, Head(q)) \o Tail(q) = s \o q
<1>1. Head(q) \in Names /\ Tail(q) \in Seq(Names)
  BY HeadTailProperties
<1>2. Append(s, Head(q)) \in Seq(Names)
  BY <1>1, AppendProperties
<1> DEFINE l == Append(s, Head(q)) \o Tail(q)
           r == s \o q
<1>3. /\ l \in Seq(Names) /\ Len(l) = Len(s) + 1 + Len(Tail(q))
      /\ \A i \in 1 .. Len(l) :
           l[i] = IF i <= Len(s) + 1 THEN Append(s, Head(q))[i] ELSE Tail(q)[i - (Len(s) + 1)]
  <2>1. Len(Append(s, Head(q))) = Len(s) + 1
    BY <1>1, AppendProperties
  <2> QED
    BY <2>1, <1>1, <1>2, ConcatProperties, LenProperties
<1>4. /\ r \in Seq(Names) /\ Len(r) = Len(s) + Len(q)
      /\ \A i \in 1 .. Len(r) : r[i] = IF i <= Len(s) THEN s[i] ELSE q[i - Len(s)]
  BY ConcatProperties, LenProperties
<1>5. /\ Len(s) \in Nat /\ Len(q) \in Nat \ {0} /\ Len(Tail(q)) = Len(q) - 1
      /\ \A i \in 1 .. Len(q) - 1 : Tail(q)[i] = q[i + 1]
      /\ Head(q) = q[1]
  BY HeadTailProperties, EmptySeq, LenProperties
<1>6. ASSUME NEW i \in 1 .. Len(l) PROVE l[i] = r[i]
  <2>1. i \in 1 .. Len(r) /\ i \in Nat
    BY <1>3, <1>4, <1>5
  <2>2. CASE i <= Len(s)
    BY <2>1, <2>2, <1>1, <1>3, <1>4, <1>5, AppendProperties
  <2>3. CASE i = Len(s) + 1
    BY <2>1, <2>3, <1>1, <1>3, <1>4, <1>5, AppendProperties
  <2>4. CASE i > Len(s) + 1
    <3>1. i - (Len(s) + 1) \in 1 .. Len(q) - 1
      BY <2>1, <2>4, <1>3, <1>5
    <3>2. Tail(q)[i - (Len(s) + 1)] = q[i - Len(s)]
      BY <3>1, <1>5
    <3> QED
      BY <3>1, <3>2, <2>1, <2>4, <1>3, <1>4, <1>5
  <2> QED
    BY <2>1, <2>2, <2>3, <2>4, <1>5
<1>7. l = r
  <2>1. l \in Seq(Names) /\ r \in Seq(Names) /\ Len(l) = Len(r)
    BY <1>3, <1>4, <1>5
  <2>2. \A i \in 1 .. Len(l) : l[i] = r[i]
    BY <1>6
  <2> HIDE DEF l, r
  <2> QED
    BY <2>1, <2>2, SeqEqual
<1> QED
  BY <1>1, <1>2, <1>7

\* The prefixes of a longer path are the longer path and those of the path.
LEMMA AppendPrefix ==
  ASSUME NEW s \in Seq(Names), NEW e \in Names, NEW k \in 0 .. Len(s) + 1
  PROVE  SubSeq(Append(s, e), 1, k) =
           IF k = Len(s) + 1 THEN Append(s, e) ELSE SubSeq(s, 1, k)
<1> DEFINE a == Append(s, e)
<1>1. /\ a \in Seq(Names) /\ Len(a) = Len(s) + 1 /\ Len(s) \in Nat
      /\ \A i \in 1 .. Len(s) : a[i] = s[i]
  BY AppendFacts
<1> HIDE DEF a
<1>2. CASE k = Len(s) + 1
  BY <1>1, <1>2, SubSeqFull DEF a
<1>3. CASE k <= Len(s)
  <2>1. /\ \A i \in 1 .. k : a[i] \in Names
        /\ \A i \in 1 .. k : s[i] \in Names
    BY <1>1, <1>3, ElementOfSeq
  <2>2. /\ SubSeq(a, 1, k) \in Seq(Names) /\ Len(SubSeq(a, 1, k)) = k
        /\ \A i \in 1 .. k : SubSeq(a, 1, k)[i] = a[i]
    BY <2>1, <1>1, <1>3, SubSeqProperties
  <2>3. /\ SubSeq(s, 1, k) \in Seq(Names) /\ Len(SubSeq(s, 1, k)) = k
        /\ \A i \in 1 .. k : SubSeq(s, 1, k)[i] = s[i]
    BY <2>1, <1>1, <1>3, SubSeqProperties
  <2>4. \A i \in 1 .. k : SubSeq(a, 1, k)[i] = SubSeq(s, 1, k)[i]
    BY <2>2, <2>3, <1>1, <1>3
  <2>5. SubSeq(a, 1, k) = SubSeq(s, 1, k)
    BY <2>2, <2>3, <2>4, SeqEqual
  <2>6. k # Len(s) + 1
    BY <1>1, <1>3
  <2> QED
    BY <2>5, <2>6, Zenon DEF a
<1>4. k = Len(s) + 1 \/ k <= Len(s)
  BY <1>1
<1> QED
  BY <1>2, <1>3, <1>4

\* The next prefix of a path whose first part has been walked.
LEMMA NextPrefix ==
  ASSUME NEW s \in Seq(Names), NEW q \in Seq(Names), q # <<>>
  PROVE  /\ Len(s) + 1 \in 1 .. Len(s \o q)
         /\ SubSeq(s \o q, 1, Len(s) + 1) = Append(s, Head(q))
<1> DEFINE a == Append(s, Head(q))
<1>1. /\ a \in Seq(Names) /\ Tail(q) \in Seq(Names) /\ a \o Tail(q) = s \o q
      /\ Head(q) \in Names
  BY TokenStep
<1>2. Len(a) = Len(s) + 1 /\ Len(s) \in Nat
  BY <1>1, AppendProperties, LenProperties
<1>3. Len(s \o q) = Len(s) + Len(q) /\ Len(q) \in Nat \ {0}
  BY ConcatProperties, EmptySeq
<1> HIDE DEF a
<1>4. SubSeq(a \o Tail(q), 1, Len(s) + 1) = SubSeq(a, 1, Len(s) + 1)
  BY <1>1, <1>2, SubSeqOfConcat1
<1>5. SubSeq(a, 1, Len(s) + 1) = a
  BY <1>1, <1>2, SubSeqFull
<1> QED
  BY <1>1, <1>2, <1>3, <1>4, <1>5 DEF a

-----------------------------------------------------------------------------
(* vfs_seek                                                                *)

\* What the records and the paths of the nodes are made of.
LEMMA NodeTypes ==
  ASSUME TypeOK, NEW n \in Nodes
  PROVE  /\ node[n].name \in Names
         /\ node[n].childs \in Seq(Nodes)
         /\ node[n].parent \in Nodes \cup {NULL}
         /\ node[n].device \in Nodes \cup {NULL}
         /\ node[n].fs_type \in {VfsType, Unregistered}
         /\ where[n] \in Seq(Names)
         /\ \A i \in 1 .. Len(node[n].childs) : node[n].childs[i] \in Nodes
<1>1. node[n] \in Record /\ where[n] \in Seq(Names)
  BY ElementOfSeq DEF TypeOK, Nodes
<1>2. node[n].childs \in Seq(Nodes)
  BY <1>1 DEF Record
<1> QED
  BY <1>1, <1>2, ElementOfSeq DEF Record

\* The node vfs_seek finds is a child with that name, at the path one longer.
LEMMA SeekFound ==
  ASSUME TypeOK, Tree, Siblings, NEW n \in Nodes, NEW name \in Names,
         vfs_seek(name, n) # NULL
  PROVE  /\ vfs_seek(name, n) \in Nodes
         /\ where[vfs_seek(name, n)] = Append(where[n], name)
<1>1. PICK i \in 1 .. Len(node[n].childs) : node[node[n].childs[i]].name = name
  BY DEF vfs_seek, Named
<1>2. Named(n, name) = {i}
  BY <1>1 DEF Named, Siblings
<1>3. i <= i
  BY NodeTypes, LenProperties
<1>4. vfs_seek(name, n) = node[n].childs[i]
  BY <1>2, <1>3 DEF vfs_seek
<1> DEFINE d == node[n].childs[i]
<1>5. where[d] = Append(where[n], node[d].name)
  BY DEF Tree
<1>6. d \in Nodes /\ node[d].name = name
  BY <1>1, NodeTypes
<1> HIDE DEF d
<1>7. where[d] = Append(where[n], name)
  BY <1>5, <1>6
<1> QED
  BY <1>4, <1>6, <1>7 DEF d

\* When it finds nothing, no child has the name.
LEMMA SeekMissed ==
  ASSUME TypeOK, Tree, Siblings, NEW n \in Nodes, NEW name \in Names,
         vfs_seek(name, n) = NULL
  PROVE  \A i \in 1 .. Len(node[n].childs) : node[node[n].childs[i]].name # name
<1> SUFFICES ASSUME NEW i \in 1 .. Len(node[n].childs),
                    node[node[n].childs[i]].name = name
             PROVE  FALSE
  OBVIOUS
<1>2. Named(n, name) = {i}
  BY DEF Named, Siblings
<1>3. i <= i
  BY NodeTypes, LenProperties
<1>4. vfs_seek(name, n) = node[n].childs[i]
  BY <1>2, <1>3 DEF vfs_seek
<1>5. node[n].childs[i] \in Nodes
  BY NodeTypes
<1> QED
  BY <1>4, <1>5 DEF NULL, Nodes

\* ... and no node at all is at that path.
LEMMA NoSuchPath ==
  ASSUME TypeOK, Shaped, NEW n \in Nodes, NEW name \in Names,
         vfs_seek(name, n) = NULL
  PROVE  \A m \in Nodes : where[m] # Append(where[n], name)
<1> SUFFICES ASSUME NEW m \in Nodes, where[m] = Append(where[n], name)
             PROVE  FALSE
  OBVIOUS
<1>0. where[m] = Append(where[n], name)
  OBVIOUS
<1>1. m # Root
  BY NodeTypes, AppendProperties DEF Shaped, Tree
<1>2. PICK q \in Nodes : \E i \in 1 .. Len(node[q].childs) : node[q].childs[i] = m
  BY <1>1 DEF Shaped, Tree
<1>3. PICK i \in 1 .. Len(node[q].childs) : node[q].childs[i] = m
  BY <1>2
<1>4. where[m] = Append(where[q], node[m].name)
  BY <1>3 DEF Shaped, Tree
<1>5. where[q] = where[n] /\ node[m].name = name
  <2>1. /\ where[q] \in Seq(Names) /\ where[n] \in Seq(Names)
        /\ node[m].name \in Names
    BY NodeTypes
  <2>2. Append(where[q], node[m].name) = Append(where[n], name)
    BY <1>0, <1>4
  <2> DEFINE s == where[q]
             t == where[n]
             e == node[m].name
  <2>3. s \in Seq(Names) /\ t \in Seq(Names) /\ e \in Names
        /\ Append(s, e) = Append(t, name)
    BY <2>1, <2>2
  <2> HIDE DEF s, t, e
  <2>4. s = t /\ e = name
    BY <2>3, AppendInjective
  <2> QED
    BY <2>4 DEF s, t, e
<1>6. q = n
  BY <1>5 DEF Shaped, Unique
<1> QED
  BY <1>3, <1>5, <1>6, SeekMissed DEF Shaped

-----------------------------------------------------------------------------
(* The tree while it does not grow                                         *)

\* Tree, names and paths as they were: the shape holds.
LEMMA ShapeKept ==
  ASSUME TypeOK, Shaped, Len(node') = Len(node), where' = where,
         \A n \in Nodes : /\ node'[n].name = node[n].name
                          /\ node'[n].parent = node[n].parent
                          /\ node'[n].childs = node[n].childs
  PROVE  Shaped'
<1>1. Nodes' = Nodes
  BY DEF Nodes
<1>2. \A n \in Nodes : \A i \in 1 .. Len(node[n].childs) : node[n].childs[i] \in Nodes
  BY NodeTypes
<1>3. Tree'
  <2>1. where'[Root] = <<>>
    BY DEF Shaped, Tree
  <2>2. ASSUME NEW n \in Nodes', NEW i \in 1 .. Len(node'[n].childs)
        PROVE  LET c == node'[n].childs[i] IN
               c # Root /\ node'[c].parent = n /\ where'[c] = Append(where'[n], node'[c].name)
    <3>1. node'[n].childs = node[n].childs /\ n \in Nodes
      BY <1>1
    <3> DEFINE c == node[n].childs[i]
    <3>2. c \in Nodes
      BY <1>2, <3>1
    <3>3. node'[c].parent = node[c].parent /\ node'[c].name = node[c].name
      BY <3>2
    <3>4. c # Root /\ node[c].parent = n /\ where[c] = Append(where[n], node[c].name)
      BY <3>1 DEF Shaped, Tree
    <3> QED
      BY <3>1, <3>3, <3>4
  <2>3. ASSUME NEW c \in Nodes' \ {Root}
        PROVE  \E n \in Nodes' : \E i \in 1 .. Len(node'[n].childs) : node'[n].childs[i] = c
    <3>1. PICK n \in Nodes : \E i \in 1 .. Len(node[n].childs) : node[n].childs[i] = c
      BY <1>1 DEF Shaped, Tree
    <3>2. node'[n].childs = node[n].childs
      OBVIOUS
    <3> QED
      BY <1>1, <3>1, <3>2
  <2> QED
    BY <2>1, <2>2, <2>3 DEF Tree
<1>4. Siblings'
  <2>1. ASSUME NEW n \in Nodes', NEW i \in 1 .. Len(node'[n].childs),
               NEW j \in 1 .. Len(node'[n].childs),
               node'[node'[n].childs[i]].name = node'[node'[n].childs[j]].name
        PROVE  i = j
    <3>1. node'[n].childs = node[n].childs /\ n \in Nodes
      BY <1>1
    <3>2. node[n].childs[i] \in Nodes /\ node[n].childs[j] \in Nodes
      BY <1>2, <3>1
    <3>3. node[node[n].childs[i]].name = node[node[n].childs[j]].name
      BY <2>1, <3>1, <3>2
    <3> QED
      BY <3>1, <3>3 DEF Shaped, Siblings
  <2> QED
    BY <2>1 DEF Siblings
<1>5. Unique' /\ Closed'
  BY <1>1 DEF Shaped, Unique, Closed
<1> QED
  BY <1>3, <1>4, <1>5 DEF Shaped

-----------------------------------------------------------------------------
(* The tree when it grows                                                  *)

\* The tree with one node more, c: the last child of q, called name.
GrownBy(c, q, name) ==
  /\ Len(node') = c /\ Len(where') = c
  /\ Nodes' = Nodes \cup {c} /\ c \notin Nodes /\ c \in Nat
  /\ node' \in Seq(Record') /\ where' \in Seq(Seq(Names))
  /\ node'[c] = NewNode(name, q)
  /\ where'[c] = Append(where[q], name)
  /\ node'[q].childs = Append(node[q].childs, c)
  /\ \A n \in Nodes \ {q} : node'[n].childs = node[n].childs
  /\ \A n \in Nodes : /\ node'[n].name = node[n].name
                      /\ node'[n].parent = node[n].parent
                      /\ node'[n].device = node[n].device
                      /\ where'[n] = where[n]

\* vfs_create grows the tree, and changes no other node.
LEMMA Grown ==
  ASSUME TypeOK, NEW q \in Nodes, NEW name \in Names, vfs_create(name, q),
         where' = Append(where, Append(where[q], name)),
         NEW c, c = Len(node) + 1
  PROVE  GrownBy(c, q, name)
<1>1. /\ node \in Seq(Record) /\ Len(node) \in Nat /\ Len(where) = Len(node)
      /\ where \in Seq(Seq(Names))
  BY LenProperties DEF TypeOK
<1>2. q \in 1 .. Len(node) /\ node[q] \in Record
  BY <1>1, ElementOfSeq DEF Nodes
<1> DEFINE e == [node[q] EXCEPT !.childs = Append(@, c)]
           a == [node EXCEPT ![q] = e]
           l == NewNode(name, q)
<1>3. a = Adopted(q, c)
  BY DEF Adopted
<1>4. node' = Append(a, l)
  BY <1>3 DEF vfs_create
<1> DEFINE S == Nodes \cup {c}
           Rec == [name : Names, fs_type : {VfsType, Unregistered},
                   device : S \cup {NULL}, childs : Seq(S), parent : S \cup {NULL}]
<1>5. e \in Rec /\ e.childs = Append(node[q].childs, c)
      /\ e.name = node[q].name /\ e.parent = node[q].parent /\ e.device = node[q].device
  <2>1. node[q].childs \in Seq(S)
    BY <1>2, SeqMonotonic DEF Record
  <2>2. Append(node[q].childs, c) \in Seq(S)
    BY <2>1, AppendProperties
  <2> QED
    BY <1>2, <2>2 DEF Record
<1>6. l \in Rec
  <2>1. <<>> \in Seq(S)
    BY EmptySeq
  <2> QED
    BY <2>1 DEF NewNode
<1>7. node \in Seq(Rec)
  <2>1. Seq(Nodes) \subseteq Seq(S)
    BY SeqMonotonic
  <2>2. Record \subseteq Rec
    BY <2>1 DEF Record
  <2> HIDE DEF Rec
  <2> QED
    BY <1>1, <2>2, SeqMonotonic
<1> HIDE DEF Rec, e, l
<1>8. /\ a \in Seq(Rec) /\ Len(a) = Len(node)
      /\ \A n \in 1 .. Len(node) : a[n] = IF n = q THEN e ELSE node[n]
  BY <1>2, <1>5, <1>7, ExceptSeq
<1> HIDE DEF a
<1>9. Append(a, l) \in Seq(Rec) /\ Len(Append(a, l)) = c /\ Append(a, l)[c] = l
  <2>1. Append(a, l) \in Seq(Rec)
    BY <1>6, <1>8, AppendProperties
  <2>2. Len(Append(a, l)) = Len(a) + 1
    BY <1>6, <1>8, AppendProperties
  <2>3. Append(a, l)[Len(a) + 1] = l
    BY <1>6, <1>8, AppendProperties
  <2> QED
    BY <1>8, <2>1, <2>2, <2>3
<1>10. \A n \in 1 .. Len(node) : Append(a, l)[n] = a[n]
  BY <1>6, <1>8, AppendProperties
<1>11. Append(where[q], name) \in Seq(Names)
  BY <1>1, <1>2, ElementOfSeq, AppendProperties
<1> DEFINE w == Append(where[q], name)
<1>12. where' = Append(where, w)
  OBVIOUS
<1> HIDE DEF w
<1>13. /\ where' \in Seq(Seq(Names)) /\ Len(where') = c /\ where'[c] = w
       /\ \A n \in 1 .. Len(node) : where'[n] = where[n]
  <2>1. w \in Seq(Names)
    BY <1>11 DEF w
  <2>2. where' \in Seq(Seq(Names))
    BY <1>1, <1>12, <2>1, AppendProperties
  <2>3. Len(where') = Len(where) + 1
    BY <1>1, <1>12, <2>1, AppendProperties
  <2>4. where'[Len(where) + 1] = w
    BY <1>1, <1>12, <2>1, AppendProperties
  <2>5. \A n \in 1 .. Len(where) : where'[n] = where[n]
    BY <1>1, <1>12, <2>1, AppendProperties
  <2> QED
    BY <1>1, <2>2, <2>3, <2>4, <2>5
<1>14. Nodes' = S /\ c \notin Nodes /\ c \in Nat
  BY <1>1, <1>4, <1>9 DEF Nodes
<1>15. Rec = Record'
  BY <1>14 DEF Record, Rec
<1>16. ASSUME NEW n \in Nodes
       PROVE  /\ node'[n].name = node[n].name
              /\ node'[n].parent = node[n].parent
              /\ node'[n].device = node[n].device
              /\ where'[n] = where[n]
  BY <1>4, <1>5, <1>8, <1>10, <1>13 DEF Nodes
<1>17. \A n \in Nodes \ {q} : node'[n].childs = node[n].childs
  BY <1>4, <1>8, <1>10 DEF Nodes
<1>18. node'[q].childs = Append(node[q].childs, c)
  BY <1>2, <1>4, <1>5, <1>8, <1>10
<1>19. node'[c] = NewNode(name, q) /\ where'[c] = Append(where[q], name)
  BY <1>4, <1>9, <1>13 DEF l, w
<1>20. Len(node') = c /\ Len(where') = c
  BY <1>4, <1>9, <1>13
<1>21. node' \in Seq(Record') /\ where' \in Seq(Seq(Names))
  BY <1>4, <1>9, <1>13, <1>15
<1> QED
  BY <1>14, <1>16, <1>17, <1>18, <1>19, <1>20, <1>21 DEF GrownBy

\* A node made where vfs_seek found none leaves a tree.
LEMMA ShapeGrown ==
  ASSUME TypeOK, Shaped, NEW q \in Nodes, NEW name \in Names,
         vfs_seek(name, q) = NULL, vfs_create(name, q),
         where' = Append(where, Append(where[q], name)),
         NEW c, c = Len(node) + 1
  PROVE  Shaped'
<1>0. GrownBy(c, q, name)
  BY Grown
<1>1. Nodes' = Nodes \cup {c} /\ c \notin Nodes
  BY <1>0 DEF GrownBy
<1>2. /\ node'[c].name = name /\ node'[c].parent = q /\ node'[c].childs = <<>>
      /\ where'[c] = Append(where[q], name)
  BY <1>0 DEF GrownBy, NewNode
<1>old. ASSUME NEW n \in Nodes
        PROVE  /\ node'[n].name = node[n].name
               /\ node'[n].parent = node[n].parent
               /\ where'[n] = where[n]
  BY <1>0 DEF GrownBy
<1>root. Root \in Nodes /\ c # Root
  <2>1. Len(node) \in Nat /\ Len(node) > 0
    BY LenProperties DEF TypeOK
  <2> QED
    BY <2>1, <1>1 DEF Nodes, Root
<1>3. \A n \in Nodes : /\ node[n].childs \in Seq(Nodes)
                       /\ where[n] \in Seq(Names)
                       /\ \A i \in 1 .. Len(node[n].childs) : node[n].childs[i] \in Nodes
  BY NodeTypes
<1> DEFINE kids == node[q].childs
<1>4. /\ node'[q].childs = Append(kids, c)
      /\ Len(kids) \in Nat /\ Len(Append(kids, c)) = Len(kids) + 1
      /\ Append(kids, c)[Len(kids) + 1] = c
      /\ \A i \in 1 .. Len(kids) : Append(kids, c)[i] = kids[i]
  <2>1. node'[q].childs = Append(kids, c)
    BY <1>0 DEF GrownBy
  <2>2. kids \in Seq(Nodes \cup {c}) /\ c \in Nodes \cup {c}
    BY <1>3, SeqMonotonic
  <2> HIDE DEF kids
  <2>3. Len(kids) \in Nat
    BY <2>2, LenProperties
  <2>4. Len(Append(kids, c)) = Len(kids) + 1
    BY <2>2, AppendProperties
  <2>5. Append(kids, c)[Len(kids) + 1] = c
    BY <2>2, AppendProperties
  <2>6. \A i \in 1 .. Len(kids) : Append(kids, c)[i] = kids[i]
    BY <2>2, AppendProperties
  <2> QED
    BY <2>1, <2>3, <2>4, <2>5, <2>6
<1>same. \A n \in Nodes \ {q} : node'[n].childs = node[n].childs
  BY <1>0 DEF GrownBy
<1>q. kids = node[q].childs
  OBVIOUS
<1> HIDE DEF kids
\* A child in the new tree is an old child of an old node, or the new one.
<1>5. ASSUME NEW n \in Nodes', NEW i \in 1 .. Len(node'[n].childs)
      PROVE  \/ /\ n \in Nodes /\ i \in 1 .. Len(node[n].childs)
                /\ node'[n].childs[i] = node[n].childs[i]
                /\ node[n].childs[i] \in Nodes
             \/ n = q /\ i = Len(kids) + 1 /\ node'[n].childs[i] = c
  <2>1. n # c
    <3>1. Len(<<>>) = 0
      BY EmptySeq
    <3> QED
      BY <3>1, <1>2
  <2>2. CASE n = q
    BY <2>2, <1>3, <1>4, <1>q
  <2>3. CASE n \in Nodes /\ n # q
    BY <2>3, <1>same, <1>3
  <2> QED
    BY <1>1, <2>1, <2>2, <2>3
<1>6. ASSUME NEW n \in Nodes, NEW i \in 1 .. Len(node[n].childs)
      PROVE  i \in 1 .. Len(node'[n].childs) /\ node'[n].childs[i] = node[n].childs[i]
  <2>1. CASE n = q
    BY <2>1, <1>4, <1>q
  <2>2. CASE n # q
    BY <2>2, <1>same
  <2> QED
    BY <2>1, <2>2
<1>7. Tree'
  <2>1. where'[Root] = <<>>
    BY <1>old, <1>root DEF Shaped, Tree
  <2>2. ASSUME NEW n \in Nodes', NEW i \in 1 .. Len(node'[n].childs)
        PROVE  LET d == node'[n].childs[i] IN
               d # Root /\ node'[d].parent = n /\ where'[d] = Append(where'[n], node'[d].name)
    <3>1. CASE n \in Nodes /\ i \in 1 .. Len(node[n].childs)
               /\ node'[n].childs[i] = node[n].childs[i] /\ node[n].childs[i] \in Nodes
      <4>1. PICK d \in Nodes : d = node[n].childs[i] /\ d = node'[n].childs[i]
        BY <3>1
      <4>2. d # Root /\ node[d].parent = n /\ where[d] = Append(where[n], node[d].name)
        <5>1. \A m \in Nodes : \A j \in 1 .. Len(node[m].childs) :
                LET e == node[m].childs[j] IN
                e # Root /\ node[e].parent = m /\ where[e] = Append(where[m], node[e].name)
          BY DEF Shaped, Tree
        <5>2. LET e == node[n].childs[i] IN
              e # Root /\ node[e].parent = n /\ where[e] = Append(where[n], node[e].name)
          BY <3>1, <5>1, Zenon
        <5> QED
          BY <4>1, <5>2
      <4>3. node'[d].parent = n
        BY <4>2, <1>old
      <4>4. where'[d] = Append(where'[n], node'[d].name)
        BY <3>1, <4>2, <1>old
      <4> QED
        BY <4>1, <4>2, <4>3, <4>4
    <3>2. CASE n = q /\ node'[n].childs[i] = c
      <4>1. where'[c] = Append(where'[n], node'[c].name)
        BY <3>2, <1>2, <1>old
      <4> QED
        BY <3>2, <4>1, <1>2, <1>root
    <3> QED
      BY <1>5, <3>1, <3>2
  <2>3. ASSUME NEW d \in Nodes' \ {Root}
        PROVE  \E n \in Nodes' : \E i \in 1 .. Len(node'[n].childs) : node'[n].childs[i] = d
    <3>1. CASE d = c
      <4>1. q \in Nodes' /\ Len(kids) + 1 \in 1 .. Len(node'[q].childs)
            /\ node'[q].childs[Len(kids) + 1] = d
        BY <3>1, <1>1, <1>4
      <4> QED
        BY <4>1
    <3>2. CASE d \in Nodes
      <4>1. PICK n \in Nodes : \E i \in 1 .. Len(node[n].childs) : node[n].childs[i] = d
        BY <3>2 DEF Shaped, Tree
      <4>2. PICK i \in 1 .. Len(node[n].childs) : node[n].childs[i] = d
        BY <4>1
      <4>3. n \in Nodes' /\ i \in 1 .. Len(node'[n].childs) /\ node'[n].childs[i] = d
        BY <4>2, <1>1, <1>6
      <4> QED
        BY <4>3
    <3> QED
      BY <1>1, <3>1, <3>2
  <2> QED
    BY <2>1, <2>2, <2>3 DEF Tree
<1>8. Siblings'
  <2>1. \A i \in 1 .. Len(kids) : node[kids[i]].name # name
    BY SeekMissed, <1>q DEF Shaped
  <2>2. ASSUME NEW n \in Nodes', NEW i \in 1 .. Len(node'[n].childs),
               NEW j \in 1 .. Len(node'[n].childs),
               node'[node'[n].childs[i]].name = node'[node'[n].childs[j]].name
        PROVE  i = j
    <3> DEFINE Old(k) == /\ n \in Nodes /\ k \in 1 .. Len(node[n].childs)
                         /\ node'[n].childs[k] = node[n].childs[k]
                         /\ node[n].childs[k] \in Nodes
               New(k) == n = q /\ k = Len(kids) + 1 /\ node'[n].childs[k] = c
    <3>1. (Old(i) \/ New(i)) /\ (Old(j) \/ New(j))
      BY <1>5
    <3>o. ASSUME NEW k, Old(k)
          PROVE  node'[node'[n].childs[k]].name = node[node[n].childs[k]].name
      BY <3>o, <1>old
    <3>n. ASSUME NEW k, New(k) PROVE node'[node'[n].childs[k]].name = name
      BY <3>n, <1>2
    <3>2. CASE Old(i) /\ Old(j)
      <4>1. node[node[n].childs[i]].name = node[node[n].childs[j]].name
        BY <2>2, <3>2, <3>o
      <4> QED
        BY <3>2, <4>1 DEF Shaped, Siblings
    <3>3. CASE New(i) /\ New(j)
      BY <3>3
    <3>4. ASSUME NEW k, NEW l, Old(k), New(l),
                 node'[node'[n].childs[k]].name = node'[node'[n].childs[l]].name
          PROVE  FALSE
      <4>1. node[node[n].childs[k]].name = name
        BY <3>4, <3>o, <3>n
      <4> QED
        BY <2>1, <3>4, <4>1, <1>q
    <3>5. ~(Old(i) /\ New(j)) /\ ~(New(i) /\ Old(j))
      <4>1. node'[node'[n].childs[i]].name = node'[node'[n].childs[j]].name
        BY <2>2
      <4> HIDE DEF Old, New
      <4> QED
        BY <4>1, <3>4, Zenon
    <3> QED
      BY <3>1, <3>2, <3>3, <3>5
  <2> QED
    BY <2>2 DEF Siblings
<1>9. Unique'
  <2>1. \A m \in Nodes : where[m] # Append(where[q], name)
    BY NoSuchPath
  <2>2. ASSUME NEW m \in Nodes', NEW n \in Nodes', where'[m] = where'[n]
        PROVE  m = n
    <3>1. CASE m \in Nodes /\ n \in Nodes
      <4>1. where[m] = where[n]
        BY <2>2, <3>1, <1>old
      <4> QED
        BY <3>1, <4>1 DEF Shaped, Unique
    <3>2. CASE m \in Nodes /\ n = c
      BY <2>1, <2>2, <3>2, <1>2, <1>old
    <3>3. CASE m = c /\ n \in Nodes
      BY <2>1, <2>2, <3>3, <1>2, <1>old
    <3> QED
      BY <1>1, <3>1, <3>2, <3>3
  <2> QED
    BY <2>2 DEF Unique
<1>10. Closed'
  <2>1. ASSUME NEW n \in Nodes', NEW k \in 0 .. Len(where'[n])
        PROVE  \E m \in Nodes' : where'[m] = SubSeq(where'[n], 1, k)
    <3>1. CASE n \in Nodes
      <4>1. where'[n] = where[n]
        BY <3>1, <1>old
      <4>2. PICK m \in Nodes : where[m] = SubSeq(where[n], 1, k)
        BY <3>1, <4>1 DEF Shaped, Closed
      <4>3. m \in Nodes' /\ where'[m] = where[m]
        BY <1>1, <1>old
      <4> QED
        BY <4>1, <4>2, <4>3
    <3>2. CASE n = c
      <4> DEFINE s == where[q]
      <4>1. where'[n] = Append(s, name) /\ s \in Seq(Names)
        BY <3>2, <1>2, <1>3
      <4>q. s = where[q]
        OBVIOUS
      <4> HIDE DEF s
      <4>2. Len(s) \in Nat /\ Len(Append(s, name)) = Len(s) + 1
        BY <4>1, AppendFacts
      <4>3. k \in 0 .. Len(s) + 1
        BY <4>1, <4>2
      <4>4. SubSeq(where'[n], 1, k) =
              IF k = Len(s) + 1 THEN where'[n] ELSE SubSeq(s, 1, k)
        <5>1. SubSeq(Append(s, name), 1, k) =
                IF k = Len(s) + 1 THEN Append(s, name) ELSE SubSeq(s, 1, k)
          BY <4>1, <4>3, AppendPrefix
        <5> QED
          BY <4>1, <5>1
      <4>5. CASE k = Len(s) + 1
        BY <4>4, <4>5
      <4>6. CASE k # Len(s) + 1
        <5>1. k \in 0 .. Len(s)
          BY <4>2, <4>3, <4>6
        <5>2. PICK m \in Nodes : where[m] = SubSeq(s, 1, k)
          BY <5>1, <4>q DEF Shaped, Closed
        <5>3. m \in Nodes' /\ where'[m] = where[m]
          BY <1>1, <1>old
        <5> QED
          BY <4>4, <4>6, <5>2, <5>3
      <4> QED
        BY <4>5, <4>6
    <3> QED
      BY <1>1, <3>1, <3>2
  <2> QED
    BY <2>1 DEF Closed
<1> QED
  BY <1>7, <1>8, <1>9, <1>10 DEF Shaped
-----------------------------------------------------------------------------
(* The invariant holds                                                     *)

\* A step that leaves the tree alone leaves its shape and its types.
LEMMA Quiet ==
  ASSUME TypeOK, Shaped, UNCHANGED tree
  PROVE  /\ Shaped' /\ Nodes' = Nodes
         /\ node' \in Seq(Record') /\ Len(node') > 0
         /\ where' \in Seq(Seq(Names)) /\ Len(where') = Len(node')
<1>1. node' = node /\ where' = where /\ Nodes' = Nodes
  BY DEF tree, Nodes
<1>2. Record' = Record
  BY <1>1 DEF Record
<1>3. Shaped'
  BY <1>1, ShapeKept
<1> QED
  BY <1>1, <1>2, <1>3 DEF TypeOK

\* Before the first call there is the root.
LEMMA InitInv == Init => VfsInv
<1> SUFFICES ASSUME Init PROVE VfsInv
  OBVIOUS
<1> DEFINE root == NewNode("[root]", NULL)
<1>1. node = <<root>> /\ where = <<<<>>>>
  BY DEF Init
<1>2. /\ Len(node) = 1 /\ node[1] = root
      /\ Len(where) = 1 /\ where[1] = <<>>
  BY <1>1
<1>3. Nodes = {1}
  BY <1>2 DEF Nodes
<1>4. <<>> \in Seq(Nodes) /\ <<>> \in Seq(Names) /\ Len(<<>>) = 0
  BY EmptySeq
<1>5. root \in Record
  <2>1. "[root]" \in Names
    BY VfsAssumption
  <2> QED
    BY <1>4, <2>1, Zenon DEF NewNode, Record
<1>6. node \in Seq(Record)
  BY <1>1, <1>5
<1>7. where \in Seq(Seq(Names))
  BY <1>1, <1>4
<1>8. InitPaths \in Seq({InitPaths[1], InitPaths[2]})
  BY DEF InitPaths
<1>9. TypeOK
  BY <1>2, <1>3, <1>4, <1>6, <1>7, <1>8 DEF Init, TypeOK, PCs, Seeking, Root, NULL
<1>10. node[1].childs = <<>>
  BY <1>2 DEF NewNode
<1>11. Tree /\ Siblings
  BY <1>2, <1>3, <1>4, <1>10 DEF Tree, Siblings, Root
<1>12. Unique
  BY <1>3 DEF Unique
<1>13. Closed
  <2>1. ASSUME NEW n \in Nodes, NEW k \in 0 .. Len(where[n])
        PROVE  \E m \in Nodes : where[m] = SubSeq(where[n], 1, k)
    <3>1. where[n] = <<>> /\ k = 0 /\ n \in Nodes
      BY <1>2, <1>3, <1>4
    <3>2. SubSeq(<<>>, 1, 0) = <<>>
      BY SubSeqEmpty, <1>4
    <3> QED
      BY <3>1, <3>2
  <2> QED
    BY <2>1 DEF Closed
<1>14. Loops /\ Found
  BY DEF Init, Loops, Found, Seeking
<1> QED
  BY <1>9, <1>11, <1>12, <1>13, <1>14 DEF VfsInv, Shaped

\* A loop that starts at the root has walked nothing yet.
LEMMA Starts ==
  ASSUME TypeOK, Shaped, UNCHANGED tree, NEW q \in Seq(Names),
         cur' = Root, p' = q
  PROVE  where'[cur'] \o p' = q /\ Root \in Nodes' /\ Root # NULL
<1>1. where[Root] = <<>> /\ where' = where
  BY DEF Shaped, Tree, tree
<1>2. <<>> \o q = q
  BY ConcatEmptySeq
<1>3. Nodes' = Nodes /\ Root \in Nodes
  <2>1. Len(node) \in Nat /\ Len(node) > 0
    BY LenProperties DEF TypeOK
  <2> QED
    BY <2>1, Quiet DEF Nodes, Root
<1> QED
  BY <1>1, <1>2, <1>3 DEF Root, NULL

\* An entry point is called between calls.
LEMMA CallInv ==
  ASSUME VfsInv, UNCHANGED tree, pc = "idle",
         NEW q \in Seq(Names), NEW d \in Seq(Names),
         path' = q, device' = d, cur' = Root, p' = q, target' = target,
         todo' \in Seq({InitPaths[1], InitPaths[2]}),
         \/ pc' = "seek_create" /\ fn' = "kcreate"
         \/ pc' = "seek_path" /\ fn' = "kmount"
  PROVE  VfsInv'
<1>1. /\ Shaped' /\ Nodes' = Nodes
      /\ node' \in Seq(Record') /\ Len(node') > 0
      /\ where' \in Seq(Seq(Names)) /\ Len(where') = Len(node')
  BY Quiet DEF VfsInv
<1>2. where'[cur'] \o p' = q /\ Root \in Nodes' /\ Root # NULL
  BY Starts DEF VfsInv
<1>3. TypeOK'
  BY <1>1, <1>2 DEF VfsInv, TypeOK, PCs, Seeking
<1>4. Walked' = q
  BY DEF Walked
<1>5. Loops' /\ Found'
  BY <1>2, <1>4 DEF Loops, Found, Seeking
<1> QED
  BY <1>1, <1>3, <1>5 DEF VfsInv

LEMMA kcreateInv ==
  ASSUME VfsInv, NEW q \in Creates \cup {InitPaths[1], InitPaths[2]}, kcreate(q)
  PROVE  VfsInv'
<1>1. q \in Seq(Names) /\ <<>> \in Seq(Names)
  <2>1. <<"dev">> \in Seq(Names) /\ <<"proc">> \in Seq(Names)
    BY VfsAssumption
  <2>2. InitPaths[1] = <<"dev">> /\ InitPaths[2] = <<"proc">>
    BY DEF InitPaths
  <2> QED
    BY <2>1, <2>2, VfsAssumption, EmptySeq
<1>2. todo' \in Seq({InitPaths[1], InitPaths[2]})
  <2>1. todo \in Seq({InitPaths[1], InitPaths[2]})
    BY DEF VfsInv, TypeOK
  <2>2. todo # <<>> => Tail(todo) \in Seq({InitPaths[1], InitPaths[2]})
    BY <2>1, HeadTailProperties
  <2> QED
    BY <2>1, <2>2 DEF kcreate
<1> QED
  BY <1>1, <1>2, CallInv DEF kcreate, Start

LEMMA kmountInv ==
  ASSUME VfsInv, NEW m \in Mounts, kmount(m)
  PROVE  VfsInv'
<1>1. m.path \in Seq(Names) /\ m.device \in Seq(Names)
  BY VfsAssumption
<1>2. todo' \in Seq({InitPaths[1], InitPaths[2]})
  BY DEF VfsInv, TypeOK, kmount
<1> QED
  BY <1>1, <1>2, CallInv DEF kmount, Start

\* A stage follows another in the same call: a loop over one of its paths
\* from the root, once kmount's path has been found if it is the last.
LEMMA StageInv ==
  ASSUME VfsInv, UNCHANGED <<tree, args, todo>>, pc # "idle",
         NEW stage \in {"seek_create", "create", "seek_device"},
         Start(stage, IF stage = "seek_device" THEN device ELSE path),
         stage = "seek_device" => fn = "kmount" /\ where[target'] = path,
         target' \in Nodes
  PROVE  VfsInv'
<1> DEFINE q == IF stage = "seek_device" THEN device ELSE path
<1>0. /\ fn' = fn /\ path' = path /\ device' = device /\ todo' = todo
      /\ where' = where /\ UNCHANGED tree
  BY DEF args, tree
<1>1. /\ Shaped' /\ Nodes' = Nodes
      /\ node' \in Seq(Record') /\ Len(node') > 0
      /\ where' \in Seq(Seq(Names)) /\ Len(where') = Len(node')
  BY <1>0, Quiet DEF VfsInv
<1>2. q \in Seq(Names) /\ pc' = stage /\ p' = q /\ cur' = Root
  BY DEF VfsInv, TypeOK, Start
<1>3. where'[cur'] \o p' = q /\ Root \in Nodes' /\ Root # NULL
  <2> HIDE DEF q
  <2> QED
    BY <1>0, <1>2, Starts DEF VfsInv
<1>4. TypeOK'
  BY <1>0, <1>1, <1>2, <1>3 DEF VfsInv, TypeOK, PCs, Seeking
<1>5. Walked' = q
  BY <1>0, <1>2 DEF Walked
<1>6. Loops' /\ Found'
  BY <1>0, <1>2, <1>3, <1>5 DEF VfsInv, Loops, Found, Seeking
<1> QED
  BY <1>1, <1>4, <1>6 DEF VfsInv

\* kcreate returns the node of its path.
LEMMA KcreateReturnsInv ==
  ASSUME VfsInv, UNCHANGED <<tree, args, todo>>, pc # "idle",
         NEW v \in Nodes, NEW rest \in Seq(Names),
         where[v] = path, KcreateReturns(v, rest)
  PROVE  VfsInv'
<1>1. CASE fn = "kcreate" /\ Done /\ p' = rest
  <2>0. /\ fn' = fn /\ path' = path /\ device' = device /\ todo' = todo
        /\ UNCHANGED tree /\ target' = v
    BY DEF args, tree, KcreateReturns
  <2>1. /\ Shaped' /\ Nodes' = Nodes
        /\ node' \in Seq(Record') /\ Len(node') > 0
        /\ where' \in Seq(Seq(Names)) /\ Len(where') = Len(node')
    BY <2>0, Quiet DEF VfsInv
  <2>2. TypeOK'
    BY <1>1, <2>0, <2>1 DEF VfsInv, TypeOK, PCs, Seeking, Done
  <2>3. Loops' /\ Found'
    BY <1>1 DEF Loops, Found, Seeking, Done
  <2> QED
    BY <2>1, <2>2, <2>3 DEF VfsInv
<1>2. CASE fn = "kmount" /\ SeekDevice
  <2>1. Start("seek_device", device) /\ target' = v
    BY <1>2 DEF SeekDevice, KcreateReturns
  <2> QED
    BY <1>2, <2>1, StageInv
<1> QED
  BY <1>1, <1>2 DEF KcreateReturns

\* kseek returns the node of the path it walked, or nothing if there is none.
LEMMA KseekReturnsInv ==
  ASSUME VfsInv, UNCHANGED <<tree, args, todo>>, Seeking,
         NEW v \in Nodes \cup {NULL}, NEW rest \in Seq(Names),
         v # NULL => where[v] = Walked,
         v = NULL => \A n \in Nodes : where[n] # Walked,
         KseekReturns(v, rest)
  PROVE  VfsInv'
<1>0. pc # "idle" /\ target \in Nodes
  BY DEF Seeking, VfsInv, TypeOK
<1>1. CASE pc = "seek_path" /\ v # NULL /\ target' = v /\ SeekDevice
  <2>1. where[v] = path /\ fn = "kmount"
    BY <1>1 DEF Walked, VfsInv, Loops
  <2>2. Start("seek_device", device) /\ target' \in Nodes
    BY <1>1 DEF SeekDevice
  <2> QED
    BY <1>0, <1>1, <2>1, <2>2, StageInv
<1>2. CASE Start("seek_create", path) /\ UNCHANGED target
  BY <1>0, <1>2, StageInv
<1>3. CASE pc = "seek_create" /\ v # NULL /\ KcreateReturns(v, rest)
  <2>1. where[v] = path
    BY <1>3 DEF Walked
  <2> QED
    BY <1>0, <1>3, <2>1, KcreateReturnsInv
<1>4. CASE StartCreate(rest) /\ UNCHANGED target
  BY <1>0, <1>4, StageInv DEF StartCreate
<1>5. CASE pc = "seek_device" /\ pc' = "mount" /\ cur' = v /\ p' = rest /\ UNCHANGED target
  <2>0. /\ fn' = fn /\ path' = path /\ device' = device /\ todo' = todo
        /\ where' = where /\ UNCHANGED tree
    BY DEF args, tree
  <2>1. /\ Shaped' /\ Nodes' = Nodes
        /\ node' \in Seq(Record') /\ Len(node') > 0
        /\ where' \in Seq(Seq(Names)) /\ Len(where') = Len(node')
    BY <2>0, Quiet DEF VfsInv
  <2>2. TypeOK'
    BY <1>5, <2>0, <2>1 DEF VfsInv, TypeOK, PCs, Seeking
  <2>3. Loops'
    BY <1>5, <2>0 DEF VfsInv, Loops, Seeking
  <2>4. Walked = device /\ where[target] = path
    BY <1>5 DEF Walked, VfsInv, Loops
  <2>5. Found'
    BY <1>5, <2>0, <2>1, <2>4 DEF Found
  <2> QED
    BY <2>1, <2>2, <2>3, <2>5 DEF VfsInv
<1> QED
  BY <1>1, <1>2, <1>3, <1>4, <1>5 DEF KseekReturns

\* A loop takes a child: kseek's and kcreate's.
LEMMA ChildInv ==
  ASSUME VfsInv, Seeking \/ pc = "create", p # <<>>,
         vfs_seek(Head(p), cur) # NULL, cur' = vfs_seek(Head(p), cur), p' = Rest,
         UNCHANGED <<tree, pc, args, target, todo>>
  PROVE  VfsInv'
<1>0. /\ fn' = fn /\ path' = path /\ device' = device /\ todo' = todo
      /\ target' = target /\ pc' = pc /\ where' = where /\ UNCHANGED tree
  BY DEF args, tree
<1>1. /\ Shaped' /\ Nodes' = Nodes
      /\ node' \in Seq(Record') /\ Len(node') > 0
      /\ where' \in Seq(Seq(Names)) /\ Len(where') = Len(node')
  BY <1>0, Quiet DEF VfsInv
<1>2. cur \in Nodes /\ p \in Seq(Names)
  BY DEF VfsInv, TypeOK
<1>3. where[cur] \in Seq(Names)
  BY <1>2, NodeTypes DEF VfsInv
<1>4. /\ Head(p) \in Names /\ Tail(p) \in Seq(Names)
      /\ Append(where[cur], Head(p)) \o Tail(p) = where[cur] \o p
  BY <1>2, <1>3, TokenStep
<1>5. cur' \in Nodes /\ where[cur'] = Append(where[cur], Head(p))
  BY <1>2, <1>4, SeekFound DEF VfsInv, Shaped
<1>6. p' = Tail(p) /\ cur' # NULL
  BY DEF Rest
<1>7. TypeOK'
  BY <1>0, <1>1, <1>4, <1>5, <1>6 DEF VfsInv, TypeOK, Seeking
<1>8. Walked' = Walked
  BY <1>0 DEF Walked
<1>9. where'[cur'] \o p' = Walked'
  BY <1>0, <1>4, <1>5, <1>6, <1>8 DEF VfsInv, Loops
<1>10. Loops' /\ Found'
  BY <1>0, <1>9 DEF VfsInv, Loops, Found, Seeking
<1> QED
  BY <1>1, <1>7, <1>10 DEF VfsInv

LEMMA SeekMissInv ==
  ASSUME VfsInv, SeekMiss
  PROVE  VfsInv'
<1>1. cur \in Nodes /\ p \in Seq(Names) /\ p # <<>>
  BY DEF VfsInv, TypeOK, SeekMiss
<1>2. where[cur] \in Seq(Names) /\ where[cur] \o p = Walked
  BY <1>1, NodeTypes DEF VfsInv, Loops, SeekMiss
<1>3. Head(p) \in Names /\ Tail(p) \in Seq(Names)
  BY <1>1, HeadTailProperties
<1>4. ASSUME NEW n \in Nodes, where[n] = Walked PROVE FALSE
  <2>1. /\ Len(where[cur]) + 1 \in 1 .. Len(where[cur] \o p)
        /\ SubSeq(where[cur] \o p, 1, Len(where[cur]) + 1) = Append(where[cur], Head(p))
    BY <1>1, <1>2, NextPrefix
  <2> DEFINE k == Len(where[cur]) + 1
  <2>2. k \in 0 .. Len(where[n]) /\ SubSeq(where[n], 1, k) = Append(where[cur], Head(p))
    BY <1>2, <1>4, <2>1
  <2> HIDE DEF k
  <2>3. PICK m \in Nodes : where[m] = SubSeq(where[n], 1, k)
    BY <2>2 DEF VfsInv, Shaped, Closed
  <2>4. where[m] = Append(where[cur], Head(p)) /\ vfs_seek(Head(p), cur) = NULL
    BY <2>2, <2>3 DEF SeekMiss
  <2> QED
    BY <2>4, <1>1, <1>3, NoSuchPath DEF VfsInv
<1>5. KseekReturns(NULL, Tail(p)) /\ UNCHANGED <<tree, args, todo>> /\ Seeking
  BY DEF SeekMiss, Rest
<1> QED
  BY <1>3, <1>4, <1>5, KseekReturnsInv

LEMMA SeekHitInv ==
  ASSUME VfsInv, SeekHit
  PROVE  VfsInv'
<1>1. cur \in Nodes /\ cur # NULL /\ <<>> \in Seq(Names)
  BY EmptySeq DEF VfsInv, TypeOK, SeekHit
<1>2. where[cur] \in Seq(Names) /\ where[cur] \o <<>> = Walked
  BY <1>1, NodeTypes DEF VfsInv, Loops, SeekHit
<1>3. where[cur] = Walked
  BY <1>2, ConcatEmptySeq
<1> QED
  BY <1>1, <1>3, KseekReturnsInv DEF SeekHit

LEMMA CreateNewInv ==
  ASSUME VfsInv, CreateNew
  PROVE  VfsInv'
<1>0. /\ fn' = fn /\ path' = path /\ device' = device /\ todo' = todo
      /\ target' = target /\ pc' = pc /\ pc = "create" /\ p # <<>> /\ p' = Tail(p)
      /\ vfs_seek(Head(p), cur) = NULL /\ vfs_create(Head(p), cur)
      /\ where' = Append(where, Append(where[cur], Head(p)))
  BY DEF CreateNew, args, Rest
<1>1. cur \in Nodes /\ p \in Seq(Names)
  BY <1>0 DEF VfsInv, TypeOK
<1>2. where[cur] \in Seq(Names) /\ where[cur] \o p = path
  BY <1>0, <1>1, NodeTypes DEF VfsInv, Loops, Walked
<1>3. /\ Head(p) \in Names /\ Tail(p) \in Seq(Names)
      /\ Append(where[cur], Head(p)) \o Tail(p) = where[cur] \o p
  BY <1>0, <1>1, <1>2, TokenStep
<1>4. PICK c : c = Len(node) + 1
  OBVIOUS
<1>5. cur' = c
  BY <1>4 DEF CreateNew, Created
<1>6. GrownBy(c, cur, Head(p))
  BY <1>0, <1>1, <1>3, <1>4, Grown DEF VfsInv
<1>7. Shaped'
  BY <1>0, <1>1, <1>3, <1>4, ShapeGrown DEF VfsInv
<1>8. c \in Nodes' /\ c # NULL /\ Len(node') = c /\ c > 0
  <2>1. Len(node) \in Nat
    BY LenProperties DEF VfsInv, TypeOK
  <2> QED
    BY <2>1, <1>4, <1>6 DEF GrownBy, NULL
<1>9. target' \in Nodes'
  BY <1>0, <1>6 DEF GrownBy, VfsInv, TypeOK
<1>10. /\ node' \in Seq(Record') /\ where' \in Seq(Seq(Names))
       /\ Len(where') = Len(node')
  BY <1>6 DEF GrownBy
<1>11. TypeOK'
  BY <1>0, <1>3, <1>5, <1>8, <1>9, <1>10 DEF VfsInv, TypeOK, Seeking
<1>12. where'[cur'] \o p' = path'
  BY <1>0, <1>2, <1>3, <1>5, <1>6 DEF GrownBy
<1>13. Loops' /\ Found'
  BY <1>0, <1>12 DEF VfsInv, Loops, Found, Seeking, Walked
<1> QED
  BY <1>7, <1>11, <1>13 DEF VfsInv

LEMMA CreateDoneInv ==
  ASSUME VfsInv, CreateDone
  PROVE  VfsInv'
<1>1. cur \in Nodes /\ cur # NULL /\ <<>> \in Seq(Names) /\ pc # "idle"
  BY EmptySeq DEF VfsInv, TypeOK, CreateDone
<1>2. where[cur] \in Seq(Names) /\ where[cur] \o <<>> = path
  BY <1>1, NodeTypes DEF VfsInv, Loops, CreateDone, Walked
<1>3. where[cur] = path
  BY <1>2, ConcatEmptySeq
<1> QED
  BY <1>1, <1>3, KcreateReturnsInv DEF CreateDone

LEMMA MountDoneInv ==
  ASSUME VfsInv, MountDone
  PROVE  VfsInv'
<1>0. /\ where' = where /\ fn' = fn /\ path' = path /\ device' = device
      /\ todo' = todo /\ target' = target /\ p' = p /\ pc' = "idle" /\ cur' = NULL
  BY DEF MountDone, args, Done
<1>1. target \in Nodes /\ cur \in Nodes \cup {NULL} /\ node \in Seq(Record)
      /\ Len(node) \in Nat
  BY LenProperties DEF VfsInv, TypeOK
<1>2. PICK type \in IF cur = NULL THEN {VfsType, Unregistered} ELSE {node[cur].fs_type} :
        node' = [node EXCEPT ![target].device = cur, ![target].fs_type = type]
  BY DEF MountDone, vfs_mount
<1>3. type \in {VfsType, Unregistered}
  BY <1>1, <1>2, NodeTypes DEF VfsInv
<1> DEFINE e == [node[target] EXCEPT !.device = cur, !.fs_type = type]
<1>4. node[target] \in Record
  BY <1>1, ElementOfSeq DEF Nodes
<1>5. /\ e \in Record /\ e.name = node[target].name
      /\ e.parent = node[target].parent /\ e.childs = node[target].childs
  BY <1>1, <1>3, <1>4 DEF Record
<1>6. node' = [node EXCEPT ![target] = e]
  BY <1>2
<1> HIDE DEF e
<1>7. /\ node' \in Seq(Record) /\ Len(node') = Len(node)
      /\ \A n \in 1 .. Len(node) : node'[n] = IF n = target THEN e ELSE node[n]
  <2>1. target \in 1 .. Len(node)
    BY <1>1 DEF Nodes
  <2> QED
    BY <1>1, <1>5, <1>6, <2>1, ExceptSeq
<1>8. Nodes' = Nodes
  BY <1>7 DEF Nodes
<1>9. \A n \in Nodes : /\ node'[n].name = node[n].name
                       /\ node'[n].parent = node[n].parent
                       /\ node'[n].childs = node[n].childs
  BY <1>5, <1>7 DEF Nodes
<1>10. Shaped'
  BY <1>0, <1>7, <1>9, ShapeKept DEF VfsInv
<1>11. Record' = Record
  BY <1>8 DEF Record
<1>12. TypeOK'
  BY <1>0, <1>7, <1>8, <1>11 DEF VfsInv, TypeOK, Seeking, PCs
<1>13. Loops' /\ Found'
  BY <1>0 DEF Loops, Found, Seeking
<1> QED
  BY <1>10, <1>12, <1>13 DEF VfsInv

LEMMA CrashInv ==
  ASSUME VfsInv, Crash
  PROVE  VfsInv'
<1>0. /\ fn' = fn /\ path' = path /\ device' = device /\ todo' = todo
      /\ target' = target /\ cur' = cur /\ p' = p /\ pc' = "crash" /\ UNCHANGED tree
      /\ pc # "idle"
  BY DEF Crash, args, Seeking
<1>1. /\ Shaped' /\ Nodes' = Nodes
      /\ node' \in Seq(Record') /\ Len(node') > 0
      /\ where' \in Seq(Seq(Names)) /\ Len(where') = Len(node')
  BY <1>0, Quiet DEF VfsInv
<1>2. TypeOK'
  BY <1>0, <1>1 DEF VfsInv, TypeOK, PCs, Seeking
<1>3. Loops' /\ Found'
  BY <1>0 DEF VfsInv, Loops, Found, Seeking
<1> QED
  BY <1>1, <1>2, <1>3 DEF VfsInv

\* Every step keeps the invariant.
LEMMA StepInv == VfsInv /\ [Next]_vars => VfsInv'
<1> SUFFICES ASSUME VfsInv, [Next]_vars PROVE VfsInv'
  OBVIOUS
<1>1. ASSUME NEW q \in Creates \cup {InitPaths[1], InitPaths[2]}, kcreate(q)
      PROVE  VfsInv'
  BY <1>1, kcreateInv
<1>2. ASSUME NEW m \in Mounts, kmount(m) PROVE VfsInv'
  BY <1>2, kmountInv
<1>3. CASE SeekStep
  BY <1>3, ChildInv DEF SeekStep
<1>4. CASE SeekMiss
  BY <1>4, SeekMissInv
<1>5. CASE SeekHit
  BY <1>5, SeekHitInv
<1>6. CASE CreateStep
  BY <1>6, ChildInv DEF CreateStep
<1>7. CASE CreateNew
  BY <1>7, CreateNewInv
<1>8. CASE CreateDone
  BY <1>8, CreateDoneInv
<1>9. CASE MountDone
  BY <1>9, MountDoneInv
<1>10. CASE Crash
  BY <1>10, CrashInv
<1>11. CASE UNCHANGED vars
  <2>0. /\ fn' = fn /\ path' = path /\ device' = device /\ todo' = todo
        /\ target' = target /\ cur' = cur /\ p' = p /\ pc' = pc
        /\ where' = where /\ UNCHANGED tree
    BY <1>11 DEF vars, tree
  <2>1. /\ Shaped' /\ Nodes' = Nodes
        /\ node' \in Seq(Record') /\ Len(node') > 0
        /\ where' \in Seq(Seq(Names)) /\ Len(where') = Len(node')
    BY <2>0, Quiet DEF VfsInv
  <2>2. TypeOK'
    BY <2>0, <2>1 DEF VfsInv, TypeOK, PCs, Seeking
  <2>3. Loops' /\ Found'
    BY <2>0, <2>1 DEF VfsInv, Loops, Found, Seeking, Walked
  <2> QED
    BY <2>1, <2>2, <2>3 DEF VfsInv
<1> QED
  BY <1>1, <1>2, <1>3, <1>4, <1>5, <1>6, <1>7, <1>8, <1>9, <1>10, <1>11
     DEF Next, Step

-----------------------------------------------------------------------------
(* What kcreate and kmount promise                                         *)

\* VfsInv is an invariant.
LEMMA VfsInvariant == Spec => []VfsInv
BY InitInv, StepInv, PTL DEF Spec

\* No loop of kseek, kcreate or kmount dereferences a null node.
THEOREM VfsTypeCorrect == Spec => []TypeOK
<1>1. VfsInv => TypeOK
  BY DEF VfsInv
<1> QED
  BY <1>1, VfsInvariant, PTL

\* However calls for overlapping paths follow each other, vfs.c's parent and
\* childs pointers are one tree, in which every node is where its path says,
\* and kcreate never adds a second child of one name.
THEOREM TreeWellFormed == Spec => []WellFormed
<1>1. VfsInv => WellFormed
  BY DEF VfsInv, Shaped, WellFormed
<1> QED
  BY <1>1, VfsInvariant, PTL

\* kmount mounts on the node of its path the node of its device, or null
\* only if no node is at the device's path.
THEOREM MountFinds == Spec => []Found
<1>1. VfsInv => Found
  BY DEF VfsInv
<1> QED
  BY <1>1, VfsInvariant, PTL
-----------------------------------------------------------------------------
(* The tree implements the name space                                      *)

\* Every node is the file of its path.
LEMMA FilesAt ==
  ASSUME Unique, NEW n \in Nodes
  PROVE  where[n] \in DOMAIN Files /\ Files[where[n]] = n
<1>1. where[n] \in {where[m] : m \in Nodes}
  OBVIOUS
<1>2. Files[where[n]] = CHOOSE m \in Nodes : where[m] = where[n]
  BY <1>1 DEF Files
<1>3. \A m \in Nodes : where[m] = where[n] => m = n
  BY DEF Unique
<1>4. (CHOOSE m \in Nodes : where[m] = where[n]) = n
  BY <1>3
<1> QED
  BY <1>1, <1>2, <1>4 DEF Files

\* A step that makes no node makes no file.
LEMMA FilesKept ==
  ASSUME where' = where, Nodes' = Nodes
  PROVE  Files' = Files
BY DEF Files

LEMMA AbstractInit == Init => Abstract!Init
<1> SUFFICES ASSUME Init PROVE Abstract!Init
  OBVIOUS
<1>1. node = <<NewNode("[root]", NULL)>> /\ where = <<<<>>>>
  BY DEF Init
<1>2. Len(node) = 1 /\ where[1] = <<>>
  BY <1>1
<1>3. Nodes = {1}
  BY <1>2 DEF Nodes
<1>4. {where[n] : n \in Nodes} = {<<>>}
  BY <1>2, <1>3
<1>5. (CHOOSE n \in Nodes : where[n] = <<>>) = 1
  BY <1>2, <1>3
<1>6. Files = [q \in {<<>>} |-> Root]
  BY <1>4, <1>5 DEF Files, Root
<1>7. Wanted = {} /\ target = Root /\ (pc = "crash") = FALSE
  BY DEF Init, Wanted
<1> QED
  BY <1>6, <1>7 DEF Abstract!Init

\* What an answer needs: the node of the path that was asked for.
LEMMA AnswerStep ==
  ASSUME Unique, UNCHANGED tree, UNCHANGED args,
         NEW v \in Nodes, where[v] = path, target' = v,
         pc \in {"seek_path", "seek_create", "create"},
         pc' \in {"idle", "seek_device"}
  PROVE  Abstract!Answer
<1>1. Nodes' = Nodes /\ where' = where
  BY DEF tree, Nodes
<1>2. Files' = Files
  BY <1>1, FilesKept
<1>3. path \in DOMAIN Files /\ Files[path] = v
  BY FilesAt
<1>4. Wanted = {path} /\ Wanted' = {}
  BY DEF Wanted
<1>5. (pc' = "crash") = (pc = "crash")
  OBVIOUS
<1> QED
  BY <1>2, <1>3, <1>4, <1>5 DEF Abstract!Answer

\* A new node is a new file, at a prefix of the path that is wanted.
LEMMA MakeStep ==
  ASSUME VfsInv, VfsInv', CreateNew
  PROVE  \E w \in Wanted : \E k \in 1 .. Len(w) : Abstract!Make(SubSeq(w, 1, k))
<1> DEFINE s == where[cur]
           q == Append(s, Head(p))
<1>0. /\ path' = path /\ target' = target /\ pc' = pc /\ pc = "create" /\ p # <<>>
      /\ vfs_seek(Head(p), cur) = NULL /\ vfs_create(Head(p), cur)
      /\ where' = Append(where, Append(where[cur], Head(p)))
  BY DEF CreateNew, args
<1>1. cur \in Nodes /\ p \in Seq(Names)
  BY <1>0 DEF VfsInv, TypeOK
<1>2. s \in Seq(Names) /\ s \o p = path
  BY <1>0, <1>1, NodeTypes DEF VfsInv, Loops, Walked
<1>3. Head(p) \in Names
  BY <1>0, <1>1, HeadTailProperties
<1>4. PICK c : c = Len(node) + 1
  OBVIOUS
<1>5. GrownBy(c, cur, Head(p))
  BY <1>0, <1>1, <1>3, <1>4, Grown DEF VfsInv
<1>6. \A m \in Nodes : where[m] # q
  BY <1>0, <1>1, <1>3, NoSuchPath DEF VfsInv
<1>7. Nodes' = Nodes \cup {c} /\ c \notin Nodes /\ where'[c] = q
      /\ \A n \in Nodes : where'[n] = where[n]
  BY <1>5 DEF GrownBy
<1>8. Unique /\ Unique'
  BY DEF VfsInv, Shaped
<1>dom. DOMAIN Files = {where[n] : n \in Nodes}
        /\ DOMAIN Files' = {where'[n] : n \in Nodes'}
  BY DEF Files
<1>9. q \notin DOMAIN Files
  BY <1>6, <1>dom
<1>10. s \in DOMAIN Files
  BY <1>1, <1>dom
<1>11. Len(s) \in Nat /\ Len(q) = Len(s) + 1 /\ SubSeq(q, 1, Len(s)) = s
  <2> HIDE DEF s
  <2>1. Len(s) \in Nat /\ Len(q) = Len(s) + 1
    BY <1>2, <1>3, AppendFacts
  <2>2. SubSeq(q, 1, Len(s)) = SubSeq(s, 1, Len(s))
    BY <1>2, <1>3, <2>1, AppendPrefix
  <2>3. SubSeq(s, 1, Len(s)) = s
    BY <1>2, SubSeqFull
  <2> QED
    BY <2>1, <2>2, <2>3
<1>12. SubSeq(q, 1, Len(q) - 1) \in DOMAIN Files
  <2>1. Len(q) - 1 = Len(s)
    BY <1>11
  <2> HIDE DEF s, q
  <2> QED
    BY <1>10, <1>11, <2>1
<1>13. DOMAIN Files' = DOMAIN Files \cup {q}
  <2> HIDE DEF q
  <2> QED
    BY <1>7, <1>dom
<1>14. ASSUME NEW r \in DOMAIN Files
       PROVE  Files'[r] = Files[r] /\ Files'[q] # Files[r]
  <2>1. PICK n \in Nodes : where[n] = r
    BY <1>dom
  <2>2. Files[r] = n
    BY <2>1, <1>8, FilesAt
  <2>at. \A m \in Nodes' : Files'[where'[m]] = m
    <3>1. \A m \in Nodes : Files[where[m]] = m
      BY <1>8, FilesAt
    <3>2. ASSUME NEW m \in Nodes' PROVE Files'[where'[m]] = m
      <4>1. where'[m] \in {where'[n1] : n1 \in Nodes'}
        OBVIOUS
      <4>2. Files'[where'[m]] = CHOOSE m1 \in Nodes' : where'[m1] = where'[m]
        BY <4>1 DEF Files
      <4>3. \A m1 \in Nodes' : where'[m1] = where'[m] => m1 = m
        BY <1>8 DEF Unique
      <4>4. (CHOOSE m1 \in Nodes' : where'[m1] = where'[m]) = m
        BY <4>3
      <4> QED
        BY <4>2, <4>4
    <3> QED
      BY <3>2
  <2>3. n \in Nodes' /\ c \in Nodes' /\ where'[n] = r /\ where'[c] = q
    BY <1>7, <2>1
  <2>4. Files'[r] = n /\ Files'[q] = c
    <3> HIDE DEF q
    <3> QED
      BY <2>3, <2>at
  <2> QED
    BY <1>7, <2>1, <2>2, <2>4
<1>15. Wanted = {path} /\ Wanted' = Wanted
  BY <1>0 DEF Wanted
<1>16. /\ Len(s) + 1 \in 1 .. Len(path)
       /\ SubSeq(path, 1, Len(s) + 1) = q
  <2> HIDE DEF s
  <2>1. /\ Len(s) + 1 \in 1 .. Len(s \o p)
        /\ SubSeq(s \o p, 1, Len(s) + 1) = Append(s, Head(p))
    BY <1>0, <1>1, <1>2, NextPrefix
  <2> QED
    BY <1>2, <2>1
<1>17. Abstract!Make(q)
  <2>1. (pc' = "crash") = (pc = "crash") /\ target' = target
    BY <1>0
  <2> HIDE DEF q
  <2> QED
    BY <1>9, <1>12, <1>13, <1>14, <1>15, <2>1 DEF Abstract!Make
<1> HIDE DEF q, s
<1>18. Abstract!Make(SubSeq(path, 1, Len(s) + 1))
  BY <1>16, <1>17
<1> QED
  BY <1>15, <1>16, <1>18

\* A step that neither asks, makes, answers nor halts.
LEMMA StutterStep ==
  ASSUME where' = where, Nodes' = Nodes, Wanted' = Wanted, target' = target,
         pc # "crash", pc' # "crash"
  PROVE  UNCHANGED Abstract!vars
<1>1. Files' = Files
  BY FilesKept
<1>2. (pc' = "crash") = (pc = "crash")
  OBVIOUS
<1> QED
  BY <1>1, <1>2 DEF Abstract!vars

\* Every step is a step of the name space, or none.
LEMMA AbstractStep ==
  ASSUME VfsInv, VfsInv', [Next]_vars
  PROVE  [Abstract!Next]_(Abstract!vars)
<1>u. Unique
  BY DEF VfsInv, Shaped
<1>1. ASSUME NEW q \in Creates \cup {InitPaths[1], InitPaths[2]}, kcreate(q)
      PROVE  Abstract!Next
  <2>1. where' = where /\ Nodes' = Nodes
    BY <1>1 DEF kcreate, tree, Nodes
  <2>2. Files' = Files
    BY <2>1, FilesKept
  <2>3. Wanted = {} /\ Wanted' = {q} /\ target' = target
        /\ (pc' = "crash") = FALSE /\ (pc = "crash") = FALSE
    BY <1>1 DEF kcreate, Start, Wanted
  <2>4. Abstract!Request(q)
    BY <2>2, <2>3 DEF Abstract!Request
  <2> QED
    BY <2>4 DEF Abstract!Next
<1>2. ASSUME NEW m \in Mounts, kmount(m) PROVE Abstract!Next
  <2>1. where' = where /\ Nodes' = Nodes
    BY <1>2 DEF kmount, tree, Nodes
  <2>2. Files' = Files
    BY <2>1, FilesKept
  <2>3. Wanted = {} /\ Wanted' = {m.path} /\ target' = target
        /\ (pc' = "crash") = FALSE /\ (pc = "crash") = FALSE
    BY <1>2 DEF kmount, Start, Wanted
  <2>4. Abstract!Request(m.path)
    BY <2>2, <2>3 DEF Abstract!Request
  <2> QED
    BY <2>4 DEF Abstract!Next
<1>a. Abstract!Answer => Abstract!Next
  BY DEF Abstract!Next
<1>3. CASE SeekStep \/ CreateStep
  <2>1. where' = where /\ Nodes' = Nodes /\ target' = target /\ pc' = pc
        /\ path' = path /\ pc # "crash"
    BY <1>3 DEF SeekStep, CreateStep, Seeking, tree, args, Nodes
  <2>2. Wanted' = Wanted
    BY <2>1 DEF Wanted
  <2> QED
    BY <2>1, <2>2, StutterStep
<1>4. CASE SeekMiss
  <2>1. where' = where /\ Nodes' = Nodes /\ path' = path /\ pc # "crash"
    BY <1>4 DEF SeekMiss, Seeking, tree, args, Nodes
  <2>2. target' = target /\ pc' # "crash" /\ Wanted' = Wanted
    BY <1>4, <2>1 DEF SeekMiss, KseekReturns, StartCreate, Start, Wanted
  <2> QED
    BY <2>1, <2>2, StutterStep
<1>5. CASE SeekHit
  <2>1. /\ where' = where /\ Nodes' = Nodes /\ path' = path /\ pc # "crash"
        /\ UNCHANGED tree /\ UNCHANGED args
    BY <1>5 DEF SeekHit, Seeking, tree, args, Nodes
  <2>2. cur \in Nodes /\ cur # NULL
    BY <1>5 DEF VfsInv, TypeOK, SeekHit
  <2>3. where[cur] = Walked
    <3>1. where[cur] \in Seq(Names) /\ where[cur] \o <<>> = Walked
      BY <1>5, <2>2, NodeTypes DEF VfsInv, Loops, SeekHit
    <3> QED
      BY <3>1, ConcatEmptySeq
  <2>4. CASE pc = "seek_device" /\ pc' = "mount" /\ UNCHANGED target
    <3>1. Wanted' = Wanted
      BY <2>4 DEF Wanted
    <3> QED
      BY <2>1, <2>4, <3>1, StutterStep
  <2>5. CASE /\ pc \in {"seek_path", "seek_create"} /\ target' = cur
             /\ pc' \in {"idle", "seek_device"}
    <3>1. where[cur] = path
      BY <2>3, <2>5 DEF Walked
    <3>2. Abstract!Answer
      BY <1>u, <2>1, <2>2, <2>5, <3>1, AnswerStep
    <3> QED
      BY <3>2, <1>a
  <2> QED
    BY <1>5, <2>2, <2>4, <2>5
       DEF SeekHit, KseekReturns, KcreateReturns, SeekDevice, Start, Done
<1>6. CASE CreateNew
  BY <1>6, MakeStep DEF Abstract!Next
<1>7. CASE CreateDone
  <2>1. pc = "create" /\ UNCHANGED tree /\ UNCHANGED args /\ cur \in Nodes /\ cur # NULL
    BY <1>7 DEF CreateDone, VfsInv, TypeOK
  <2>2. where[cur] \in Seq(Names) /\ where[cur] \o <<>> = path
    BY <1>7, <2>1, NodeTypes DEF VfsInv, Loops, CreateDone, Walked
  <2>3. where[cur] = path
    BY <2>2, ConcatEmptySeq
  <2>4. target' = cur /\ pc' \in {"idle", "seek_device"}
    BY <1>7 DEF CreateDone, KcreateReturns, SeekDevice, Start, Done
  <2>5. Abstract!Answer
    BY <1>u, <2>1, <2>3, <2>4, AnswerStep
  <2> QED
    BY <2>5, <1>a
<1>8. CASE MountDone
  <2>1. where' = where /\ target' = target /\ pc = "mount" /\ pc' = "idle"
    BY <1>8 DEF MountDone, Done
  <2>2. Wanted' = Wanted
    BY <2>1 DEF Wanted
  <2>3. Nodes' = Nodes
    <3>1. Len(where) = Len(node) /\ Len(where') = Len(node')
      BY DEF VfsInv, TypeOK
    <3> QED
      BY <2>1, <3>1 DEF Nodes
  <2> QED
    BY <2>1, <2>2, <2>3, StutterStep
<1>9. CASE Crash
  <2>1. where' = where /\ Nodes' = Nodes /\ target' = target /\ pc' = "crash"
    BY <1>9 DEF Crash, tree, Nodes
  <2>2. Files' = Files
    BY <2>1, FilesKept
  <2>3. Wanted' = {} /\ (pc' = "crash") = TRUE
    BY <2>1 DEF Wanted
  <2>4. Abstract!Halt
    BY <2>1, <2>2, <2>3 DEF Abstract!Halt
  <2> QED
    BY <2>4 DEF Abstract!Next
<1>10. CASE UNCHANGED vars
  <2>1. where' = where /\ Nodes' = Nodes /\ target' = target /\ pc' = pc /\ path' = path
    BY <1>10 DEF vars, Nodes
  <2>2. Files' = Files
    BY <2>1, FilesKept
  <2> QED
    BY <2>1, <2>2 DEF Abstract!vars, Wanted
<1> QED
  BY <1>1, <1>2, <1>3, <1>4, <1>5, <1>6, <1>7, <1>8, <1>9, <1>10 DEF Next, Step

\* kcreate adds exactly the missing prefixes of its path and returns the
\* path's node, whatever was asked for before.
THEOREM VfsImplementsNamespace == Spec => ImplementsNamespace
<1>1. VfsInv /\ VfsInv' /\ [Next]_vars => [Abstract!Next]_(Abstract!vars)
  BY AbstractStep
<1> QED
  BY <1>1, AbstractInit, VfsInvariant, PTL DEF Spec, ImplementsNamespace, Abstract!Spec
=============================================================================
