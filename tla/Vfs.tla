-------------------------------- MODULE Vfs --------------------------------
(***************************************************************************)
(* The virtual file system, src/kernel/src/dev/vfs.c: a tree of nodes,     *)
(* vfs_init, and the two entry points modules call, kcreate and kmount,    *)
(* one iteration of their strtok loops per step.                           *)
(*                                                                         *)
(* A path is the sequence of names strtok finds in it, so "/" and "" are   *)
(* <<>>, and strtok's static pointer is the sequence of names still to     *)
(* come (a null pointer and one to the empty rest give the same answers).  *)
(* A node is its number, in the order vfs_create_node allocates them.  The *)
(* one file system type is vfs_typeid: nothing else calls                  *)
(* vfs_register_type.  Calls come one at a time, from the boot thread.     *)
(***************************************************************************)
EXTENDS Integers, Sequences

CONSTANTS Names,    \* what strtok can find between slashes, and "[root]"
          Creates,  \* paths modules pass to kcreate
          Mounts    \* [path, device] pairs modules pass to kmount

ASSUME VfsAssumption ==
  /\ {"[root]", "dev", "proc"} \subseteq Names
  /\ Creates \subseteq Seq(Names)
  /\ Mounts \subseteq [path : Seq(Names), device : Seq(Names)]

VARIABLES node,    \* the nodes; 0 is the null pointer
          where,   \* for the properties: the path each node was created at
          p,       \* strtok's static
          pc,      \* the loop or statement the thread is at
          fn,      \* the entry point
          path, device,  \* its arguments
          cur,     \* kseek's root, kcreate's node, kmount's device_node
          target,  \* what kcreate returned, or kmount's node
          todo     \* the kcreate calls vfs_init has yet to make

vars == <<node, where, p, pc, fn, path, device, cur, target, todo>>

NULL == 0
Root == 1
VfsType == 0        \* vfs_typeid
Unregistered == 1   \* any other index of fs_types: a null entry

Nodes == 1 .. Len(node)

\* What vfs_create_node fills in.
NewNode(name, parent) ==
  [name |-> name, fs_type |-> VfsType, device |-> NULL,
   childs |-> <<>>, parent |-> parent]

\* Indices of the children called name, and vfs_seek, which takes the first.
NamedButLast(n, name) ==
  {i \in 1 .. Len(node[n].childs) - 1 : node[node[n].childs[i]].name = name}
Named(n, name) ==
  {i \in 1 .. Len(node[n].childs) : node[node[n].childs[i]].name = name}
vfs_seek(name, n) ==
  IF Named(n, name) = {} THEN NULL
  ELSE node[n].childs[CHOOSE i \in Named(n, name) :
                        \A j \in Named(n, name) : i <= j]

-----------------------------------------------------------------------------
(* vfs_init registers the type and makes the root, then calls kcreate.     *)

InitPaths == <<<<"dev">>, <<"proc">>>>

Init ==
  /\ node = <<NewNode("[root]", NULL)>>
  /\ where = <<<<>>>>
  /\ p = <<>>
  /\ pc = "idle" /\ fn = "none"
  /\ path = <<>> /\ device = <<>>
  /\ cur = NULL /\ target = Root
  /\ todo = InitPaths

tree == <<node, where>>
args == <<fn, path, device>>

\* strtok(copy, "/") starts over; strtok(NULL, "/") goes on.
Rest == Tail(p)

\* A loop starts: from the root, with the first token of q.
Start(stage, q) == pc' = stage /\ p' = q /\ cur' = Root

kcreate(q) ==
  /\ pc = "idle"
  /\ IF todo = <<>> THEN q \in Creates /\ UNCHANGED todo
     ELSE q = Head(todo) /\ todo' = Tail(todo)
  /\ fn' = "kcreate" /\ path' = q /\ device' = <<>>
  /\ Start("seek_create", q)
  /\ UNCHANGED <<tree, target>>

kmount(m) ==
  /\ pc = "idle" /\ todo = <<>>
  /\ fn' = "kmount" /\ path' = m.path /\ device' = m.device
  /\ Start("seek_path", m.path)
  /\ UNCHANGED <<tree, target, todo>>

-----------------------------------------------------------------------------
(* kcreate's return, kseek and kseek's return                              *)

Seeking == pc \in {"seek_path", "seek_create", "seek_device"}

Done == pc' = "idle" /\ cur' = NULL

\* kmount's second kseek.
SeekPathAgain == Start("seek_device", path)
SeekDevice == Start("seek_device", device)

\* kcreate returns v: to the module, or to kmount, which looks for the
\* device next.
KcreateReturns(v, rest) ==
  /\ target' = v
  /\ \/ fn = "kcreate" /\ Done /\ p' = rest
     \/ fn = "kmount" /\ SeekDevice

\* The second loop of kcreate, after its kseek has failed.
RetrySeek(rest) == Start("seek_create", path)
CreateFromMiss(rest) == Start("create", rest)
StartCreate(rest) == Start("create", path)

\* kseek returns v to its caller.
KseekReturns(v, rest) ==
  \/ /\ pc = "seek_path" /\ v # NULL
     /\ target' = v
     /\ SeekDevice
  \/ /\ pc = "seek_path" /\ v = NULL
     /\ Start("seek_create", path)
     /\ UNCHANGED target
  \/ pc = "seek_create" /\ v # NULL /\ KcreateReturns(v, rest)
  \/ pc = "seek_create" /\ v = NULL /\ StartCreate(rest) /\ UNCHANGED target
  \/ /\ pc = "seek_device"
     /\ pc' = "mount" /\ cur' = v /\ p' = rest
     /\ UNCHANGED target

SeekStep ==
  /\ Seeking /\ p # <<>>
  /\ vfs_seek(Head(p), cur) # NULL
  /\ cur' = vfs_seek(Head(p), cur)
  /\ p' = Rest
  /\ UNCHANGED <<tree, pc, args, target, todo>>

SeekMiss ==
  /\ Seeking /\ p # <<>>
  /\ vfs_seek(Head(p), cur) = NULL
  /\ KseekReturns(NULL, Rest)
  /\ UNCHANGED <<tree, args, todo>>

SeekHit ==
  /\ Seeking /\ p = <<>>
  /\ KseekReturns(cur, <<>>)
  /\ UNCHANGED <<tree, args, todo>>

-----------------------------------------------------------------------------
(* kcreate's loop                                                          *)

CreateStep ==
  /\ pc = "create" /\ p # <<>>
  /\ vfs_seek(Head(p), cur) # NULL
  /\ cur' = vfs_seek(Head(p), cur)
  /\ p' = Rest
  /\ UNCHANGED <<tree, pc, args, target, todo>>

\* vfs_add_child: the new node is the parent's last child.
Adopted(parent, child) ==
  [node EXCEPT ![parent].childs = Append(@, child)]

\* vfs_create, vfs_create_node and vfs_add_child.
vfs_create(name, prev_node) ==
  node' = Append(Adopted(prev_node, Len(node) + 1), NewNode(name, prev_node))

\* The node kcreate's loop goes on from: the one it has made.
Created == Len(node) + 1

CreateNew ==
  /\ pc = "create" /\ p # <<>>
  /\ vfs_seek(Head(p), cur) = NULL
  /\ vfs_create(Head(p), cur)
  /\ where' = Append(where, Append(where[cur], Head(p)))
  /\ cur' = Created
  /\ p' = Rest
  /\ UNCHANGED <<pc, args, target, todo>>

CreateDone ==
  /\ pc = "create" /\ p = <<>>
  /\ KcreateReturns(cur, <<>>)
  /\ UNCHANGED <<tree, args, todo>>

-----------------------------------------------------------------------------
(* kmount's end                                                            *)

\* vfs_mount.  device_node was not checked: through a null one, fs_type is
\* read from page 0, which holds what the firmware left there.
vfs_mount(to, from) ==
  \E type \in IF from = NULL THEN {VfsType, Unregistered} ELSE {node[from].fs_type} :
    node' = [node EXCEPT ![to].device = from, ![to].fs_type = type]

MountDone ==
  /\ pc = "mount"
  /\ vfs_mount(target, cur)
  /\ Done
  /\ UNCHANGED <<where, p, args, target, todo>>

\* A node of an unregistered type: the call goes through a null entry of
\* fs_types, to the address page 0 holds, or to the vfs type's function if it
\* holds none.
Crash ==
  /\ \/ Seeking /\ p # <<>> /\ node[cur].fs_type = Unregistered
     \/ pc = "mount" /\ node[target].fs_type = Unregistered
  /\ pc' = "crash"
  /\ UNCHANGED <<tree, p, args, cur, target, todo>>

Step == \/ SeekStep \/ SeekMiss \/ SeekHit
        \/ CreateStep \/ CreateNew \/ CreateDone
        \/ MountDone \/ Crash

Next == \/ \E q \in Creates \cup {InitPaths[1], InitPaths[2]} : kcreate(q)
        \/ \E m \in Mounts : kmount(m)
        \/ Step

Spec == Init /\ [][Next]_vars

\* The boot thread goes on inside a call.
FairSpec == Spec /\ WF_vars(Step)

-----------------------------------------------------------------------------
(* Properties                                                              *)

PCs == {"idle", "seek_path", "seek_create", "create", "seek_device", "mount",
        "crash"}

Record == [name : Names, fs_type : {VfsType, Unregistered},
           device : Nodes \cup {NULL}, childs : Seq(Nodes),
           parent : Nodes \cup {NULL}]

\* Types; the loops dereference their node, so it is never null in them.
TypeOK ==
  /\ node \in Seq(Record) /\ Len(node) > 0
  /\ where \in Seq(Seq(Names)) /\ Len(where) = Len(node)
  /\ p \in Seq(Names)
  /\ pc \in PCs /\ fn \in {"none", "kcreate", "kmount"}
  /\ path \in Seq(Names) /\ device \in Seq(Names)
  /\ cur \in Nodes \cup {NULL} /\ target \in Nodes
  /\ todo \in Seq({InitPaths[1], InitPaths[2]})
  /\ Seeking \/ pc = "create" => cur # NULL

\* parent and childs describe one tree: a child's parent is the node that
\* lists it, every node but the root is listed by its parent, and following
\* names down from the root leads to the path the node was created at.
Tree ==
  /\ where[Root] = <<>>
  /\ \A n \in Nodes : \A i \in 1 .. Len(node[n].childs) :
       LET c == node[n].childs[i] IN
       c # Root /\ node[c].parent = n /\ where[c] = Append(where[n], node[c].name)
  /\ \A c \in Nodes \ {Root} :
       \E n \in Nodes : \E i \in 1 .. Len(node[n].childs) : node[n].childs[i] = c

\* No two children of a node have one name, so vfs_seek's first match is the
\* only one, however calls for overlapping paths follow each other.
Siblings ==
  \A n \in Nodes : \A i, j \in 1 .. Len(node[n].childs) :
    node[node[n].childs[i]].name = node[node[n].childs[j]].name => i = j

\* The nodes are a tree in which a path leads to one node.
WellFormed == Tree /\ Siblings

\* What kmount has found when it mounts: the node of its path, and the node
\* of its device or nothing if there is none.
Found ==
  pc = "mount" =>
    /\ where[target] = path
    /\ IF cur = NULL THEN \A n \in Nodes : where[n] # device
                    ELSE where[cur] = device

\* kcreate and kmount come back, or crash in a node of no known type.
Returns == (pc # "idle") ~> (pc \in {"idle", "crash"})

-----------------------------------------------------------------------------
(* The tree implements the name space.                                     *)

Files == [q \in {where[n] : n \in Nodes} |->
            CHOOSE n \in Nodes : where[n] = q]

Wanted == IF pc \in {"seek_path", "seek_create", "create"} THEN {path} ELSE {}

Abstract == INSTANCE Namespace
               WITH files    <- Files,
                    want     <- Wanted,
                    answer   <- target,
                    halted   <- (pc = "crash"),
                    Requests <- Creates \cup {m.path : m \in Mounts}
                                  \cup {InitPaths[1], InitPaths[2]}

\* However its loops interleave lookups and creations, kcreate adds exactly
\* the missing prefixes of its path and returns the path's node.
ImplementsNamespace == Abstract!Spec
=============================================================================
