------------------------------- MODULE MCVfs -------------------------------
(* Two disks below /dev, a path three deep, and mounts of a disk, of one    *)
(* that may be missing, and on a path that may not exist yet.               *)
EXTENDS Vfs

MCNames == {"[root]", "dev", "proc", "a", "b", "m"}
MCCreates == {<<"dev", "a">>, <<"dev", "b">>, <<"dev">>, <<"m", "a", "b">>}
MCMounts == {[path |-> <<"m", "a">>, device |-> <<"dev", "a">>],
             [path |-> <<>>, device |-> <<"dev", "b">>]}
=============================================================================
