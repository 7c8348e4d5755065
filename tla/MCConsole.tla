----------------------------- MODULE MCConsole -----------------------------
(* Two messages of the boot thread, of two bytes, and two prints of         *)
(* handlers, of three; the controllers as firmware leaves them, or with all *)
(* lines open.                                                              *)
EXTENDS Console

MCMessages == {[level |-> "info", text |-> 0], [level |-> "debug", text |-> 0]}
MCMasks == {[A |-> \hB8, B |-> \h8F], [A |-> 0, B |-> 0]}
MCSpec == ConsoleSpec /\ ConsoleFairness
=============================================================================
