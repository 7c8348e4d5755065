-------------------------------- MODULE Ata --------------------------------
(***************************************************************************)
(* load of the ata module (src/modules/src/ata/src/ata.c): ata_identity    *)
(* asks each drive of each bus for its identity and polls the bus's        *)
(* status while the drive, which runs beside it, works on the answer.      *)
(*                                                                         *)
(* A drive's identity is a value of its own; the buffer on load's stack    *)
(* holds the last one read, or Junk.                                       *)
(***************************************************************************)
EXTENDS Integers, Sequences

CONSTANTS Kinds,    \* what may be at a place: subset of the drives below
          Junk      \* what the stack holds

VARIABLES kind,     \* the drive at each place
          floats,   \* whether a bus without drives reads as all ones
          selected, \* the place a bus's registers belong to
          status,   \* of each drive: idle, busy, clear, data or error
          signature,\* whether its registers say it is a packet device
          pc, i, j, \* load's loops and ata_identity's
          buffer,
          ata_devices,
          letter,   \* of the next node, from 0
          nodes     \* the letters kcreate has been called with

drives == <<kind, floats>>
registers == <<selected, status, signature>>
found == <<ata_devices, letter, nodes>>
vars == <<drives, registers, pc, i, j, buffer, found>>

Places == {0, 1} \X {0, 1}
Here == <<i, j>>
NoDevice == [at |-> <<>>, ident_buffer |-> Junk]

Init ==
  /\ kind \in [Places -> Kinds]
  /\ floats \in [{0, 1} -> BOOLEAN]
  /\ \A b \in {0, 1} : floats[b] => \A p \in Places : p[1] = b => kind[p] = "none"
  /\ selected = [b \in {0, 1} |-> 0]
  /\ status = [p \in Places |-> "idle"]
  /\ signature = [p \in Places |-> FALSE]
  /\ pc = "reset" /\ i = 0 /\ j = 0
  /\ buffer = Junk
  /\ ata_devices = [n \in 0 .. 3 |-> NoDevice]
  /\ letter = 0 /\ nodes = <<>>

-----------------------------------------------------------------------------
(* The bus, as the ATA standard has it                                     *)

\* The drive the registers of a bus belong to.
At(b) == <<b, selected[b]>>
AllOnes(b) == floats[b]
Missing(b) == kind[At(b)] = "none" /\ ~floats[b]

\* inb(ATA_STATUS): all zeros for a drive that is not there.
StatusZero(b) == Missing(b)
BSY(b) == AllOnes(b) \/ status[At(b)] = "busy"
ErrorOnes(b) == AllOnes(b)
ERR(b) == AllOnes(b) \/ status[At(b)] = "error"
NoError(b) == AllOnes(b) \/ status[At(b)] # "error"
DRQ(b) == AllOnes(b) \/ status[At(b)] = "data"
MidOrHigh(b) == AllOnes(b) \/ signature[At(b)]

\* A drive works on IDENTIFY no longer; a packet device has its signature in
\* the registers.  Then it has data, or an error.
Answer ==
  \E p \in Places :
    /\ \/ /\ status[p] = "busy"
          /\ status' = [status EXCEPT ![p] = "clear"]
          /\ signature' = [signature EXCEPT ![p] = kind[p] = "atapi"]
       \/ /\ status[p] = "clear"
          /\ status' = [status EXCEPT ![p] = IF kind[p] = "ata" THEN "data" ELSE "error"]
          /\ UNCHANGED signature
    /\ UNCHANGED <<drives, selected, pc, i, j, buffer, found>>

-----------------------------------------------------------------------------
(* load and ata_identity                                                   *)

\* ata_reset of both buses stores 0x20, then 0, in the device control
\* registers: no drive is reset, whose bit is 0x04, and none is silenced.
ata_reset ==
  /\ pc = "reset"
  /\ pc' = "command"
  /\ UNCHANGED <<drives, registers, i, j, buffer, found>>

\* The five registers, which both drives of the bus see, and the command.
Command ==
  /\ pc = "command"
  /\ selected' = [selected EXCEPT ![i] = j]
  /\ signature' = [p \in Places |-> signature[p] /\ p[1] # i]
  /\ status' = IF kind[Here] = "none" THEN status ELSE [status EXCEPT ![Here] = "busy"]
  /\ pc' = "status"
  /\ UNCHANGED <<drives, i, j, buffer, found>>

\* if (inb(ATA_STATUS(iobase)))
FirstStatus ==
  /\ pc = "status"
  /\ pc' = IF StatusZero(i) THEN "absent" ELSE "busy"
  /\ UNCHANGED <<drives, registers, i, j, buffer, found>>

\* while (inb(ATA_STATUS(iobase)) & 0x80)
Once(b) == FALSE
Waits(b) == BSY(b)
PollBusy ==
  /\ pc = "busy"
  /\ pc' = IF Waits(i) THEN "busy" ELSE "signature"
  /\ UNCHANGED <<drives, registers, i, j, buffer, found>>

\* A packet device: return 0, and the buffer as it was.
ReadSignature ==
  /\ pc = "signature"
  /\ pc' = IF MidOrHigh(i) THEN "found" ELSE "data"
  /\ UNCHANGED <<drives, registers, i, j, buffer, found>>

\* while (1)
PollData ==
  /\ pc = "data"
  /\ \/ ERR(i) /\ pc' = "absent"
     \/ ~ERR(i) /\ DRQ(i) /\ pc' = "read"
     \/ ~ERR(i) /\ ~DRQ(i) /\ pc' = "data"
  /\ UNCHANGED <<drives, registers, i, j, buffer, found>>

\* The 256 words.
ReadWords ==
  /\ pc = "read"
  /\ buffer' = At(i)
  /\ status' = [status EXCEPT ![At(i)] = "idle"]
  /\ pc' = "found"
  /\ UNCHANGED <<drives, selected, signature, i, j, found>>

\* The next drive of load's two loops.
LastPlace == i = 1 /\ j = 1
After == IF LastPlace \/ j = 0 THEN <<i, 1>> ELSE <<i + 1, 0>>
NextPlace ==
  /\ i' = After[1] /\ j' = After[2]
  /\ pc' = IF LastPlace THEN "done" ELSE "command"

Slot(b, slave) == 2 * b + slave
Register ==
  /\ pc = "found"
  /\ ata_devices' = [ata_devices EXCEPT ![Slot(i, j)] = [at |-> Here, ident_buffer |-> buffer]]
  /\ nodes' = Append(nodes, letter)
  /\ letter' = letter + 1
  /\ NextPlace
  /\ UNCHANGED <<drives, registers, buffer>>

NotFound ==
  /\ pc = "absent"
  /\ NextPlace
  /\ UNCHANGED <<drives, registers, buffer, found>>

load == \/ ata_reset \/ Command \/ FirstStatus \/ PollBusy \/ ReadSignature \/ PollData
        \/ ReadWords \/ Register \/ NotFound

Next == load \/ Answer

\* The kernel's thread goes on; a drive answers every command.
Fairness == WF_vars(load) /\ WF_vars(Answer)
Spec == Init /\ [][Next]_vars /\ Fairness

-----------------------------------------------------------------------------
(* Properties                                                              *)

TypeOK ==
  /\ pc \in {"reset", "command", "status", "busy", "signature", "data", "read", "found",
             "absent", "done"}
  /\ i \in {0, 1} /\ j \in {0, 1}
  /\ selected \in [{0, 1} -> {0, 1}]
  /\ status \in [Places -> {"idle", "busy", "clear", "data", "error"}]
  /\ buffer \in Places \cup {Junk}
  /\ ata_devices \in [0 .. 3 -> [at : Places, ident_buffer : Places \cup {Junk}]
                                  \cup {NoDevice}]
  /\ letter \in 0 .. 4

\* Typed; and when load returns, ata_devices has each disk at its place, with
\* the identity it gave and none of another's, packet devices, whatever
\* identity is left for them, and nothing else.
Identified ==
  TypeOK /\ (pc = "done" => \A p \in Places :
    LET device == ata_devices[2 * p[1] + p[2]] IN
    /\ kind[p] = "ata" => device = [at |-> p, ident_buffer |-> p]
    /\ kind[p] = "atapi" => device.at = p
    /\ kind[p] \notin {"ata", "atapi"} => device = NoDevice)

\* The data register is read only when the drive has data, and no command is
\* written while a drive of the bus works on one, or has data to be read.
Polite ==
  [][/\ pc = "read" /\ pc' = "found" => status[At(i)] = "data"
     /\ pc = "command" /\ pc' = "status" =>
          \A slave \in {0, 1} : status[<<i, slave>>] \notin {"busy", "data"}]_vars

\* load returns, unless it waits for a bus that nothing is on.
Returns == (\E b \in {0, 1} : floats[b]) \/ <>(pc = "done")
=============================================================================
