--------------------------- MODULE DevicesProofs ---------------------------
(***************************************************************************)
(* Theorems about the devices.  The two probes: for any drives at the four *)
(* places and any functions on the PCI buses, whatever the buses' sizes.   *)
(* The console: no byte is lost on its way to the line, for every size of  *)
(* the chip's FIFO, every set of messages and every number of interrupts.  *)
(* The interrupt controllers: for any masks the firmware leaves.           *)
(***************************************************************************)
EXTENDS Devices, Console, SequenceTheorems, TLAPS

-----------------------------------------------------------------------------
(* load of the ata module                                                  *)

\* A drive load is done with; the statements that ask the drive at Here.
Asked(p) == pc = "done" \/ p[1] < i \/ (p[1] = i /\ p[2] < j)
Busy == {"status", "busy", "signature", "data", "read"}

\* What ata_devices has of a drive.
Entry(p) == ata_devices[Slot(p[1], p[2])]
Described(p) ==
  /\ kind[p] = "ata" => Entry(p) = [at |-> p, ident_buffer |-> p]
  /\ kind[p] = "atapi" => Entry(p).at = p
  /\ kind[p] \notin {"ata", "atapi"} => Entry(p) = NoDevice

\* A drive no command is written for has no data and will have none: a packet
\* device may still be about to report the error.
Quiet(p) ==
  /\ status[p] \in {"idle", "clear", "error"}
  /\ status[p] = "clear" => kind[p] # "ata"

\* What a drive's registers say of it.
Honest(p) ==
  /\ status[p] \in {"idle", "busy", "clear", "data", "error"}
  /\ kind[p] = "none" => status[p] = "idle"
  /\ status[p] = "data" => kind[p] = "ata"
  /\ status[p] = "error" => kind[p] # "ata"
  /\ signature[p] = TRUE => kind[p] = "atapi"

\* What ata_identity knows of the drive it asks, statement by statement.
Known(p) ==
  /\ pc \in Busy => selected[p[1]] = p[2]
  /\ pc \in {"signature", "data", "read", "found", "absent"} => ~floats[p[1]]
  /\ pc \in {"busy", "signature", "data", "read"} /\ ~floats[p[1]] => kind[p] # "none"
  /\ pc \in {"status", "busy"} => status[p] \in {"busy", "clear", "data", "error"} \/ kind[p] = "none"
  /\ pc \in {"signature", "data", "read"} => status[p] \in {"clear", "data", "error"}
  /\ pc \in Busy /\ status[p] \in {"clear", "error"} => signature[p] = (kind[p] = "atapi")
  /\ pc \in {"data", "read"} => kind[p] # "atapi"
  /\ pc = "read" => status[p] = "data"
  /\ pc = "found" => kind[p] \in {"ata", "atapi"} /\ (kind[p] = "ata" => buffer = p)
  /\ pc = "absent" => kind[p] \notin {"ata", "atapi"}

\* No drive but the one asked can have data, and those that have been asked
\* are described.
AtaInv ==
  /\ TypeOK /\ signature \in [Places -> BOOLEAN]
  /\ \A p \in Places : floats[p[1]] => kind[p] = "none"
  /\ \A p \in Places : Honest(p)
  /\ \A p \in Places : (p = Here /\ pc \in Busy) \/ Quiet(p)
  /\ \A p \in Places : IF Asked(p) THEN Described(p) ELSE Entry(p) = NoDevice
  /\ pc = "done" \/ letter <= Slot(i, j)
  /\ pc = "reset" => i = 0 /\ j = 0
  /\ Known(Here)

-----------------------------------------------------------------------------
(* Facts about places, and each step                                       *)

LEMMA PlaceFacts ==
  /\ \A p \in Places : p[1] \in {0, 1} /\ p[2] \in {0, 1} /\ p = <<p[1], p[2]>>
  /\ \A b, s \in {0, 1} : <<b, s>> \in Places /\ <<b, s>>[1] = b /\ <<b, s>>[2] = s
BY DEF Places

\* Each place has its own entry.
LEMMA SlotFacts ==
  /\ \A b, s \in {0, 1} : Slot(b, s) \in 0 .. 3
  /\ \A p, q \in Places : Slot(p[1], p[2]) = Slot(q[1], q[2]) => p = q
BY PlaceFacts DEF Slot

LEMMA HereFacts ==
  ASSUME TypeOK
  PROVE  /\ Here \in Places /\ Here[1] = i /\ Here[2] = j /\ At(i) \in Places
         /\ selected[i] = j => At(i) = Here
BY PlaceFacts DEF TypeOK, Here, At

LEMMA AtaInitInv == Init => AtaInv
<1> SUFFICES ASSUME Init PROVE AtaInv
  OBVIOUS
<1>1. TypeOK
  BY DEF Init, TypeOK
<1>2. \A p \in Places : floats[p[1]] => kind[p] = "none"
  BY PlaceFacts DEF Init
<1>3. \A p \in Places : Honest(p) /\ Quiet(p)
  BY DEF Init, Honest, Quiet
<1>4. \A p \in Places : ~Asked(p) /\ Entry(p) = NoDevice
  BY PlaceFacts, SlotFacts DEF Init, Asked, Entry
<1> QED
  BY <1>1, <1>2, <1>3, <1>4 DEF Init, AtaInv, Known, Slot, Busy

\* The drive's registers are read through the bus it is selected on.
LEMMA ReadFacts ==
  ASSUME AtaInv, pc \in Busy
  PROVE  /\ At(i) = Here /\ Here \in Places
         /\ StatusZero(i) <=> kind[Here] = "none" /\ ~floats[i]
         /\ Waits(i) <=> floats[i] \/ status[Here] = "busy"
         /\ MidOrHigh(i) <=> floats[i] \/ signature[Here]
         /\ ERR(i) <=> floats[i] \/ status[Here] = "error"
         /\ DRQ(i) <=> floats[i] \/ status[Here] = "data"
<1>1. At(i) = Here /\ Here \in Places
  BY HereFacts DEF AtaInv, Known
<1> QED
  BY <1>1 DEF StatusZero, Missing, AllOnes, Waits, BSY, MidOrHigh, ERR, DRQ

\* A step of ata_identity that only goes on to another statement.
LEMMA GoesOn ==
  ASSUME AtaInv, UNCHANGED <<drives, registers, i, j, buffer, found>>, pc # "done",
         pc' \in {"command", "status", "busy", "signature", "data", "read", "found", "absent"},
         Known(Here)', pc' \in Busy \/ Quiet(Here)
  PROVE  AtaInv'
<1>1. \A p \in Places : /\ Asked(p)' <=> Asked(p)
                        /\ Described(p)' <=> Described(p)
                        /\ Entry(p)' = Entry(p)
                        /\ Honest(p)' <=> Honest(p)
                        /\ Quiet(p)' <=> Quiet(p)
  BY DEF Asked, Described, Entry, Honest, Quiet, drives, registers, found
<1>2. Here' = Here /\ floats' = floats /\ kind' = kind /\ Slot(i, j)' = Slot(i, j)
  BY DEF Here, drives, Slot
<1>3. TypeOK' /\ signature' \in [Places -> BOOLEAN]
  BY DEF AtaInv, TypeOK, registers, found, drives
<1>4. \A p \in Places : (p = Here /\ pc' \in Busy) \/ Quiet(p)
  BY DEF AtaInv
<1>5. letter' <= Slot(i, j)' /\ pc' # "reset"
  BY <1>2 DEF AtaInv, found
<1> HIDE DEF AtaInv
<1>6. /\ \A p \in Places : floats[p[1]] => kind[p] = "none"
      /\ \A p \in Places : Honest(p)
      /\ \A p \in Places : IF Asked(p) THEN Described(p) ELSE Entry(p) = NoDevice
  BY DEF AtaInv
<1> QED
  BY <1>1, <1>2, <1>3, <1>4, <1>5, <1>6 DEF AtaInv

LEMMA PollInv ==
  ASSUME AtaInv, ata_reset \/ FirstStatus \/ PollBusy \/ ReadSignature \/ PollData
  PROVE  AtaInv'
<1>0. /\ UNCHANGED <<drives, registers, i, j, buffer, found>> /\ pc # "done"
      /\ Here' = Here
  BY DEF ata_reset, FirstStatus, PollBusy, ReadSignature, PollData, Here
<1>1. Known(Here) /\ Honest(Here) /\ (pc \in Busy \/ Quiet(Here)) /\ Here[1] = i
      /\ (floats[i] => kind[Here] = "none")
  BY HereFacts DEF AtaInv
<1>2. CASE ata_reset
  BY <1>0, <1>1, <1>2, GoesOn DEF ata_reset, Known, Busy
<1>3. CASE FirstStatus
  <2>1. pc = "status" /\ pc' = IF kind[Here] = "none" /\ ~floats[i] THEN "absent" ELSE "busy"
    BY <1>3, ReadFacts DEF FirstStatus, Busy
  <2>2. Known(Here)' /\ (pc' \in Busy \/ Quiet(Here))
    BY <2>1, <1>0, <1>1 DEF Known, Busy, Quiet, Honest, drives, registers
  <2> QED
    BY <2>1, <2>2, <1>0, GoesOn
<1>4. CASE PollBusy
  <2>1. pc = "busy" /\ pc' = IF floats[i] \/ status[Here] = "busy" THEN "busy" ELSE "signature"
    BY <1>4, ReadFacts DEF PollBusy, Busy
  <2>2. Known(Here)' /\ (pc' \in Busy \/ Quiet(Here))
    BY <2>1, <1>0, <1>1 DEF Known, Busy, Quiet, Honest, drives, registers
  <2> QED
    BY <2>1, <2>2, <1>0, GoesOn
<1>5. CASE ReadSignature
  <2>1. pc = "signature" /\ pc' = IF floats[i] \/ signature[Here] THEN "found" ELSE "data"
    BY <1>5, ReadFacts DEF ReadSignature, Busy
  <2>2. Known(Here)' /\ (pc' \in Busy \/ Quiet(Here))
    BY <2>1, <1>0, <1>1 DEF Known, Busy, Quiet, Honest, drives, registers
  <2> QED
    BY <2>1, <2>2, <1>0, GoesOn
<1>6. CASE PollData
  <2>1. /\ pc = "data"
        /\ pc' \in {"absent", "read", "data"}
        /\ pc' = "absent" => floats[i] \/ status[Here] = "error"
        /\ pc' = "read" => floats[i] \/ status[Here] = "data"
    BY <1>6, ReadFacts DEF PollData, Busy
  <2>2. Known(Here)' /\ (pc' \in Busy \/ Quiet(Here))
    BY <2>1, <1>0, <1>1 DEF Known, Busy, Quiet, Honest, drives, registers
  <2> QED
    BY <2>1, <2>2, <1>0, GoesOn
<1> QED
  BY <1>2, <1>3, <1>4, <1>5, <1>6

\* The command makes its drive busy, if it is there, and clears what the
\* registers of both said.
LEMMA CommandInv ==
  ASSUME AtaInv, Command
  PROVE  AtaInv'
<1>0. /\ UNCHANGED <<drives, i, j, buffer, found>> /\ pc = "command" /\ pc' = "status"
      /\ Here' = Here /\ Here \in Places /\ Here[1] = i /\ Here[2] = j
      /\ i \in {0, 1} /\ j \in {0, 1}
  BY HereFacts DEF AtaInv, TypeOK, Command, Here
<1>1. /\ status \in [Places -> {"idle", "busy", "clear", "data", "error"}]
      /\ selected \in [{0, 1} -> {0, 1}]
  BY DEF AtaInv, TypeOK
<1>2. /\ selected' \in [{0, 1} -> {0, 1}] /\ selected'[i] = j
      /\ status' \in [Places -> {"idle", "busy", "clear", "data", "error"}]
      /\ \A p \in Places : /\ signature'[p] = (signature[p] /\ p[1] # i)
                           /\ p # Here \/ kind[p] = "none" => status'[p] = status[p]
      /\ kind[Here] # "none" => status'[Here] = "busy"
  BY <1>0, <1>1 DEF Command
<1>3. TypeOK' /\ signature' \in [Places -> BOOLEAN]
  <2>1. signature' \in [Places -> BOOLEAN]
    BY DEF Command
  <2> QED
    BY <2>1, <1>0, <1>2 DEF AtaInv, TypeOK, found
<1>4. \A p \in Places : /\ Asked(p)' <=> Asked(p)
                        /\ Described(p)' <=> Described(p)
                        /\ Entry(p)' = Entry(p)
  BY <1>0 DEF Asked, Described, Entry, found, drives
<1>5. \A p \in Places : Honest(p) /\ Quiet(p)
  BY <1>0 DEF AtaInv, Busy
<1>6. /\ \A p \in Places : floats[p[1]] => kind[p] = "none"
      /\ \A p \in Places : IF Asked(p) THEN Described(p) ELSE Entry(p) = NoDevice
      /\ letter <= Slot(i, j)
  BY <1>0 DEF AtaInv
<1>7. \A p \in Places : Honest(p)'
  BY <1>0, <1>2, <1>5 DEF Honest, drives
<1>8. \A p \in Places : p = Here \/ Quiet(p)'
  BY <1>0, <1>2, <1>5 DEF Quiet, drives
<1>9. Known(Here)'
  BY <1>0, <1>2 DEF Known, Busy, drives
<1> QED
  BY <1>0, <1>3, <1>4, <1>6, <1>7, <1>8, <1>9 DEF AtaInv, drives, found, Slot, Busy

\* The words of the drive that has them.
LEMMA ReadWordsInv ==
  ASSUME AtaInv, ReadWords
  PROVE  AtaInv'
<1>0. /\ UNCHANGED <<drives, selected, signature, i, j, found>> /\ pc = "read" /\ pc' = "found"
      /\ Here' = Here /\ Here \in Places /\ Here[1] = i /\ At(i) = Here
  BY HereFacts, ReadFacts DEF AtaInv, ReadWords, Here, Busy
<1>1. /\ status \in [Places -> {"idle", "busy", "clear", "data", "error"}]
      /\ buffer' = Here /\ status' = [status EXCEPT ![Here] = "idle"]
  BY <1>0 DEF AtaInv, TypeOK, ReadWords
<1>2. /\ status' \in [Places -> {"idle", "busy", "clear", "data", "error"}]
      /\ \A p \in Places : p # Here => status'[p] = status[p]
      /\ status'[Here] = "idle"
  BY <1>0, <1>1
<1>3. TypeOK' /\ signature' \in [Places -> BOOLEAN]
  BY <1>0, <1>1, <1>2 DEF AtaInv, TypeOK, found
<1>4. \A p \in Places : /\ Asked(p)' <=> Asked(p)
                        /\ Described(p)' <=> Described(p)
                        /\ Entry(p)' = Entry(p)
  BY <1>0 DEF Asked, Described, Entry, found, drives
<1>5. /\ \A p \in Places : Honest(p)
      /\ \A p \in Places : p = Here \/ Quiet(p)
      /\ Known(Here)
  BY <1>0 DEF AtaInv
<1>6. /\ \A p \in Places : floats[p[1]] => kind[p] = "none"
      /\ \A p \in Places : IF Asked(p) THEN Described(p) ELSE Entry(p) = NoDevice
      /\ letter <= Slot(i, j)
  BY <1>0 DEF AtaInv
<1>7. \A p \in Places : Honest(p)'
  BY <1>0, <1>2, <1>5 DEF Honest, drives
<1>8. \A p \in Places : Quiet(p)'
  BY <1>0, <1>2, <1>5 DEF Quiet, drives
<1>9. kind[Here] = "ata" /\ ~floats[i]
  BY <1>0, <1>5 DEF Known, Honest
<1>10. Known(Here)'
  BY <1>0, <1>1, <1>9 DEF Known, Busy, drives
<1> QED
  BY <1>0, <1>3, <1>4, <1>6, <1>7, <1>8, <1>10 DEF AtaInv, drives, found, Slot, Busy

\* The next place: this one is behind it, no other is.
LEMMA NextPlaceFacts ==
  ASSUME AtaInv, NextPlace, pc # "done"
  PROVE  /\ i' \in {0, 1} /\ j' \in {0, 1} /\ pc' \in {"command", "done"}
         /\ \A p \in Places : Asked(p)' <=> Asked(p) \/ p = Here
         /\ pc' = "done" \/ Slot(i', j') = Slot(i, j) + 1
         /\ Slot(i, j) <= 3
         /\ ~Asked(Here)
<1>1. i \in {0, 1} /\ j \in {0, 1}
  BY DEF AtaInv, TypeOK
<1>2. /\ i = 1 /\ j = 1 => i' = 1 /\ j' = 1 /\ pc' = "done"
      /\ j = 0 => i' = i /\ j' = 1 /\ pc' = "command"
      /\ i = 0 /\ j = 1 => i' = 1 /\ j' = 0 /\ pc' = "command"
  BY <1>1 DEF NextPlace, After, LastPlace
<1>3. \A p \in Places : p = Here <=> p[1] = i /\ p[2] = j
  BY PlaceFacts DEF Here
<1>4. Here[1] = i /\ Here[2] = j
  BY DEF Here
<1>5. ASSUME NEW p \in Places PROVE Asked(p)' <=> Asked(p) \/ p = Here
  <2>1. p[1] \in {0, 1} /\ p[2] \in {0, 1}
    BY PlaceFacts
  <2> QED
    BY <1>1, <1>2, <1>3, <2>1 DEF Asked
<1> QED
  BY <1>1, <1>2, <1>4, <1>5 DEF Asked, Slot

\* What the step to the next place keeps.
LEMMA NextPlaceInv ==
  ASSUME AtaInv, NextPlace, pc \in {"found", "absent"}, UNCHANGED <<drives, registers, buffer>>,
         TypeOK', letter' <= Slot(i, j) + 1,
         NEW h \in Places, h = Here, Described(h)',
         \A p \in Places : p # h => Entry(p)' = Entry(p)
  PROVE  AtaInv'
<1>1. /\ i' \in {0, 1} /\ j' \in {0, 1} /\ pc' \in {"command", "done"}
      /\ \A p \in Places : Asked(p)' <=> Asked(p) \/ p = Here
      /\ pc' = "done" \/ Slot(i', j') = Slot(i, j) + 1
  BY NextPlaceFacts
<1>2. \A p \in Places : Honest(p) /\ Quiet(p)
  BY DEF AtaInv, Busy
<1>3. \A p \in Places : Honest(p)' /\ Quiet(p)'
  BY <1>2 DEF Honest, Quiet, drives, registers
<1>4. ASSUME NEW p \in Places PROVE IF Asked(p)' THEN Described(p)' ELSE Entry(p)' = NoDevice
  <2>1. IF Asked(p) THEN Described(p) ELSE Entry(p) = NoDevice
    BY DEF AtaInv
  <2>2. CASE p = h
    BY <1>1, <2>2
  <2>3. CASE p # h
    <3>1. Entry(p)' = Entry(p) /\ (Asked(p)' <=> Asked(p))
      BY <1>1, <2>3
    <3>2. Described(p)' <=> Described(p)
      BY <3>1 DEF Described, drives
    <3> QED
      BY <3>1, <3>2, <2>1
  <2> QED
    BY <2>2, <2>3
<1>5. Known(Here)'
  BY <1>1 DEF Known, Busy
<1>6. \A p \in Places : floats'[p[1]] => kind'[p] = "none"
  BY DEF AtaInv, drives
<1>7. pc' = "done" \/ letter' <= Slot(i', j')
  BY <1>1
<1>8. signature' \in [Places -> BOOLEAN]
  BY DEF AtaInv, registers
<1> QED
  BY <1>1, <1>3, <1>4, <1>5, <1>6, <1>7, <1>8 DEF AtaInv, Slot

LEMMA RegisterInv ==
  ASSUME AtaInv, Register
  PROVE  AtaInv'
<1> DEFINE d == [at |-> Here, ident_buffer |-> buffer]
<1>1. PICK h \in Places : h = Here
  BY HereFacts DEF AtaInv
<1>2. /\ h[1] = i /\ h[2] = j /\ Known(h) /\ pc = "found" /\ buffer \in Places \cup {Junk}
      /\ i \in {0, 1} /\ j \in {0, 1} /\ letter <= Slot(i, j) /\ letter \in 0 .. 4
      /\ ata_devices \in [0 .. 3 -> [at : Places, ident_buffer : Places \cup {Junk}]
                                      \cup {NoDevice}]
  BY <1>1, HereFacts DEF AtaInv, TypeOK, Register
<1>3. /\ ata_devices' = [ata_devices EXCEPT ![Slot(i, j)] = d] /\ letter' = letter + 1
      /\ NextPlace /\ UNCHANGED <<drives, registers, buffer>>
  BY DEF Register
<1>4. Slot(i, j) \in 0 .. 3 /\ Slot(h[1], h[2]) = Slot(i, j)
  BY <1>2, SlotFacts
<1>5. d \in [at : Places, ident_buffer : Places \cup {Junk}] /\ d.at = h /\ d.ident_buffer = buffer
      /\ d = [at |-> h, ident_buffer |-> buffer]
  BY <1>1, <1>2
<1> HIDE DEF d
<1>6. Entry(h)' = d
  BY <1>2, <1>3, <1>4 DEF Entry
<1>7. ASSUME NEW p \in Places, p # h PROVE Entry(p)' = Entry(p)
  <2>1. Slot(p[1], p[2]) \in 0 .. 3 /\ Slot(p[1], p[2]) # Slot(i, j)
    BY <1>4, <1>7, SlotFacts, PlaceFacts
  <2> QED
    BY <2>1, <1>2, <1>3 DEF Entry
<1>8. kind' = kind
  BY <1>3 DEF drives
<1>9. Described(h)'
  BY <1>1, <1>2, <1>5, <1>6, <1>8 DEF Described, Known
<1>10. letter' <= Slot(i, j) + 1 /\ letter' \in 0 .. 4 /\ Slot(i, j) <= 3
  BY <1>2, <1>3, <1>4
<1>11. i' \in {0, 1} /\ j' \in {0, 1} /\ pc' \in {"command", "done"}
  BY <1>2, <1>3, NextPlaceFacts
<1>12. ata_devices' \in [0 .. 3 -> [at : Places, ident_buffer : Places \cup {Junk}]
                                     \cup {NoDevice}]
  BY <1>2, <1>3, <1>4, <1>5
<1>13. TypeOK'
  BY <1>3, <1>10, <1>11, <1>12 DEF AtaInv, TypeOK, registers
<1> QED
  BY <1>1, <1>2, <1>3, <1>7, <1>9, <1>10, <1>13, NextPlaceInv

\* A place without a drive, or whose drive had an error.
LEMMA NotFoundInv ==
  ASSUME AtaInv, NotFound
  PROVE  AtaInv'
<1>1. PICK h \in Places : h = Here
  BY HereFacts DEF AtaInv
<1>2. /\ Known(h) /\ pc = "absent" /\ Entry(h) = NoDevice
      /\ i \in {0, 1} /\ j \in {0, 1} /\ letter <= Slot(i, j) /\ letter \in 0 .. 4
  BY <1>1, HereFacts, NextPlaceFacts DEF AtaInv, TypeOK, NotFound
<1>3. NextPlace /\ UNCHANGED <<drives, registers, buffer, found>>
  BY DEF NotFound
<1>4. \A p \in Places : Entry(p)' = Entry(p)
  BY <1>3 DEF Entry, found
<1>5. Described(h)'
  BY <1>2, <1>3, <1>4 DEF Described, Known, drives
<1>6. i' \in {0, 1} /\ j' \in {0, 1} /\ pc' \in {"command", "done"}
  BY <1>2, <1>3, NextPlaceFacts
<1>7. TypeOK'
  BY <1>3, <1>6 DEF AtaInv, TypeOK, registers, found
<1>8. letter' <= Slot(i, j) + 1
  BY <1>2, <1>3 DEF found, Slot
<1> QED
  BY <1>1, <1>2, <1>3, <1>4, <1>5, <1>7, <1>8, NextPlaceInv

\* A drive goes on with its command; load has left no drive that would have
\* data.
LEMMA AnswerInv ==
  ASSUME AtaInv, Answer
  PROVE  AtaInv'
<1>1. PICK q \in Places :
        /\ \/ /\ status[q] = "busy"
              /\ status' = [status EXCEPT ![q] = "clear"]
              /\ signature' = [signature EXCEPT ![q] = kind[q] = "atapi"]
           \/ /\ status[q] = "clear"
              /\ status' = [status EXCEPT ![q] = IF kind[q] = "ata" THEN "data" ELSE "error"]
              /\ UNCHANGED signature
        /\ UNCHANGED <<drives, selected, pc, i, j, buffer, found>>
  BY DEF Answer
<1>2. /\ status \in [Places -> {"idle", "busy", "clear", "data", "error"}]
      /\ signature \in [Places -> BOOLEAN]
      /\ Here' = Here /\ Here \in Places /\ Here[1] = i
  BY <1>1, HereFacts DEF AtaInv, TypeOK, Here
<1>3. /\ \A p \in Places : Honest(p)
      /\ \A p \in Places : (p = Here /\ pc \in Busy) \/ Quiet(p)
      /\ Known(Here)
  BY DEF AtaInv
<1>4. /\ status' \in [Places -> {"idle", "busy", "clear", "data", "error"}]
      /\ \A p \in Places : p # q => status'[p] = status[p]
      /\ \/ status[q] = "busy" /\ status'[q] = "clear"
         \/ status[q] = "clear" /\ status'[q] = IF kind[q] = "ata" THEN "data" ELSE "error"
  BY <1>1, <1>2
<1>5. /\ signature' \in [Places -> BOOLEAN]
      /\ \A p \in Places : p # q => signature'[p] = signature[p]
      /\ \/ status[q] = "busy" /\ signature'[q] = (kind[q] = "atapi")
         \/ status[q] = "clear" /\ signature'[q] = signature[q]
  BY <1>1, <1>2
<1>6. kind' = kind /\ floats' = floats /\ UNCHANGED <<selected, pc, i, j, buffer, found>>
  BY <1>1 DEF drives
<1>7. TypeOK' /\ signature' \in [Places -> BOOLEAN]
  BY <1>4, <1>5, <1>6 DEF AtaInv, TypeOK, found
<1>8. \A p \in Places : /\ Asked(p)' <=> Asked(p)
                        /\ Described(p)' <=> Described(p)
                        /\ Entry(p)' = Entry(p)
  BY <1>6 DEF Asked, Described, Entry, found
<1>9. ASSUME NEW p \in Places PROVE Honest(p)'
  BY <1>3, <1>4, <1>5, <1>6 DEF Honest
<1>10. ASSUME NEW p \in Places PROVE (p = Here /\ pc \in Busy) \/ Quiet(p)'
  BY <1>3, <1>4, <1>6 DEF Quiet
<1>11. Known(Here)'
  <2>1. CASE q = Here
    <3>1. Known(q) /\ Honest(q) /\ (pc \in Busy \/ Quiet(q))
      BY <2>1, <1>3
    <3>2. Known(q)'
      BY <3>1, <1>4, <1>5, <1>6 DEF Known, Honest, Quiet, Busy
    <3> QED
      BY <3>2, <2>1, <1>2 DEF Known
  <2>2. CASE q # Here
    BY <2>2, <1>2, <1>3, <1>4, <1>5, <1>6 DEF Known
  <2> QED
    BY <2>1, <2>2
<1>12. /\ \A p \in Places : floats[p[1]] => kind[p] = "none"
       /\ \A p \in Places : IF Asked(p) THEN Described(p) ELSE Entry(p) = NoDevice
       /\ pc = "done" \/ letter <= Slot(i, j)
       /\ pc = "reset" => i = 0 /\ j = 0
  BY DEF AtaInv
<1> QED
  BY <1>2, <1>6, <1>7, <1>8, <1>9, <1>10, <1>11, <1>12 DEF AtaInv, found, Slot

LEMMA AtaStepInv == AtaInv /\ [Next]_vars => AtaInv'
<1> SUFFICES ASSUME AtaInv, [Next]_vars PROVE AtaInv'
  OBVIOUS
<1>1. CASE UNCHANGED vars
  <2>1. /\ UNCHANGED <<kind, floats, selected, status, signature, pc, i, j, buffer,
                       ata_devices, letter, nodes>>
    BY <1>1 DEF vars, drives, registers, found
  <2> QED
    BY <2>1 DEF AtaInv, TypeOK, Honest, Quiet, Asked, Described, Entry, Known, Here, Slot, Busy
<1> QED
  BY <1>1, PollInv, CommandInv, ReadWordsInv, RegisterInv, NotFoundInv, AnswerInv
     DEF Next, load

LEMMA AtaInvariant == Spec => []AtaInv
BY AtaInitInv, AtaStepInv, PTL DEF Spec

\* When load of the ata module returns, ata_devices has each disk with its own
\* identity, each packet device, and nothing else, however the drives' answers
\* come between its reads of the status register.
THEOREM DisksIdentified == Spec => []Identified
<1>1. AtaInv => Identified
  <2> SUFFICES ASSUME AtaInv, pc = "done", NEW p \in Places PROVE Described(p)
    BY DEF AtaInv, Identified, Described, Entry, Slot
  <2> QED
    BY DEF AtaInv, Asked
<1> QED
  BY <1>1, AtaInvariant, PTL

\* ata_identity reads the data register only when the drive has data, and
\* writes no command while a drive of the bus works on one.
THEOREM BusPolite == Spec => Polite
<1> DEFINE ReadsData == /\ pc = "read" /\ pc' = "found" => status[At(i)] = "data"
                        /\ pc = "command" /\ pc' = "status" =>
                             \A slave \in {0, 1} : status[<<i, slave>>] \notin {"busy", "data"}
<1>1. AtaInv => [ReadsData]_vars
  <2> SUFFICES ASSUME AtaInv PROVE ReadsData
    OBVIOUS
  <2>1. pc = "read" => status[At(i)] = "data"
    BY ReadFacts DEF AtaInv, Known, Busy
  <2>2. pc = "command" => \A slave \in {0, 1} : status[<<i, slave>>] \notin {"busy", "data"}
    BY PlaceFacts DEF AtaInv, TypeOK, Quiet, Busy
  <2> QED
    BY <2>1, <2>2
<1>2. Spec => [][ReadsData]_vars
  <2>1. AtaInv /\ [Next]_vars => [ReadsData]_vars
    BY <1>1
  <2> QED
    BY <2>1, AtaInvariant, PTL DEF Spec
<1> QED
  BY <1>2, PTL DEF Polite

-----------------------------------------------------------------------------
(* pci_init                                                                *)

items == pci_devices.items

\* The functions pci_init has been to.
Visited(at) ==
  \/ at[1] < bus \/ (at[1] = bus /\ at[2] < device)
  \/ step = "functions" /\ at[1] = bus /\ at[2] = device /\ at[3] < function

\* pci_devices has one entry for each of them that is there, and no other.
Listed ==
  /\ \E S : items \in Seq(S)
  /\ \A m, n \in DOMAIN items : items[m].at = items[n].at => m = n
  /\ \A m \in DOMAIN items :
       /\ items[m].at \in P!Real /\ Visited(items[m].at)
       /\ items[m] = P!Device(items[m].at[1], items[m].at[2], items[m].at[3])
  /\ \A at \in P!Real : Visited(at) => \E m \in DOMAIN items : items[m].at = at

\* The loops are in their bounds, and in the second only for a device that
\* has functions.
EnumInv ==
  /\ config \in Configs
  /\ P!TypeOK
  /\ step = "start" => bus = 0 /\ device = 0
  /\ step = "done" => bus = Buses
  /\ step = "functions" => /\ function \in 1 .. Functions - 1
                           /\ <<bus, device, 0>> \in P!Real
                           /\ P!HasFunctions(bus, device)
  /\ Listed

\* A function that answers, and its registers.
LEMMA ConfigFacts ==
  ASSUME config \in Configs
  PROVE  \A at \in DOMAIN config :
           /\ at \in PciPlaces /\ <<at[1], at[2], 0>> \in DOMAIN config
           /\ config[at] \in [Headers -> ConfigWords \X ConfigWords]
           /\ config[at][0][1] # Ones
BY DevicesAssumption

LEMMA PciPlaceFacts ==
  \A at \in PciPlaces :
    /\ at[1] \in 0 .. Buses - 1 /\ at[2] \in 0 .. Slots - 1 /\ at[3] \in 0 .. Functions - 1
    /\ at = <<at[1], at[2], at[3]>>
BY DEF PciPlaces

LEMMA WordFacts ==
  ASSUME NEW b, NEW s, NEW f
  PROVE  /\ P!PCI_VENDOR(b, s, f) = P!Register(b, s, f, 0)[1]
         /\ P!PCI_DEVICE(b, s, f) = P!Register(b, s, f, 0)[2]
         /\ P!PCI_CLASS(b, s, f) = P!Register(b, s, f, 2)[2] \div 256
         /\ P!PCI_SUBCLASS(b, s, f) = P!Register(b, s, f, 2)[2] % 256
         /\ P!HasFunctions(b, s) <=> (P!Register(b, s, 0, 3)[2] \div 128) % 2 = 1
         /\ P!PCI_BAR(1, b, s, f) = <<P!Register(b, s, f, 4)[1], P!Register(b, s, f, 4)[2]>>
         /\ P!PCI_BAR(2, b, s, f) = <<P!Register(b, s, f, 5)[1], P!Register(b, s, f, 5)[2]>>
         /\ P!PCI_BAR(5, b, s, f) = <<P!Register(b, s, f, 8)[1], P!Register(b, s, f, 8)[2]>>
         /\ P!PCI_BAR(6, b, s, f) = <<P!Register(b, s, f, 9)[1], P!Register(b, s, f, 9)[2]>>
<1> DEFINE W(o) == P!Register(b, s, f, o \div 4)[(o % 4) \div 2 + 1]
<1>1. \A o : P!pci_config_read_word(b, s, f, o) = W(o)
  BY DEF P!pci_config_read_word, P!WordOf
<1>2. /\ 0 \div 4 = 0 /\ (0 % 4) \div 2 + 1 = 1 /\ 2 \div 4 = 0 /\ (2 % 4) \div 2 + 1 = 2
      /\ 11 \div 4 = 2 /\ (11 % 4) \div 2 + 1 = 2 /\ 14 \div 4 = 3 /\ (14 % 4) \div 2 + 1 = 2
      /\ 16 \div 4 = 4 /\ (16 % 4) \div 2 + 1 = 1 /\ 18 \div 4 = 4 /\ (18 % 4) \div 2 + 1 = 2
      /\ 20 \div 4 = 5 /\ (20 % 4) \div 2 + 1 = 1 /\ 22 \div 4 = 5 /\ (22 % 4) \div 2 + 1 = 2
      /\ 32 \div 4 = 8 /\ (32 % 4) \div 2 + 1 = 1 /\ 34 \div 4 = 8 /\ (34 % 4) \div 2 + 1 = 2
      /\ 36 \div 4 = 9 /\ (36 % 4) \div 2 + 1 = 1 /\ 38 \div 4 = 9 /\ (38 % 4) \div 2 + 1 = 2
  OBVIOUS
<1>3. /\ P!PCI_VENDOR(b, s, f) = P!Register(b, s, f, 0)[1]
      /\ P!PCI_DEVICE(b, s, f) = P!Register(b, s, f, 0)[2]
      /\ P!PCI_CLASS(b, s, f) = P!Register(b, s, f, 2)[2] \div 256
      /\ P!PCI_SUBCLASS(b, s, f) = P!Register(b, s, f, 2)[2] % 256
  BY <1>1, <1>2 DEF P!PCI_VENDOR, P!PCI_DEVICE, P!PCI_CLASS, P!PCI_SUBCLASS
<1>4. P!HasFunctions(b, s) <=> (P!Register(b, s, 0, 3)[2] \div 128) % 2 = 1
  BY <1>2 DEF P!HasFunctions, P!PCI_IS_MULTIFUNCT, P!pci_config_read_word, P!WordOf
<1>5. /\ P!Low[1] = 16 /\ P!Low[2] = 20 /\ P!Low[5] = 32 /\ P!Low[6] = 36
      /\ P!High[1] = 18 /\ P!High[2] = 22 /\ P!High[5] = 34 /\ P!High[6] = 38
  BY DEF P!Low, P!High
<1> QED
  BY <1>1, <1>2, <1>3, <1>4, <1>5 DEF P!PCI_BAR

\* A function answers with a vendor exactly when it is there.
LEMMA VendorFacts ==
  ASSUME config \in Configs, NEW b, NEW s, NEW f
  PROVE  P!PCI_VENDOR(b, s, f) = Ones <=> <<b, s, f>> \notin DOMAIN config
<1>1. P!PCI_VENDOR(b, s, f) = P!Register(b, s, f, 0)[1]
  BY WordFacts
<1>2. CASE <<b, s, f>> \in DOMAIN config
  BY <1>1, <1>2, ConfigFacts DEF P!Register
<1>3. CASE <<b, s, f>> \notin DOMAIN config
  BY <1>1, <1>3 DEF P!Register
<1> QED
  BY <1>2, <1>3

LEMMA RealFacts ==
  ASSUME config \in Configs
  PROVE  \A at : at \in P!Real <=>
           at \in DOMAIN config /\ (at[3] = 0 \/ P!HasFunctions(at[1], at[2]))
<1> SUFFICES ASSUME NEW at \in DOMAIN config
             PROVE  (config[<<at[1], at[2], 0>>][3][2] \div 128) % 2 = 1
                      <=> P!HasFunctions(at[1], at[2])
  BY DEF P!Real
<1> QED
  BY WordFacts, ConfigFacts DEF P!Register

\* What pci_enumerate_function writes down of a function.
LEMMA DeviceFacts ==
  ASSUME config \in Configs, NEW at \in DOMAIN config
  PROVE  P!Identified(P!Device(at[1], at[2], at[3]))
<1> DEFINE e == P!Device(at[1], at[2], at[3])
           own == config[at]
<1>1. at = <<at[1], at[2], at[3]>> /\ own \in [Headers -> ConfigWords \X ConfigWords]
  BY ConfigFacts, PciPlaceFacts
<1>2. \A n : P!Register(at[1], at[2], at[3], n) = own[n]
  BY <1>1 DEF P!Register
<1>3. \A n \in Headers : own[n] \in ConfigWords \X ConfigWords /\ own[n] = <<own[n][1], own[n][2]>>
  BY <1>1
<1>4. own[2][2] \in Nat
  BY <1>3, DevicesAssumption DEF Headers, ConfigWords
<1>5. /\ e.at = at
      /\ e.vendor = own[0][1] /\ e.device = own[0][2]
      /\ e.class_code = own[2][2] \div 256 /\ e.subclass_code = own[2][2] % 256
      /\ e.bars[1] = <<own[4][1], own[4][2]>> /\ e.bars[2] = <<own[5][1], own[5][2]>>
      /\ e.bars[5] = <<own[8][1], own[8][2]>> /\ e.bars[6] = <<own[9][1], own[9][2]>>
  BY <1>1, <1>2, WordFacts DEF P!Device
<1> HIDE DEF e, own
<1>6. /\ <<e.vendor, e.device>> = own[0]
      /\ e.bars[1] = own[4] /\ e.bars[2] = own[5] /\ e.bars[5] = own[8] /\ e.bars[6] = own[9]
  BY <1>3, <1>5 DEF Headers
<1>7. e.class_code * 256 + e.subclass_code = own[2][2]
  BY <1>4, <1>5
<1> QED
  BY <1>5, <1>6, <1>7 DEF P!Identified, e, own

-----------------------------------------------------------------------------
(* The loops                                                               *)

LEMMA EnumInitInv == P!Init => EnumInv
<1> SUFFICES ASSUME P!Init PROVE EnumInv
  OBVIOUS
<1>1. /\ config \in Configs /\ step = "start" /\ bus = 0 /\ device = 0 /\ function = 0
      /\ items = <<>>
  BY DEF P!Init, P!Uninitialized, items
<1>2. P!TypeOK
  BY <1>1, DevicesAssumption DEF P!TypeOK
<1>3. \A at \in P!Real : ~Visited(at)
  <2> SUFFICES ASSUME NEW at \in P!Real PROVE ~Visited(at)
    OBVIOUS
  <2>1. at \in PciPlaces
    BY <1>1, RealFacts, ConfigFacts
  <2>2. at[1] \in Nat /\ at[2] \in Nat
    BY <2>1, PciPlaceFacts, DevicesAssumption
  <2> QED
    BY <1>1, <2>2 DEF Visited
<1>4. items \in Seq({})
  BY <1>1
<1>5. Listed
  BY <1>1, <1>3, <1>4 DEF Listed
<1> QED
  BY <1>1, <1>2, <1>5 DEF EnumInv

\* Nothing is added, and pci_init has been to no other function that is there.
LEMMA KeepFunctions ==
  ASSUME EnumInv, items' = items, config' = config,
         \A at \in P!Real : Visited(at)' <=> Visited(at)
  PROVE  Listed'
<1>1. P!Real' = P!Real /\ \A b, s, f : P!Device(b, s, f)' = P!Device(b, s, f)
  BY DEF P!Real, P!Device, P!PCI_VENDOR, P!PCI_DEVICE, P!PCI_CLASS, P!PCI_SUBCLASS, P!PCI_BAR,
         P!pci_config_read_word, P!Register
<1>2. Listed
  BY DEF EnumInv
<1> QED
  BY <1>1, <1>2 DEF Listed

\* One function more, where pci_init has not been.
LEMMA AddFunction ==
  ASSUME EnumInv, config' = config, NEW f, <<bus, device, f>> \in P!Real,
         ~Visited(<<bus, device, f>>), P!pci_enumerate_function(f),
         \A at \in P!Real : Visited(at)' <=> Visited(at) \/ at = <<bus, device, f>>
  PROVE  Listed'
<1> DEFINE here == <<bus, device, f>>
           d == P!Device(bus, device, f)
           n == Len(items)
<1>1. P!Real' = P!Real /\ \A b, s, g : P!Device(b, s, g)' = P!Device(b, s, g)
  BY DEF P!Real, P!Device, P!PCI_VENDOR, P!PCI_DEVICE, P!PCI_CLASS, P!PCI_SUBCLASS, P!PCI_BAR,
         P!pci_config_read_word, P!Register
<1>2. Listed
  BY DEF EnumInv
<1>3. PICK S : items \in Seq(S)
  BY <1>2 DEF Listed
<1>4. items' = Append(items, d)
  BY DEF P!pci_enumerate_function, P!DYN_ARRAY_ADD, items
<1>5. d.at = here /\ here[1] = bus /\ here[2] = device /\ here[3] = f
  BY DEF P!Device
<1> HIDE DEF d, n, here
<1>6. items \in Seq(S \cup {d}) /\ items' \in Seq(S \cup {d})
  <2>1. items \in Seq(S \cup {d})
    BY <1>3
  <2> QED
    BY <2>1, <1>4
<1>7. /\ DOMAIN items' = DOMAIN items \cup {n + 1} /\ n + 1 \notin DOMAIN items
      /\ \A m \in DOMAIN items : items'[m] = items[m]
      /\ items'[n + 1] = d
  BY <1>3, <1>4 DEF n
<1> DEFINE k == n + 1
<1> HIDE DEF k
<1>8. /\ DOMAIN items' = DOMAIN items \cup {k} /\ k \notin DOMAIN items
      /\ \A m \in DOMAIN items : items'[m] = items[m]
      /\ items'[k] = d
  BY <1>7 DEF k
<1>9. here \in P!Real /\ ~Visited(here)
      /\ \A at \in P!Real : Visited(at)' <=> Visited(at) \/ at = here
  BY DEF here
<1>10. \A m \in DOMAIN items : items[m].at # here
  BY <1>2, <1>9 DEF Listed
<1>11. \A m, l \in DOMAIN items' : items'[m].at = items'[l].at => m = l
  BY <1>2, <1>5, <1>8, <1>10 DEF Listed
<1>12. ASSUME NEW m \in DOMAIN items', NEW at, at = items'[m].at
       PROVE  /\ at \in P!Real /\ Visited(at)'
              /\ items'[m] = P!Device(at[1], at[2], at[3])
  <2>1. CASE m = k
    <3>1. items'[m] = d /\ at = here
      BY <2>1, <1>8, <1>5, <1>12
    <3>2. d = P!Device(here[1], here[2], here[3])
      BY <1>5 DEF d
    <3> QED
      BY <3>1, <3>2, <1>9
  <2>2. CASE m \in DOMAIN items
    <3>1. items'[m] = items[m] /\ at = items[m].at
      BY <2>2, <1>8, <1>12
    <3>2. /\ at \in P!Real /\ Visited(at)
          /\ items[m] = P!Device(at[1], at[2], at[3])
      BY <2>2, <3>1, <1>2 DEF Listed
    <3> QED
      BY <3>1, <3>2, <1>9
  <2> QED
    BY <2>1, <2>2, <1>8
<1>13. ASSUME NEW at \in P!Real, Visited(at)'
       PROVE  \E m \in DOMAIN items' : items'[m].at = at
  <2>1. CASE at = here
    BY <2>1, <1>5, <1>8
  <2>2. CASE at # here
    <3>1. PICK m \in DOMAIN items : items[m].at = at
      BY <2>2, <1>2, <1>9, <1>13 DEF Listed
    <3> QED
      BY <3>1, <1>8
  <2> QED
    BY <2>1, <2>2
<1> QED
  BY <1>1, <1>6, <1>11, <1>12, <1>13 DEF Listed

\* To the next device.
LEMMA NextDeviceFacts ==
  ASSUME EnumInv, step \in {"device", "functions"}, P!NextDevice
  PROVE  /\ step' \in {"device", "done"} /\ bus' \in 0 .. Buses /\ device' \in 0 .. Slots - 1
         /\ step' = "done" <=> bus' = Buses
         /\ \A at \in PciPlaces :
              Visited(at)' <=> Visited(at) \/ (at[1] = bus /\ at[2] = device /\
                                 (step = "functions" => at[3] >= function))
<1>1. /\ bus \in 0 .. Buses - 1 /\ device \in 0 .. Slots - 1 /\ function \in Nat
      /\ Buses \in Nat /\ Slots \in Nat /\ Functions \in Nat
  BY DevicesAssumption DEF EnumInv, P!TypeOK
<1>2. IF device + 1 = Slots THEN device' = 0 /\ bus' = bus + 1
                            ELSE device' = device + 1 /\ bus' = bus
  <2>1. CASE device + 1 = Slots
    <3>1. Slots % Slots = 0
      BY <1>1, DevicesAssumption
    <3> QED
      BY <2>1, <3>1, <1>1 DEF P!NextDevice
  <2>2. CASE device + 1 # Slots
    <3>1. device + 1 \in 0 .. Slots - 1
      BY <2>2, <1>1
    <3>2. (device + 1) % Slots = device + 1
      BY <3>1, <1>1, DevicesAssumption
    <3> QED
      BY <2>2, <3>2, <1>1 DEF P!NextDevice
  <2> QED
    BY <2>1, <2>2
<1>3. step' = IF bus' = Buses THEN "done" ELSE "device"
  BY DEF P!NextDevice
<1>4. ASSUME NEW at \in PciPlaces
      PROVE  Visited(at)' <=> Visited(at) \/ (at[1] = bus /\ at[2] = device /\
                                 (step = "functions" => at[3] >= function))
  <2>1. at[1] \in 0 .. Buses - 1 /\ at[2] \in 0 .. Slots - 1 /\ at[3] \in Nat
    BY PciPlaceFacts, <1>1
  <2>2. Visited(at)' <=> at[1] < bus' \/ (at[1] = bus' /\ at[2] < device')
    BY <1>3 DEF Visited
  <2>3. Visited(at)' <=> at[1] < bus \/ (at[1] = bus /\ at[2] <= device)
    BY <2>1, <2>2, <1>1, <1>2
  <2> QED
    BY <2>1, <2>3, <1>1 DEF Visited
<1>5. bus' \in 0 .. Buses /\ device' \in 0 .. Slots - 1
  BY <1>1, <1>2
<1> QED
  BY <1>3, <1>4, <1>5

LEMMA EnumStepInv == EnumInv /\ [P!Next]_P!vars => EnumInv'
<1> SUFFICES ASSUME EnumInv, [P!Next]_P!vars PROVE EnumInv'
  OBVIOUS
<1>0. /\ config \in Configs /\ P!TypeOK /\ Listed
      /\ bus \in Nat /\ device \in Nat /\ function \in Nat
      /\ step # "done" => bus \in 0 .. Buses - 1
      /\ Buses \in Nat /\ Slots \in Nat /\ Functions \in Nat
      /\ bus \in 0 .. Buses /\ device \in 0 .. Slots - 1 /\ function \in 0 .. Functions
  BY DevicesAssumption DEF EnumInv, P!TypeOK
<1>1. \A at \in P!Real : /\ at \in DOMAIN config /\ at \in PciPlaces
                         /\ at = <<at[1], at[2], at[3]>> /\ at[3] \in Nat /\ at[1] \in Nat
                         /\ at[2] \in Nat /\ at[3] < Functions
                         /\ at[3] = 0 \/ P!HasFunctions(at[1], at[2])
  <2>1. \A at \in PciPlaces : /\ at[1] \in Nat /\ at[2] \in Nat /\ at[3] \in Nat
                              /\ at[3] < Functions
    BY PciPlaceFacts, DevicesAssumption
  <2> QED
    BY <2>1, <1>0, RealFacts, ConfigFacts, PciPlaceFacts
<1>2. config' = config => P!Real' = P!Real /\ \A b, s : P!HasFunctions(b, s)' = P!HasFunctions(b, s)
  BY DEF P!Real, P!HasFunctions, P!PCI_IS_MULTIFUNCT, P!pci_config_read_word, P!Register
<1>3. CASE UNCHANGED P!vars
  <2>1. UNCHANGED <<config, step, bus, device, function, pci_devices, items>>
    BY <1>3 DEF P!vars, items
  <2>2. Listed'
    BY <2>1, KeepFunctions DEF Visited
  <2> QED
    BY <2>1, <2>2, <1>2 DEF EnumInv, P!TypeOK
<1>4. CASE P!pci_init
  <2>1. /\ step = "start" /\ step' = "device" /\ UNCHANGED <<config, bus, device, function>>
        /\ items' = <<>> /\ bus = 0 /\ device = 0
    BY <1>4 DEF P!pci_init, P!INIT_DYN_ARRAY, items, EnumInv
  <2>2. \A at \in P!Real : ~Visited(at)'
    BY <2>1, <1>1 DEF Visited
  <2>3. items' \in Seq({})
    BY <2>1
  <2>4. Listed'
    BY <2>1, <2>2, <2>3, <1>2 DEF Listed
  <2> QED
    BY <2>1, <2>4, <1>0 DEF EnumInv, P!TypeOK
<1>5. CASE P!AbsentDevice
  <2>1. /\ step = "device" /\ <<bus, device, 0>> \notin DOMAIN config /\ P!NextDevice
        /\ UNCHANGED <<config, function, pci_devices>> /\ items' = items
    BY <1>5, <1>0, VendorFacts DEF P!AbsentDevice, items
  <2>2. \A at \in P!Real : Visited(at)' <=> Visited(at)
    BY <2>1, <1>0, <1>1, NextDeviceFacts, ConfigFacts
  <2>3. Listed'
    BY <2>1, <2>2, KeepFunctions
  <2> QED
    BY <2>1, <2>3, <1>0, NextDeviceFacts DEF EnumInv, P!TypeOK
<1>6. CASE P!FirstFunction
  <2>1. /\ step = "device" /\ <<bus, device, 0>> \in DOMAIN config
        /\ P!pci_enumerate_function(0) /\ config' = config
    BY <1>6, <1>0, VendorFacts DEF P!FirstFunction
  <2>2. <<bus, device, 0>> \in P!Real /\ ~Visited(<<bus, device, 0>>)
    BY <2>1, <1>0, RealFacts DEF Visited
  <2>3. CASE P!HasFunctions(bus, device) /\ step' = "functions" /\ function' = 1
             /\ UNCHANGED <<bus, device>>
    <3>1. \A at \in P!Real : Visited(at)' <=> Visited(at) \/ at = <<bus, device, 0>>
      BY <2>1, <2>3, <1>0, <1>1 DEF Visited
    <3>2. Listed'
      BY <2>1, <2>2, <3>1, AddFunction
    <3> QED
      BY <2>1, <2>2, <2>3, <3>2, <1>0, <1>2, DevicesAssumption DEF EnumInv, P!TypeOK
  <2>4. CASE ~P!HasFunctions(bus, device) /\ P!NextDevice /\ UNCHANGED function
    <3>1. \A at \in P!Real : Visited(at)' <=> Visited(at) \/ at = <<bus, device, 0>>
      BY <2>1, <2>4, <1>0, <1>1, NextDeviceFacts
    <3>2. Listed'
      BY <2>1, <2>2, <3>1, AddFunction
    <3> QED
      BY <2>1, <2>4, <3>2, <1>0, NextDeviceFacts DEF EnumInv, P!TypeOK
  <2> QED
    BY <1>6, <2>3, <2>4 DEF P!FirstFunction
<1>7. ASSUME step = "functions", P!NextFunction, config' = config,
             \/ items' = items /\ <<bus, device, function>> \notin DOMAIN config
             \/ P!pci_enumerate_function(function) /\ <<bus, device, function>> \in DOMAIN config
      PROVE  EnumInv'
  <2>1. /\ function \in 1 .. Functions - 1 /\ <<bus, device, 0>> \in P!Real
        /\ P!HasFunctions(bus, device) /\ function' = function + 1
    BY <1>7 DEF EnumInv, P!NextFunction
  <2>2. \A at \in P!Real : Visited(at)' <=> Visited(at) \/ at = <<bus, device, function>>
    <3>1. CASE function + 1 = Functions
      <4>1. P!NextDevice
        BY <1>7, <3>1 DEF P!NextFunction
      <4>2. \A at \in PciPlaces :
              Visited(at)' <=> Visited(at) \/ (at[1] = bus /\ at[2] = device /\ at[3] >= function)
        BY <4>1, <1>7, NextDeviceFacts
      <4>3. \A at \in P!Real : at[3] >= function <=> at[3] = function
        BY <3>1, <1>0, <1>1
      <4> QED
        BY <4>2, <4>3, <1>1
    <3>2. CASE function + 1 # Functions
      <4>1. UNCHANGED <<step, bus, device>>
        BY <1>7, <3>2 DEF P!NextFunction
      <4> QED
        BY <4>1, <2>1, <1>0, <1>1, <1>7 DEF Visited
    <3> QED
      BY <3>1, <3>2
  <2>3. Listed'
    <3>1. CASE items' = items /\ <<bus, device, function>> \notin DOMAIN config
      <4>1. \A at \in P!Real : Visited(at)' <=> Visited(at)
        BY <2>2, <3>1, <1>1
      <4> QED
        BY <4>1, <3>1, <1>7, KeepFunctions
    <3>2. CASE P!pci_enumerate_function(function) /\ <<bus, device, function>> \in DOMAIN config
      <4>1. <<bus, device, function>> \in P!Real
        BY <2>1, <3>2, <1>0, RealFacts
      <4>2. ~Visited(<<bus, device, function>>)
        BY <1>0 DEF Visited
      <4> QED
        BY <4>1, <4>2, <3>2, <2>2, <1>7, AddFunction
    <3> QED
      BY <3>1, <3>2, <1>7
  <2>4. CASE function + 1 = Functions
    <3>1. P!NextDevice
      BY <1>7, <2>4 DEF P!NextFunction
    <3> QED
      BY <2>1, <2>3, <2>4, <3>1, <1>0, <1>7, NextDeviceFacts DEF EnumInv, P!TypeOK
  <2>5. CASE function + 1 # Functions
    <3>1. UNCHANGED <<step, bus, device>>
      BY <1>7, <2>5 DEF P!NextFunction
    <3> QED
      BY <2>1, <2>3, <2>5, <3>1, <1>0, <1>2, <1>7 DEF EnumInv, P!TypeOK
  <2> QED
    BY <2>4, <2>5
<1>8. CASE P!OtherFunction
  BY <1>0, <1>7, <1>8, VendorFacts DEF P!OtherFunction
<1>9. CASE P!AbsentFunction
  BY <1>0, <1>7, <1>9, VendorFacts DEF P!AbsentFunction, items
<1> QED
  BY <1>3, <1>4, <1>5, <1>6, <1>8, <1>9 DEF P!Next

\* pci_init puts every function that is there in pci_devices, once, described
\* by its own registers, and nothing else: for any number of buses, devices
\* and functions, and anything on them.
THEOREM FunctionsFound == P!Spec => []FunctionsEnumerated
<1>1. EnumInv => FunctionsEnumerated
  <2> SUFFICES ASSUME EnumInv PROVE P!Enumerated
    BY DEF FunctionsEnumerated
  <2>1. Listed /\ P!TypeOK /\ config \in Configs
    BY DEF EnumInv
  <2>2. step = "done" => \A at \in P!Real : Visited(at)
    <3> SUFFICES ASSUME step = "done", NEW at \in P!Real PROVE Visited(at)
      OBVIOUS
    <3>1. at[1] \in 0 .. Buses - 1 /\ bus = Buses
      BY <2>1, RealFacts, ConfigFacts, PciPlaceFacts DEF EnumInv
    <3> QED
      BY <3>1, DevicesAssumption DEF Visited
  <2>3. \A m \in DOMAIN items : P!Identified(items[m])
    BY <2>1, RealFacts, DeviceFacts DEF Listed
  <2> QED
    BY <2>1, <2>2, <2>3 DEF P!Enumerated, Listed, items
<1> QED
  BY <1>1, EnumInitInv, EnumStepInv, PTL DEF P!Spec

-----------------------------------------------------------------------------
(* The console                                                             *)

Byte == [by : Printers, nr : Nat, at : Nat]
Chip == [dlab : BOOLEAN, divisor : Int, fifo : BOOLEAN, loop : BOOLEAN]

\* Where the boot thread is, when it runs and when it is interrupted.
Position == IF ctx \in Code THEN ctx ELSE Top.regs

\* A handler runs on one frame and with the flag clear, and is the only one
\* that prints then; before setup_interrupts there is none.
Contexts ==
  /\ booted \in {"reset", "loader", "kernel", "modules"}
  /\ hand \in {"call", "poll", "out"}
  /\ ctx \in Code \cup Stub
  /\ ctx \in Code => frames = <<>>
  /\ ctx \in Stub => \E n \in Int, c \in Code : frames = <<[int_no |-> n, regs |-> c]>>
  /\ iflag => ctx \in Code
  /\ hand # "call" => ctx \in {"irq", "isr"}
  /\ booted \in {"reset", "loader"} => ctx \in Code /\ ~iflag
  /\ booted = "reset" => ctx = "run"

\* What serial_init makes of the chip.
Programmed ==
  /\ uart \in Chip
  /\ line \in Seq(Byte) /\ fifo \in Seq(Byte)
  /\ IF booted = "reset"
     THEN /\ uart \in {PowerOn(dlab) : dlab \in BOOLEAN}
          /\ line = <<>> /\ fifo = <<>> /\ \A by \in Printers : asked[by] = <<>>
     ELSE ~uart.dlab /\ uart.fifo /\ uart.divisor = 3

\* The byte that a poll was for has room, whoever printed since: a handler
\* leaves at most its last byte in the FIFO.
RoomLeft ==
  /\ hand = "out" => fifo = <<>>
  /\ Position = "out" => Len(fifo) \in {0, 1}
  /\ left["code"] # <<>> <=> Position \in {"poll", "out"}
  /\ hand = "call" => left["handler"] = <<>>
  /\ hand = "out" => left["handler"] # <<>>
  /\ said["code"] <= MaxMessages

\* What is left to print is the end of what was asked for, in order.
Texts ==
  /\ asked \in [Printers -> Seq(Byte)]
  /\ left \in [Printers -> Seq(Byte)]
  /\ said \in [Printers -> Nat]
  /\ \A by \in Printers :
       /\ Len(left[by]) <= Len(asked[by])
       /\ \A k \in 1 .. Len(left[by]) : left[by][k] = asked[by][Printed(by) + k]
       /\ \A k \in 1 .. Len(asked[by]) :
            /\ asked[by][k].by = by /\ asked[by][k].nr <= said[by]
            /\ \A y \in 1 .. k - 1 : Before(asked[by][y], asked[by][k])

\* What was printed is what was sent, if it was not sent in loopback mode.
Complete ==
  /\ \A by \in Printers :
       /\ \A k \in 1 .. Printed(by) : \E q \in 1 .. Len(Sent) : Sent[q] = asked[by][k]
       /\ \A q \in 1 .. Len(Sent) :
            Sent[q].by = by => \E k \in 1 .. Printed(by) : Sent[q] = asked[by][k]
  /\ \A q \in 1 .. Len(Sent) :
       /\ \A y \in 1 .. q - 1 : Sent[y].by = Sent[q].by => Before(Sent[y], Sent[q])
       /\ Sent[q].by = "handler" /\ Sent[q].at > 1 => q > 1 /\ Sent[q - 1].by = "handler"
  /\ left["handler"] # <<>> /\ left["handler"][1].at > 1 =>
       Len(Sent) > 0 /\ Sent[Len(Sent)].by = "handler"

ConsoleInv == Contexts /\ Programmed /\ RoomLeft /\ Texts /\ (~uart.loop => Complete)

-----------------------------------------------------------------------------
(* Sequences                                                               *)

LEMMA SentType == line \in Seq(Byte) /\ fifo \in Seq(Byte) => Sent \in Seq(Byte)
BY ConcatProperties DEF Sent

\* A byte that leaves the FIFO for the line has not been lost.
LEMMA Moved ==
  ASSUME NEW s \in Seq(Byte), NEW t \in Seq(Byte), t # <<>>
  PROVE  Append(s, Head(t)) \o Tail(t) = s \o t
<1>1. Head(t) \in Byte /\ Tail(t) \in Seq(Byte) /\ Len(Tail(t)) = Len(t) - 1
  BY HeadTailProperties
<1>2. Append(s, Head(t)) \in Seq(Byte) /\ Len(Append(s, Head(t))) = Len(s) + 1
  BY <1>1, AppendProperties
<1> DEFINE u == Append(s, Head(t)) \o Tail(t)
           v == s \o t
<1>3. u \in Seq(Byte) /\ v \in Seq(Byte) /\ Len(u) = Len(s) + Len(t) /\ Len(v) = Len(s) + Len(t)
  BY <1>1, <1>2, ConcatProperties
<1>4. ASSUME NEW q \in 1 .. Len(s) + Len(t) PROVE u[q] = v[q]
  <2>1. u[q] = IF q <= Len(s) + 1 THEN Append(s, Head(t))[q] ELSE Tail(t)[q - Len(s) - 1]
    BY <1>1, <1>2, <1>4, ConcatProperties
  <2>2. v[q] = IF q <= Len(s) THEN s[q] ELSE t[q - Len(s)]
    BY ConcatProperties
  <2>3. CASE q <= Len(s)
    BY <1>1, <2>1, <2>2, <2>3, AppendProperties
  <2>4. CASE q = Len(s) + 1
    BY <1>1, <2>1, <2>2, <2>4, AppendProperties
  <2>5. CASE q > Len(s) + 1
    <3>1. q - Len(s) - 1 \in 1 .. Len(Tail(t))
      BY <1>1, <2>5
    <3> QED
      BY <1>1, <2>1, <2>2, <2>5, <3>1, HeadTailProperties
  <2> QED
    BY <2>3, <2>4, <2>5
<1> QED
  BY <1>3, <1>4, SeqEqual

LEMMA Stored ==
  ASSUME NEW s \in Seq(Byte), NEW t \in Seq(Byte), NEW b \in Byte
  PROVE  s \o Append(t, b) = Append(s \o t, b)
<1>1. Append(t, b) = t \o <<b>> /\ Append(s \o t, b) = (s \o t) \o <<b>>
  BY AppendIsConcat, ConcatProperties
<1> QED
  BY <1>1, ConcatAssociative

-----------------------------------------------------------------------------
(* The chip                                                                *)

\* The bits that serial_init sets or clears.
LEMMA Bits == Bit(128, 7) = 1 /\ Bit(3, 7) = 0 /\ Bit(199, 0) = 1
BY DEF Bit, Weight

\* One field of the chip is set.
LEMMA Setting ==
  ASSUME NEW c \in Chip, NEW b \in BOOLEAN, NEW d
  PROVE  /\ d = [c EXCEPT !.dlab = b] =>
              d \in Chip /\ (d.dlab <=> b) /\ d.divisor = c.divisor /\ (d.fifo <=> c.fifo)
         /\ d = [c EXCEPT !.fifo = b] =>
              d \in Chip /\ (d.dlab <=> c.dlab) /\ d.divisor = c.divisor /\ (d.fifo <=> b)
         /\ d = [c EXCEPT !.loop = b] =>
              d \in Chip /\ (d.dlab <=> c.dlab) /\ d.divisor = c.divisor /\ (d.fifo <=> c.fifo)
BY DEF Chip

LEMMA Storing ==
  ASSUME NEW c \in Chip, NEW v
  PROVE  /\ \E b \in BOOLEAN : (b <=> Bit(v, 0) = 1) /\ Store(c, 2, v) = [c EXCEPT !.fifo = b]
         /\ \E b \in BOOLEAN : (b <=> Bit(v, 7) = 1) /\ Store(c, 3, v) = [c EXCEPT !.dlab = b]
         /\ \E b \in BOOLEAN : Store(c, 4, v) = [c EXCEPT !.loop = b]
<1>1. /\ Store(c, 2, v) = [c EXCEPT !.fifo = (Bit(v, 0) = 1)]
      /\ Store(c, 3, v) = [c EXCEPT !.dlab = (Bit(v, 7) = 1)]
      /\ Store(c, 4, v) = [c EXCEPT !.loop = (Bit(v, 4) = 1)]
  BY DEF Store
<1> QED
  BY <1>1, Zenon

\* serial_init turns the FIFO on and leaves the divisor's registers.
Ready(c) == c \in Chip /\ c.divisor = 3 /\ ~c.dlab

LEMMA Initialised ==
  ASSUME NEW dlab \in BOOLEAN,
         NEW u \in {Prepared(PowerOn(dlab)), Store(Prepared(PowerOn(dlab)), 4, 15)}
  PROVE  Ready(u) /\ u.fifo
<1>1. PowerOn(dlab) \in Chip
  BY DEF PowerOn, Chip
<1>2. ASSUME NEW c \in Chip
      PROVE  Store(c, 1, 0) \in Chip /\ Store(c, 3, 128) \in Chip /\ Store(c, 3, 128).dlab
  <2>1. Store(c, 1, 0) \in Chip
    BY DEF Store, Chip
  <2>2. PICK b \in BOOLEAN : (b <=> Bit(128, 7) = 1) /\ Store(c, 3, 128) = [c EXCEPT !.dlab = b]
    BY Storing
  <2>3. Store(c, 3, 128) \in Chip /\ (Store(c, 3, 128).dlab <=> b)
    BY <2>2, Setting
  <2> QED
    BY <2>1, <2>2, <2>3, Bits
<1>3. ASSUME NEW c \in Chip, c.dlab
      PROVE  /\ Store(c, 0, 3) \in Chip /\ Store(c, 0, 3).dlab
             /\ Store(c, 0, 3).divisor % 256 = 3
  BY <1>3 DEF Store, Chip
<1>4. ASSUME NEW c \in Chip, c.dlab, c.divisor % 256 = 3
      PROVE  Store(c, 1, 0) \in Chip /\ Store(c, 1, 0).divisor = 3
  BY <1>4 DEF Store, Chip
<1>5. ASSUME NEW c \in Chip, c.divisor = 3
      PROVE  Ready(Store(c, 3, 3))
  <2>1. PICK b \in BOOLEAN : (b <=> Bit(3, 7) = 1) /\ Store(c, 3, 3) = [c EXCEPT !.dlab = b]
    BY Storing
  <2>2. /\ Store(c, 3, 3) \in Chip /\ Store(c, 3, 3).divisor = c.divisor
        /\ (Store(c, 3, 3).dlab <=> b)
    BY <2>1, Setting
  <2> QED
    BY <1>5, <2>1, <2>2, Bits DEF Ready
<1>6. ASSUME NEW c, Ready(c)
      PROVE  Ready(Store(c, 2, 199)) /\ Store(c, 2, 199).fifo
  <2>1. PICK b \in BOOLEAN : (b <=> Bit(199, 0) = 1) /\ Store(c, 2, 199) = [c EXCEPT !.fifo = b]
    BY <1>6, Storing DEF Ready
  <2>2. /\ Store(c, 2, 199) \in Chip /\ Store(c, 2, 199).divisor = c.divisor
        /\ (Store(c, 2, 199).dlab <=> c.dlab) /\ (Store(c, 2, 199).fifo <=> b)
    BY <1>6, <2>1, Setting DEF Ready
  <2> QED
    BY <1>6, <2>1, <2>2, Bits DEF Ready
<1>7. ASSUME NEW c, NEW v, Ready(c), c.fifo
      PROVE  Ready(Store(c, 4, v)) /\ Store(c, 4, v).fifo
  <2>1. PICK b \in BOOLEAN : Store(c, 4, v) = [c EXCEPT !.loop = b]
    BY <1>7, Storing DEF Ready
  <2> QED
    BY <1>7, <2>1, Setting DEF Ready
<1>8. Ready(Speed(PowerOn(dlab)))
  <2>1. Store(PowerOn(dlab), 1, 0) \in Chip
    BY <1>1, <1>2
  <2>2. PICK c \in Chip : c = Store(Store(PowerOn(dlab), 1, 0), 3, 128) /\ c.dlab
    BY <1>2, <2>1
  <2>3. PICK d \in Chip : d = Store(c, 0, 3) /\ d.dlab /\ d.divisor % 256 = 3
    BY <1>3, <2>2
  <2>4. PICK e \in Chip : e = Store(d, 1, 0) /\ e.divisor = 3
    BY <1>4, <2>3
  <2>5. Speed(PowerOn(dlab)) = Store(e, 3, 3)
    BY <2>2, <2>3, <2>4 DEF Speed
  <2> QED
    BY <1>5, <2>4, <2>5
<1>9. Ready(Prepared(PowerOn(dlab))) /\ Prepared(PowerOn(dlab)).fifo
  BY <1>6, <1>7, <1>8 DEF Prepared, Loopback
<1> QED
  BY <1>7, <1>9
-----------------------------------------------------------------------------
(* Texts                                                                   *)

LEMMA ByteFields ==
  ASSUME NEW b \in Byte
  PROVE  b.by \in Printers /\ b.nr \in Nat /\ b.at \in Nat
BY DEF Byte

LEMMA LogType ==
  ASSUME Texts, NEW by \in Printers, NEW level, NEW text \in Nat
  PROVE  /\ log(by, level, text) \in Seq(Byte)
         /\ \A k \in 1 .. Len(log(by, level, text)) :
              /\ log(by, level, text)[k].by = by /\ log(by, level, text)[k].at = k
              /\ log(by, level, text)[k].nr = said[by] + 1
<1> DEFINE all == [k \in 1 .. text + 2 |-> [by |-> by, nr |-> said[by] + 1, at |-> k]]
<1>1. said[by] + 1 \in Nat
  BY DEF Texts
<1>2. \A k \in 1 .. text + 2 : all[k] \in Byte
  BY <1>1 DEF Byte
<1>3. all \in Seq(Byte) /\ Len(all) = text + 2
  BY <1>2
<1>4. <<>> \in Seq(Byte) /\ Len(<<>>) = 0
  BY EmptySeq
<1>5. \A k \in 1 .. text + 2 : all[k].by = by /\ all[k].at = k /\ all[k].nr = said[by] + 1
  OBVIOUS
<1>6. log(by, level, text) \in {all, <<>>}
  BY DEF log
<1> HIDE DEF all
<1>7. CASE log(by, level, text) = all
  BY <1>3, <1>5, <1>7
<1>8. CASE log(by, level, text) = <<>>
  BY <1>4, <1>8
<1> QED
  BY <1>6, <1>7, <1>8

\* A message is asked for when the one before has been printed.
LEMMA SayKeepsTexts ==
  ASSUME Texts, NEW by \in Printers, NEW level, NEW text \in Nat,
         left[by] = <<>>, Say(by, level, text)
  PROVE  /\ Texts'
         /\ left'[by] = log(by, level, text)
         /\ \A x \in Printers : x # by => left'[x] = left[x] /\ said'[x] = said[x]
         /\ \A x \in Printers : /\ Printed(x)' = Printed(x)
                                /\ \A k \in 1 .. Printed(x) : asked'[x][k] = asked[x][k]
<1> DEFINE m == log(by, level, text)
           a == asked[by] \o m
<1>0. m \in Seq(Byte) /\ \A k \in 1 .. Len(m) : m[k].by = by /\ m[k].at = k /\ m[k].nr = said[by] + 1
  BY LogType
<1>1. /\ asked \in [Printers -> Seq(Byte)] /\ left \in [Printers -> Seq(Byte)]
      /\ said \in [Printers -> Nat]
  BY DEF Texts
<1>2. /\ left' = [left EXCEPT ![by] = m]
      /\ asked' = [asked EXCEPT ![by] = a]
      /\ said' = IF m = <<>> THEN said ELSE [said EXCEPT ![by] = @ + 1]
  BY DEF Say
<1> HIDE DEF m
<1>3. /\ a \in Seq(Byte) /\ Len(a) = Len(asked[by]) + Len(m)
      /\ \A k \in 1 .. Len(asked[by]) : a[k] = asked[by][k]
      /\ \A k \in 1 .. Len(m) : a[Len(asked[by]) + k] = m[k]
  <2>1. asked[by] \in Seq(Byte) /\ Len(asked[by]) \in Nat /\ Len(m) \in Nat
    BY <1>0, <1>1, LenProperties
  <2> QED
    BY <1>0, <2>1, ConcatProperties
<1> HIDE DEF a
<1>4. /\ asked' \in [Printers -> Seq(Byte)] /\ left' \in [Printers -> Seq(Byte)]
      /\ said' \in [Printers -> Nat]
  BY <1>0, <1>1, <1>2, <1>3
<1>5. asked'[by] = a /\ left'[by] = m /\ said'[by] \in {said[by], said[by] + 1}
      /\ (m # <<>> => said'[by] = said[by] + 1)
  BY <1>1, <1>2
<1>6. ASSUME NEW x \in Printers, x # by
      PROVE  asked'[x] = asked[x] /\ left'[x] = left[x] /\ said'[x] = said[x]
  BY <1>1, <1>2, <1>6
<1>7. Len(left[by]) = 0 /\ Len(asked[by]) \in Nat /\ Len(m) \in Nat /\ said[by] \in Nat
  BY <1>0, <1>1, EmptySeq, LenProperties
<1>8. /\ Len(m) <= Len(a)
      /\ \A k \in 1 .. Len(m) : m[k] = a[Len(a) - Len(m) + k]
      /\ \A k \in 1 .. Len(a) :
           /\ a[k].by = by /\ a[k].nr <= said'[by]
           /\ \A y \in 1 .. k - 1 : Before(a[y], a[k])
  <2>1. Len(m) <= Len(a) /\ \A k \in 1 .. Len(m) : m[k] = a[Len(a) - Len(m) + k]
    BY <1>3, <1>7
  <2>2. ASSUME NEW k \in 1 .. Len(a)
        PROVE  a[k].by = by /\ a[k].nr <= said'[by] /\ \A y \in 1 .. k - 1 : Before(a[y], a[k])
    <3>1. CASE k <= Len(asked[by])
      <4>1. k \in 1 .. Len(asked[by]) /\ a[k] = asked[by][k]
        BY <1>3, <1>7, <2>2, <3>1
      <4>2. \A y \in 1 .. k - 1 : a[y] = asked[by][y]
        BY <1>3, <1>7, <2>2, <3>1
      <4>3. a[k].by = by /\ a[k].nr <= said[by] /\ \A y \in 1 .. k - 1 : Before(a[y], a[k])
        BY <4>1, <4>2 DEF Texts
      <4>4. a[k].nr \in Nat
        BY <1>3, <2>2, ElementOfSeq, ByteFields
      <4> QED
        BY <1>5, <1>7, <4>3, <4>4
    <3>2. CASE k > Len(asked[by])
      <4>1. PICK q \in 1 .. Len(m) : k = Len(asked[by]) + q
        <5>1. k - Len(asked[by]) \in 1 .. Len(m) /\ k = Len(asked[by]) + (k - Len(asked[by]))
          BY <1>3, <1>7, <2>2, <3>2
        <5> QED
          BY <5>1
      <4>2. a[k] = m[q] /\ a[k].by = by /\ a[k].at = q /\ a[k].nr = said[by] + 1
        BY <1>0, <1>3, <4>1
      <4>3. m # <<>>
        BY <1>7, <4>1, EmptySeq
      <4>4. ASSUME NEW y \in 1 .. k - 1 PROVE Before(a[y], a[k])
        <5>1. CASE y <= Len(asked[by])
          <6>1. y \in 1 .. Len(asked[by]) /\ a[y] = asked[by][y]
            BY <1>3, <1>7, <2>2, <5>1
          <6>2. a[y].nr <= said[by]
            BY <6>1 DEF Texts
          <6>3. a[y].nr \in Nat
            BY <1>3, <1>7, <6>1, ElementOfSeq, ByteFields
          <6> QED
            BY <1>7, <4>2, <6>2, <6>3 DEF Before
        <5>2. CASE y > Len(asked[by])
          <6>1. y - Len(asked[by]) \in 1 .. Len(m) /\ y - Len(asked[by]) < q
            <7>1. Len(asked[by]) \in Nat /\ Len(m) \in Nat
              BY <1>7
            <7>2. q \in 1 .. Len(m) /\ k = Len(asked[by]) + q
              BY <4>1
            <7>3. y \in Int /\ 1 <= y /\ y < k
              BY <4>4, <7>1, <7>2
            <7> QED
              BY <5>2, <7>1, <7>2, <7>3
          <6>2. a[y] = m[y - Len(asked[by])]
            <7> DEFINE x == y - Len(asked[by])
            <7>1. y \in Int /\ Len(asked[by]) \in Int
              BY <1>3, <1>7
            <7>2. Len(asked[by]) + x = y
              BY <7>1
            <7>3. a[Len(asked[by]) + x] = m[x]
              BY <1>3, <6>1
            <7> QED
              BY <7>2, <7>3
          <6>3. a[y].nr = said[by] + 1 /\ a[y].at = y - Len(asked[by])
            BY <1>0, <6>1, <6>2
          <6> QED
            BY <4>2, <6>1, <6>3 DEF Before
        <5> QED
          BY <1>7, <4>4, <5>1, <5>2
      <4> QED
        BY <1>5, <1>7, <4>2, <4>3, <4>4
    <3> QED
      BY <1>3, <1>7, <3>1, <3>2
  <2> QED
    BY <2>1, <2>2
<1>9. Texts'
  <2>1. ASSUME NEW x \in Printers
        PROVE  /\ Len(left'[x]) <= Len(asked'[x])
               /\ \A k \in 1 .. Len(left'[x]) : left'[x][k] = asked'[x][Len(asked'[x]) - Len(left'[x]) + k]
               /\ \A k \in 1 .. Len(asked'[x]) :
                    /\ asked'[x][k].by = x /\ asked'[x][k].nr <= said'[x]
                    /\ \A y \in 1 .. k - 1 : Before(asked'[x][y], asked'[x][k])
    <3>1. CASE x = by
      BY <1>5, <1>8, <3>1
    <3>2. CASE x # by
      <4>1. /\ Len(left[x]) <= Len(asked[x])
            /\ \A k \in 1 .. Len(left[x]) : left[x][k] = asked[x][Len(asked[x]) - Len(left[x]) + k]
            /\ \A k \in 1 .. Len(asked[x]) :
                 /\ asked[x][k].by = x /\ asked[x][k].nr <= said[x]
                 /\ \A y \in 1 .. k - 1 : Before(asked[x][y], asked[x][k])
        BY DEF Texts, Printed
      <4> QED
        BY <1>6, <3>2, <4>1
    <3> QED
      BY <3>1, <3>2
  <2> QED
    BY <1>4, <2>1 DEF Texts, Printed, Before
<1>10. ASSUME NEW x \in Printers
       PROVE  /\ Printed(x)' = Printed(x)
              /\ \A k \in 1 .. Printed(x) : asked'[x][k] = asked[x][k]
  <2>1. CASE x = by
    <3>1. Len(a) - Len(m) = Len(asked[by]) - Len(left[by])
      BY <1>3, <1>7
    <3>2. Len(asked[by]) - Len(left[by]) = Len(asked[by])
      BY <1>7
    <3> QED
      BY <1>3, <1>5, <2>1, <3>1, <3>2 DEF Printed
  <2>2. CASE x # by
    BY <1>6, <2>2 DEF Printed
  <2> QED
    BY <2>1, <2>2
<1> QED
  BY <1>5, <1>6, <1>9, <1>10 DEF m

\* A byte is printed: the first of what is left.
LEMMA PrintKeepsTexts ==
  ASSUME Texts, NEW by \in Printers, left[by] # <<>>, Outb(by)
  PROVE  /\ Texts'
         /\ Head(left[by]) = left[by][1] /\ left[by][1] \in Byte
         /\ left[by][1] = asked[by][Printed(by) + 1]
         /\ Printed(by) \in Nat /\ Printed(by) + 1 \in 1 .. Len(asked[by])
         /\ Printed(by)' = Printed(by) + 1
         /\ left'[by] = Tail(left[by])
         /\ \A x \in Printers : x # by => left'[x] = left[x] /\ Printed(x)' = Printed(x)
<1> DEFINE t == Tail(left[by])
<1>0. asked' = asked /\ said' = said /\ left' = [left EXCEPT ![by] = t]
  BY DEF Outb
<1>1. /\ asked \in [Printers -> Seq(Byte)] /\ left \in [Printers -> Seq(Byte)]
      /\ said \in [Printers -> Nat]
  BY DEF Texts
<1>2. /\ Len(left[by]) \in Nat \ {0} /\ Len(asked[by]) \in Nat
      /\ t \in Seq(Byte) /\ Len(t) = Len(left[by]) - 1
      /\ \A k \in 1 .. Len(t) : t[k] = left[by][k + 1]
  BY <1>1, EmptySeq, LenProperties, HeadTailProperties
<1>3. Head(left[by]) = left[by][1] /\ left[by][1] \in Byte
  BY <1>1, <1>2, ElementOfSeq
<1> HIDE DEF t
<1> DEFINE n == Len(left[by])
           m == Len(asked[by])
<1>12. n \in Nat \ {0} /\ m \in Nat /\ Len(t) = n - 1 /\ n <= m /\ Printed(by) = m - n
  BY <1>2 DEF Texts, Printed
<1> HIDE DEF n, m
<1>4. left'[by] = t /\ left' \in [Printers -> Seq(Byte)]
  BY <1>0, <1>1, <1>2
<1>5. \A x \in Printers : x # by => left'[x] = left[x]
  BY <1>0, <1>1
<1>6. /\ Len(left[by]) <= Len(asked[by])
      /\ \A k \in 1 .. Len(left[by]) : left[by][k] = asked[by][Len(asked[by]) - Len(left[by]) + k]
  BY DEF Texts, Printed
<1>7. Len(t) <= Len(asked[by]) /\ \A k \in 1 .. Len(t) : t[k] = asked[by][Len(asked[by]) - Len(t) + k]
  <2>1. Len(t) <= Len(asked[by])
    BY <1>2, <1>6
  <2>2. ASSUME NEW k \in 1 .. Len(t) PROVE t[k] = asked[by][Len(asked[by]) - Len(t) + k]
    <3>1. k + 1 \in 1 .. Len(left[by]) /\ t[k] = left[by][k + 1]
      BY <1>2
    <3>2. left[by][k + 1] = asked[by][Len(asked[by]) - Len(left[by]) + (k + 1)]
      BY <1>6, <3>1
    <3>3. m - n + (k + 1) = m - Len(t) + k
      BY <1>12, <2>2
    <3> QED
      BY <3>1, <3>2, <3>3 DEF m, n
  <2> QED
    BY <2>1, <2>2
<1>8. Texts'
  <2>1. ASSUME NEW x \in Printers
        PROVE  /\ Len(left'[x]) <= Len(asked'[x])
               /\ \A k \in 1 .. Len(left'[x]) : left'[x][k] = asked'[x][Len(asked'[x]) - Len(left'[x]) + k]
    <3>1. CASE x = by
      BY <1>0, <1>4, <1>7, <3>1
    <3>2. CASE x # by
      BY <1>0, <1>5, <3>2 DEF Texts, Printed
    <3> QED
      BY <3>1, <3>2
  <2>2. ASSUME NEW x \in Printers
        PROVE  \A k \in 1 .. Len(asked'[x]) :
                 /\ asked'[x][k].by = x /\ asked'[x][k].nr <= said'[x]
                 /\ \A y \in 1 .. k - 1 : Before(asked'[x][y], asked'[x][k])
    BY <1>0 DEF Texts
  <2>3. asked' \in [Printers -> Seq(Byte)] /\ said' \in [Printers -> Nat]
    BY <1>0, <1>1
  <2> QED
    BY <1>4, <2>1, <2>2, <2>3 DEF Texts, Printed, Before
<1>9. left[by][1] = asked[by][Printed(by) + 1] /\ Printed(by) \in Nat /\ Printed(by) + 1 \in 1 .. Len(asked[by])
  <2>1. 1 \in 1 .. Len(left[by])
    BY <1>2
  <2>2. left[by][1] = asked[by][Len(asked[by]) - Len(left[by]) + 1]
    BY <1>6, <2>1
  <2>3. m - n \in Nat /\ m - n + 1 \in 1 .. m
    BY <1>12
  <2> QED
    BY <1>12, <2>2, <2>3 DEF m, n
<1>10. Printed(by)' = Printed(by) + 1
  <2>1. Printed(by)' = m - Len(t)
    BY <1>0, <1>4 DEF Printed, m
  <2> QED
    BY <1>12, <2>1
<1>11. \A x \in Printers : x # by => Printed(x)' = Printed(x)
  BY <1>0, <1>5 DEF Printed
<1> QED
  BY <1>3, <1>4, <1>5, <1>8, <1>9, <1>10, <1>11 DEF t
-----------------------------------------------------------------------------
(* What was printed and what was sent                                      *)

LEMMA PrintedType ==
  ASSUME Texts, NEW x \in Printers
  PROVE  Printed(x) \in Nat /\ Printed(x) <= Len(asked[x])
<1>1. asked[x] \in Seq(Byte) /\ left[x] \in Seq(Byte) /\ Len(left[x]) <= Len(asked[x])
  BY DEF Texts
<1> DEFINE n == Len(left[x])
           m == Len(asked[x])
<1>2. n \in Nat /\ m \in Nat /\ n <= m /\ Printed(x) = m - n
  BY <1>1, LenProperties DEF Printed
<1> HIDE DEF n, m
<1>3. m - n \in Nat /\ m - n <= m
  BY <1>2
<1> QED
  BY <1>2, <1>3 DEF m

LEMMA SayKeepsComplete ==
  ASSUME Texts, Complete, NEW by \in Printers, NEW level, NEW text \in Nat,
         left[by] = <<>>, Say(by, level, text), Sent \in Seq(Byte), Sent' = Sent
  PROVE  Complete'
<1>1. /\ left'[by] = log(by, level, text)
      /\ \A x \in Printers : x # by => left'[x] = left[x]
      /\ \A x \in Printers : /\ Printed(x)' = Printed(x)
                             /\ \A k \in 1 .. Printed(x) : asked'[x][k] = asked[x][k]
  BY SayKeepsTexts
<1>2. \A x \in Printers : \A k \in 1 .. Printed(x)' :
        \E q \in 1 .. Len(Sent) : Sent[q] = asked'[x][k]
  BY <1>1 DEF Complete
<1>3. /\ \A x \in Printers : \A q \in 1 .. Len(Sent) :
           Sent[q].by = x => \E k \in 1 .. Printed(x)' : Sent[q] = asked'[x][k]
      /\ \A q \in 1 .. Len(Sent) :
           /\ \A y \in 1 .. q - 1 : Sent[y].by = Sent[q].by => Before(Sent[y], Sent[q])
           /\ Sent[q].by = "handler" /\ Sent[q].at > 1 => q > 1 /\ Sent[q - 1].by = "handler"
  BY <1>1 DEF Complete
<1>4. left'["handler"] # <<>> /\ left'["handler"][1].at > 1 =>
        Len(Sent) > 0 /\ Sent[Len(Sent)].by = "handler"
  <2>1. CASE by = "handler"
    <3>1. log(by, level, text) # <<>> => log(by, level, text)[1].at = 1
      <4>1. ASSUME log(by, level, text) # <<>> PROVE 1 \in 1 .. Len(log(by, level, text))
        BY <4>1, LogType, EmptySeq, LenProperties
      <4> QED
        BY <4>1, LogType
    <3> QED
      BY <1>1, <2>1, <3>1
  <2>2. CASE by # "handler"
    BY <1>1, <2>2 DEF Complete, Printers
  <2> QED
    BY <2>1, <2>2
<1> QED
  BY <1>2, <1>3, <1>4 DEF Complete

LEMMA PrintKeepsComplete ==
  ASSUME Texts, Complete, NEW by \in Printers, left[by] # <<>>, Outb(by),
         Sent \in Seq(Byte), Sent' = Append(Sent, Head(left[by])),
         by = "code" => left["handler"] = <<>>
  PROVE  Complete'
<1> DEFINE b == left[by][1]
           n == Len(Sent)
<1>1. /\ Head(left[by]) = b /\ b \in Byte
      /\ b = asked[by][Printed(by) + 1]
      /\ Printed(by) \in Nat /\ Printed(by) + 1 \in 1 .. Len(asked[by])
      /\ Printed(by)' = Printed(by) + 1
      /\ \A x \in Printers : x # by => left'[x] = left[x] /\ Printed(x)' = Printed(x)
  BY PrintKeepsTexts
<1>2. asked' = asked
  BY DEF Outb
<1>3. b.by = by /\ \A k \in 1 .. Printed(by) : Before(asked[by][k], b)
  <2>1. /\ asked[by][Printed(by) + 1].by = by
        /\ \A k \in 1 .. (Printed(by) + 1) - 1 : Before(asked[by][k], asked[by][Printed(by) + 1])
    BY <1>1 DEF Texts
  <2>2. (Printed(by) + 1) - 1 = Printed(by)
    BY <1>1
  <2> QED
    BY <1>1, <2>1, <2>2
<1> HIDE DEF b
<1>4. /\ n \in Nat /\ Len(Sent') = n + 1 /\ Sent'[n + 1] = b
      /\ \A q \in 1 .. n : Sent'[q] = Sent[q]
  BY <1>1, AppendProperties, LenProperties
<1> HIDE DEF n
<1>5. /\ \A x \in Printers :
           /\ \A k \in 1 .. Printed(x) : \E q \in 1 .. n : Sent[q] = asked[x][k]
           /\ \A q \in 1 .. n : Sent[q].by = x => \E k \in 1 .. Printed(x) : Sent[q] = asked[x][k]
      /\ \A q \in 1 .. n :
           /\ \A y \in 1 .. q - 1 : Sent[y].by = Sent[q].by => Before(Sent[y], Sent[q])
           /\ Sent[q].by = "handler" /\ Sent[q].at > 1 => q > 1 /\ Sent[q - 1].by = "handler"
      /\ left["handler"] # <<>> /\ left["handler"][1].at > 1 => n > 0 /\ Sent[n].by = "handler"
  BY DEF Complete, n
<1>6. \A q \in 1 .. n : Sent[q].by \in Printers
  BY ElementOfSeq, ByteFields DEF n
<1>7. ASSUME NEW x \in Printers, NEW k \in 1 .. (Printed(x)')
      PROVE  \E q \in 1 .. n + 1 : Sent'[q] = asked[x][k]
  <2>1. CASE k \in 1 .. Printed(x)
    <3>1. PICK q \in 1 .. n : Sent[q] = asked[x][k]
      BY <1>5, <2>1
    <3> QED
      BY <1>4, <3>1
  <2>2. CASE k \notin 1 .. Printed(x)
    <3>1. x = by /\ k = Printed(by) + 1
      BY <1>1, <1>7, <2>2
    <3> QED
      BY <1>1, <1>4, <3>1
  <2> QED
    BY <2>1, <2>2
<1>8. ASSUME NEW x \in Printers, NEW q \in 1 .. n + 1, Sent'[q].by = x
      PROVE  \E k \in 1 .. Printed(x)' : Sent'[q] = asked[x][k]
  <2>1. CASE q \in 1 .. n
    <3>1. PICK k \in 1 .. Printed(x) : Sent[q] = asked[x][k]
      BY <1>4, <1>5, <1>8, <2>1
    <3>2. k \in 1 .. Printed(x)'
      BY <1>1, <3>1, PrintedType
    <3> QED
      BY <1>4, <2>1, <3>1, <3>2
  <2>2. CASE q = n + 1
    <3>1. x = by /\ Printed(x) + 1 \in 1 .. Printed(x)'
      BY <1>1, <1>3, <1>4, <1>8, <2>2
    <3> QED
      BY <1>1, <1>4, <2>2, <3>1
  <2> QED
    BY <1>4, <1>8, <2>1, <2>2
<1>9. ASSUME NEW q \in 1 .. n + 1, NEW y \in 1 .. q - 1, Sent'[y].by = Sent'[q].by
      PROVE  Before(Sent'[y], Sent'[q])
  <2>0. y \in 1 .. n /\ Sent'[y] = Sent[y]
    BY <1>4, <1>9
  <2>1. CASE q \in 1 .. n
    BY <1>4, <1>5, <1>9, <2>0, <2>1
  <2>2. CASE q = n + 1
    <3>1. Sent[y].by = by /\ Sent'[q] = b
      BY <1>3, <1>4, <1>9, <2>0, <2>2
    <3>2. PICK k \in 1 .. Printed(by) : Sent[y] = asked[by][k]
      BY <1>5, <2>0, <3>1
    <3> QED
      BY <1>3, <2>0, <3>1, <3>2
  <2> QED
    BY <1>4, <1>9, <2>1, <2>2
<1>10. ASSUME NEW q \in 1 .. n + 1, Sent'[q].by = "handler", Sent'[q].at > 1
       PROVE  q > 1 /\ Sent'[q - 1].by = "handler"
  <2>1. CASE q \in 1 .. n
    <3>1. q > 1 /\ Sent[q - 1].by = "handler"
      BY <1>4, <1>5, <1>10, <2>1
    <3>2. q - 1 \in 1 .. n
      BY <1>4, <2>1, <3>1
    <3> QED
      BY <1>4, <3>1, <3>2
  <2>2. CASE q = n + 1
    <3>1. b.by = "handler" /\ b.at > 1
      BY <1>4, <1>10, <2>2
    <3>2. left["handler"][1] = b
      BY <1>3, <3>1 DEF b
    <3>3. n > 0 /\ Sent[n].by = "handler"
      BY <1>3, <1>5, <3>1, <3>2
    <3>4. q - 1 = n /\ n \in 1 .. n
      BY <1>4, <2>2, <3>3
    <3> QED
      BY <1>4, <2>2, <3>3, <3>4
  <2> QED
    BY <1>4, <1>10, <2>1, <2>2
<1>11. left'["handler"] # <<>> /\ left'["handler"][1].at > 1 => n + 1 > 0 /\ Sent'[n + 1].by = "handler"
  <2>1. CASE by = "handler"
    BY <1>3, <1>4, <2>1
  <2>2. CASE by # "handler"
    <3>1. left'["handler"] = <<>>
      BY <1>1, <2>2 DEF Printers
    <3> QED
      BY <3>1
  <2> QED
    BY <2>1, <2>2
<1> QED
  BY <1>2, <1>4, <1>7, <1>8, <1>9, <1>10, <1>11 DEF Complete

\* With room in the FIFO the byte is stored behind the others.
LEMMA SendStores ==
  ASSUME Programmed, booted # "reset", Len(fifo) \in {0, 1}, NEW c \in Byte,
         Send(c), line' = line
  PROVE  fifo' = Append(fifo, c) /\ fifo' \in Seq(Byte) /\ Sent' = Append(Sent, c)
<1>1. ~uart.dlab /\ uart.fifo /\ line \in Seq(Byte) /\ fifo \in Seq(Byte)
  BY DEF Programmed
<1>2. Len(fifo) < Room
  <2>1. Room = FifoSize
    BY <1>1 DEF Room
  <2>2. FifoSize > 1
    BY ConsoleAssumption
  <2>3. \A n \in {0, 1} : n < FifoSize
    BY <2>2, ConsoleAssumption
  <2> QED
    BY <2>1, <2>3
<1>3. fifo' = Append(fifo, c)
  BY <1>1, <1>2 DEF Send
<1> QED
  BY <1>1, <1>3, AppendProperties, Stored DEF Sent
-----------------------------------------------------------------------------
(* Steps                                                                   *)

LEMMA PlacesOf ==
  ASSUME Contexts
  PROVE  /\ Position \in Code
         /\ ctx \in Code => Position = ctx /\ hand = "call"
         /\ ctx \in Stub => \E n \in Int : frames = <<[int_no |-> n, regs |-> Position]>>
         /\ "run" \in Code /\ "poll" \in Code /\ "out" \in Code
         /\ \A c \in Code : c \notin Stub /\ c \in {"run", "poll", "out"}
<1>1. "run" \in Code /\ "poll" \in Code /\ "out" \in Code /\ \A c \in Code : c \notin Stub /\ c \in {"run", "poll", "out"}
  BY ConsoleAssumption, InterruptsAssumption
<1>2. CASE ctx \in Code
  BY <1>1, <1>2 DEF Contexts, Position, Stub
<1>3. CASE ctx \in Stub
  <2>1. PICK n \in Int, c \in Code : frames = <<[int_no |-> n, regs |-> c]>>
    BY <1>3 DEF Contexts
  <2>2. Top = [int_no |-> n, regs |-> c]
    BY <2>1 DEF Top
  <2>3. ctx \notin Code
    BY <1>1, <1>3
  <2> QED
    BY <1>1, <1>3, <2>1, <2>2, <2>3 DEF Position
<1> QED
  BY <1>2, <1>3 DEF Contexts

\* Steps that move neither bytes nor texts.
LEMMA QuietStep ==
  ASSUME ConsoleInv, UNCHANGED <<booted, chipVars, textVars>>
  PROVE  Programmed' /\ Texts' /\ (~uart.loop => Complete)'
<1>1. UNCHANGED <<booted, uart, fifo, line, left, asked, said>>
  BY DEF chipVars, textVars
<1>2. Programmed'
  BY <1>1 DEF ConsoleInv, Programmed
<1>3. Texts'
  BY <1>1 DEF ConsoleInv, Texts, Printed
<1>4. (~uart.loop => Complete)'
  <2>1. uart' = uart /\ (~uart.loop => Complete)
    BY <1>1 DEF ConsoleInv
  <2>2. ASSUME Complete PROVE Complete'
    <3>1. Sent' = Sent
      BY <1>1 DEF Sent
    <3>2. asked' = asked /\ left' = left
      BY <1>1
    <3>3. \A by \in Printers : (Printed(by))' = Printed(by)
      BY <3>2 DEF Printed
    <3>4. (\A by \in Printers :
              /\ \A k \in 1 .. Printed(by) : \E q \in 1 .. Len(Sent) : Sent[q] = asked[by][k]
              /\ \A q \in 1 .. Len(Sent) :
                   Sent[q].by = by => \E k \in 1 .. Printed(by) : Sent[q] = asked[by][k])'
      BY <2>2, <3>1, <3>2, <3>3 DEF Complete
    <3>5. (\A q \in 1 .. Len(Sent) :
              /\ \A y \in 1 .. q - 1 : Sent[y].by = Sent[q].by => Before(Sent[y], Sent[q])
              /\ Sent[q].by = "handler" /\ Sent[q].at > 1 => q > 1 /\ Sent[q - 1].by = "handler")'
      BY <2>2, <3>1 DEF Complete, Before
    <3>6. (left["handler"] # <<>> /\ left["handler"][1].at > 1 =>
              Len(Sent) > 0 /\ Sent[Len(Sent)].by = "handler")'
      BY <2>2, <3>1, <3>2 DEF Complete
    <3> QED
      BY <3>4, <3>5, <3>6 DEF Complete
  <2> QED
    BY <2>1, <2>2
<1> QED
  BY <1>2, <1>3, <1>4

\* An interrupt or an exception: the thread stays where it is.
LEMMA EntryStep ==
  ASSUME ConsoleInv, ctx \in Code, booted \in {"kernel", "modules"},
         NEW n \in Int, NEW stub \in {"irq", "isr"}, Gate(n, stub),
         UNCHANGED <<booted, chipVars, textVars, hand>>
  PROVE  ConsoleInv'
<1>1. Contexts /\ RoomLeft
  BY DEF ConsoleInv
<1>2. frames' = <<[int_no |-> n, regs |-> ctx]>> /\ ctx' = stub /\ iflag' = FALSE /\ stub \in Stub
  BY <1>1 DEF Contexts, Gate, Stub
<1>3. Contexts'
  BY <1>1, <1>2, PlacesOf DEF Contexts
<1>4. Position' = Position
  <2>1. Top' = [int_no |-> n, regs |-> ctx]
    BY <1>2 DEF Top
  <2>2. stub \notin Code
    BY <1>1, <1>2, PlacesOf
  <2> QED
    BY <1>2, <2>1, <2>2 DEF Position
<1>5. RoomLeft'
  BY <1>1, <1>4 DEF RoomLeft, chipVars, textVars
<1> QED
  BY <1>3, <1>5, QuietStep DEF ConsoleInv

\* Steps inside a handler leave the frame and the thread alone.
LEMMA HandlerPosition ==
  ASSUME Contexts, ctx \in Stub, ctx' \in Stub, frames' = frames
  PROVE  Position' = Position
<1>1. ctx \notin Code /\ ctx' \notin Code
  BY PlacesOf
<1> QED
  BY <1>1 DEF Position, Top

LEMMA CallStep == ConsoleInv /\ Call => ConsoleInv'
<1> SUFFICES ASSUME ConsoleInv, Call PROVE ConsoleInv'
  OBVIOUS
<1>1. Contexts /\ Programmed /\ RoomLeft /\ Texts /\ (~uart.loop => Complete)
  BY DEF ConsoleInv
<1>2. /\ ctx \in {"irq", "isr"} /\ hand = "call" /\ hand' = "poll"
      /\ UNCHANGED <<iflag, ctx, frames, booted, uart, fifo, line>>
  BY DEF Call, intVars, chipVars
<1>3. Contexts' /\ Position' = Position
  BY <1>1, <1>2, HandlerPosition DEF Contexts, Stub
<1>4. left["handler"] = <<>> /\ "handler" \in Printers /\ "code" \in Printers /\ "code" # "handler"
  BY <1>1, <1>2 DEF RoomLeft, Printers
<1>5. booted # "reset"
  BY <1>1, <1>2, PlacesOf DEF Contexts
<1>6. CASE UNCHANGED textVars
  <2>1. RoomLeft'
    BY <1>1, <1>2, <1>3, <1>6 DEF RoomLeft, textVars
  <2>2. Programmed' /\ Texts' /\ (~uart.loop => Complete)'
    BY <1>2, <1>6, QuietStep DEF chipVars
  <2> QED
    BY <1>3, <2>1, <2>2 DEF ConsoleInv
<1>7. CASE ~UNCHANGED textVars
  <2>1. PICK level \in {"error", "info"} : Say("handler", level, 1)
    BY <1>7 DEF Call
  <2>2. /\ Texts' /\ left'["code"] = left["code"] /\ said'["code"] = said["code"]
    BY <1>1, <1>4, <2>1, SayKeepsTexts
  <2>3. RoomLeft'
    BY <1>1, <1>2, <1>3, <2>2 DEF RoomLeft
  <2>4. Programmed'
    BY <1>1, <1>2, <1>5 DEF Programmed
  <2>5. (~uart.loop => Complete)'
    <3>1. Sent \in Seq(Byte) /\ Sent' = Sent
      BY <1>1, <1>2, SentType DEF Programmed, Sent
    <3> QED
      BY <1>1, <1>2, <1>4, <2>1, <3>1, SayKeepsComplete
  <2> QED
    BY <1>3, <2>2, <2>3, <2>4, <2>5 DEF ConsoleInv
<1> QED
  BY <1>6, <1>7

LEMMA HandlerPollStep == ConsoleInv /\ HandlerPoll => ConsoleInv'
<1> SUFFICES ASSUME ConsoleInv, HandlerPoll PROVE ConsoleInv'
  OBVIOUS
<1>1. Contexts /\ RoomLeft
  BY DEF ConsoleInv
<1>2. /\ hand = "poll" /\ hand' = "out" /\ fifo = <<>> /\ left["handler"] # <<>>
      /\ UNCHANGED <<iflag, ctx, frames, booted, fifo, left, said>>
  BY DEF HandlerPoll, is_transmit_empty, intVars, chipVars, textVars
<1>3. Contexts' /\ Position' = Position
  BY <1>1, <1>2, HandlerPosition DEF Contexts, Stub
<1>4. RoomLeft'
  BY <1>1, <1>2, <1>3 DEF RoomLeft
<1> QED
  BY <1>3, <1>4, QuietStep DEF ConsoleInv, HandlerPoll

\* The handler's store meets an empty FIFO, and leaves one byte in it.
LEMMA HandlerOutStep == ConsoleInv /\ HandlerOut => ConsoleInv'
<1> SUFFICES ASSUME ConsoleInv, HandlerOut PROVE ConsoleInv'
  OBVIOUS
<1>1. Contexts /\ Programmed /\ RoomLeft /\ Texts /\ (~uart.loop => Complete)
  BY DEF ConsoleInv
<1>2. /\ hand = "out" /\ hand' = "poll" /\ Outb("handler")
      /\ UNCHANGED <<iflag, ctx, frames, booted, uart, line>>
  BY DEF HandlerOut, intVars
<1>3. /\ ctx \in {"irq", "isr"} /\ fifo = <<>> /\ left["handler"] # <<>>
      /\ "handler" \in Printers /\ "code" \in Printers /\ "code" # "handler"
  BY <1>1, <1>2 DEF Contexts, RoomLeft, Printers
<1>4. Contexts' /\ Position' = Position
  BY <1>1, <1>2, <1>3, HandlerPosition DEF Contexts, Stub
<1>5. booted # "reset"
  BY <1>1, <1>3, PlacesOf DEF Contexts
<1>6. /\ Texts' /\ Head(left["handler"]) = left["handler"][1] /\ left["handler"][1] \in Byte
      /\ left'["code"] = left["code"] /\ said' = said
  BY <1>1, <1>2, <1>3, PrintKeepsTexts DEF Outb
<1>7. /\ fifo' = Append(fifo, Head(left["handler"])) /\ fifo' \in Seq(Byte)
      /\ Sent' = Append(Sent, Head(left["handler"]))
  BY <1>1, <1>2, <1>3, <1>5, <1>6, SendStores, EmptySeq DEF Outb
<1>8. Len(fifo') = 1
  BY <1>3, <1>7
<1>9. RoomLeft'
  BY <1>1, <1>2, <1>4, <1>6, <1>8 DEF RoomLeft
<1>10. Programmed'
  BY <1>1, <1>2, <1>5, <1>7 DEF Programmed
<1>11. (~uart.loop => Complete)'
  BY <1>1, <1>2, <1>3, <1>7, SentType, PrintKeepsComplete DEF Programmed
<1> QED
  BY <1>4, <1>6, <1>9, <1>10, <1>11 DEF ConsoleInv

LEMMA HandlerReturnsStep == ConsoleInv /\ HandlerReturns => ConsoleInv'
<1> SUFFICES ASSUME ConsoleInv, HandlerReturns PROVE ConsoleInv'
  OBVIOUS
<1>1. Contexts /\ RoomLeft
  BY DEF ConsoleInv
<1>2. /\ hand = "poll" /\ hand' = "call" /\ left["handler"] = <<>>
      /\ ctx \in {"irq", "isr"} /\ ctx' \in {"eoi", "return", "wild", "halted"}
      /\ UNCHANGED <<iflag, frames, booted, fifo, left, said>>
  BY DEF HandlerReturns, irq_handler, fault_handler, syscall_handler, chipVars, textVars
<1>3. ctx \in Stub /\ ctx' \in Stub
  BY <1>2 DEF Stub
<1>4. Contexts' /\ Position' = Position
  <2>1. ctx \notin Code
    BY <1>1, <1>3, PlacesOf
  <2> QED
    BY <1>1, <1>2, <1>3, <2>1, HandlerPosition, PlacesOf DEF Contexts
<1>5. RoomLeft'
  BY <1>1, <1>2, <1>4 DEF RoomLeft
<1> QED
  BY <1>4, <1>5, QuietStep DEF ConsoleInv, HandlerReturns

LEMMA LeaveStep == ConsoleInv /\ Leave => ConsoleInv'
<1> SUFFICES ASSUME ConsoleInv, Leave PROVE ConsoleInv'
  OBVIOUS
<1>1. Contexts /\ RoomLeft
  BY DEF ConsoleInv
<1>2. ctx \in {"eoi", "return"} /\ ctx \in Stub /\ hand = "call"
  BY <1>1 DEF Leave, irq_end, Return, Contexts, Stub
<1>3. ctx \notin Code /\ booted \in {"kernel", "modules"}
  BY <1>1, <1>2, PlacesOf DEF Contexts
<1>4. UNCHANGED <<booted, fifo, left, said, hand>>
  BY DEF Leave, chipVars, textVars
<1>5. Contexts' /\ Position' = Position
  <2>1. CASE irq_end
    <3>1. ctx' = "return" /\ ctx' \in Stub /\ UNCHANGED <<iflag, frames>>
      BY <2>1 DEF irq_end, Stub
    <3>2. ctx' \notin Code
      BY <1>1, <3>1, PlacesOf
    <3> QED
      BY <1>1, <1>2, <1>3, <1>4, <3>1, <3>2, HandlerPosition DEF Contexts
  <2>2. CASE Return
    <3>1. PICK n \in Int : frames = <<[int_no |-> n, regs |-> Position]>>
      BY <1>1, <1>2, PlacesOf
    <3>2. ctx' = Position /\ frames' = <<>>
      BY <2>2, <3>1 DEF Return, Top
    <3>3. ctx' \in Code /\ ctx' \notin Stub
      BY <1>1, <3>2, PlacesOf
    <3> QED
      BY <1>1, <1>2, <1>3, <1>4, <3>2, <3>3 DEF Contexts, Position
  <2> QED
    BY <2>1, <2>2 DEF Leave
<1>6. RoomLeft'
  BY <1>1, <1>4, <1>5 DEF RoomLeft
<1> QED
  BY <1>5, <1>6, QuietStep DEF ConsoleInv, Leave
LEMMA CompleteKept ==
  ASSUME Complete, Sent' = Sent, UNCHANGED <<left, asked>>
  PROVE  Complete'
BY DEF Complete, Printed

\* serial_init comes before the first message.
LEMMA SerialInitStep == ConsoleInv /\ serial_init => ConsoleInv'
<1> SUFFICES ASSUME ConsoleInv, serial_init PROVE ConsoleInv'
  OBVIOUS
<1>1. Contexts /\ Programmed /\ RoomLeft /\ Texts /\ (~uart.loop => Complete)
  BY DEF ConsoleInv
<1>2. /\ booted = "reset" /\ booted' = "loader" /\ ctx = "run"
      /\ uart' \in {Prepared(uart), Store(Prepared(uart), 4, 15)}
      /\ UNCHANGED <<iflag, ctx, frames, fifo, line, left, asked, said, hand>>
  BY DEF serial_init, intVars, textVars
<1>3. PICK dlab \in BOOLEAN : uart = PowerOn(dlab)
  BY <1>1, <1>2 DEF Programmed
<1>4. Ready(uart') /\ uart'.fifo
  BY <1>2, <1>3, Initialised
<1>5. Contexts' /\ Position' = Position
  BY <1>1, <1>2 DEF Contexts, Position, Top
<1>6. Programmed'
  BY <1>1, <1>2, <1>4 DEF Programmed, Ready
<1>7. RoomLeft' /\ Texts'
  BY <1>1, <1>2, <1>5 DEF RoomLeft, Texts, Printed
<1>8. Complete
  BY <1>1, <1>3 DEF PowerOn
<1>9. Complete'
  BY <1>2, <1>8, CompleteKept DEF Sent
<1> QED
  BY <1>5, <1>6, <1>7, <1>9 DEF ConsoleInv

LEMMA InfoStep == ConsoleInv /\ Info => ConsoleInv'
<1> SUFFICES ASSUME ConsoleInv, Info PROVE ConsoleInv'
  OBVIOUS
<1>1. Contexts /\ Programmed /\ RoomLeft /\ Texts /\ (~uart.loop => Complete)
  BY DEF ConsoleInv
<1>2. /\ ctx = "run" /\ booted # "reset" /\ said["code"] < MaxMessages
      /\ ctx' = IF left'["code"] = <<>> THEN "run" ELSE "poll"
      /\ UNCHANGED <<iflag, frames, booted, uart, fifo, line, hand>>
  BY DEF Info, chipVars
<1>3. ctx \in Code /\ ctx' \in Code /\ ctx \notin Stub /\ ctx' \notin Stub
  BY <1>1, <1>2, PlacesOf
<1>4. Position = "run" /\ Position' = ctx' /\ hand = "call"
  BY <1>1, <1>2, <1>3, PlacesOf DEF Position
<1>5. left["code"] = <<>> /\ "handler" \in Printers /\ "code" \in Printers /\ "code" # "handler"
  BY <1>1, <1>4 DEF RoomLeft, Printers
<1>6. PICK m \in BootMessages : Say("code", m.level, m.text)
  BY DEF Info
<1>7. m.text \in Nat
  BY ConsoleAssumption
<1>8. Texts' /\ left'["handler"] = left["handler"]
  BY <1>1, <1>5, <1>6, <1>7, SayKeepsTexts
<1>9. Contexts'
  BY <1>1, <1>2, <1>3, <1>4 DEF Contexts
<1>10. said'["code"] <= MaxMessages
  <2>1. said["code"] \in Nat /\ said'["code"] \in {said["code"], said["code"] + 1}
    BY <1>1, <1>5, <1>6 DEF Texts, Say
  <2> QED
    BY <1>2, <2>1, ConsoleAssumption
<1>11. RoomLeft'
  BY <1>1, <1>2, <1>4, <1>8, <1>10 DEF RoomLeft
<1>12. Programmed'
  BY <1>1, <1>2 DEF Programmed
<1>13. (~uart.loop => Complete)'
  <2>1. Sent \in Seq(Byte) /\ Sent' = Sent
    BY <1>1, <1>2, SentType DEF Programmed, Sent
  <2> QED
    BY <1>1, <1>2, <1>5, <1>6, <1>7, <2>1, SayKeepsComplete
<1> QED
  BY <1>8, <1>9, <1>11, <1>12, <1>13 DEF ConsoleInv

LEMMA PollStep == ConsoleInv /\ Poll => ConsoleInv'
<1> SUFFICES ASSUME ConsoleInv, Poll PROVE ConsoleInv'
  OBVIOUS
<1>1. Contexts /\ Programmed /\ RoomLeft
  BY DEF ConsoleInv
<1>2. /\ ctx = "poll" /\ ctx' = "out" /\ fifo = <<>>
      /\ UNCHANGED <<iflag, frames, booted, fifo, left, said, hand>>
  BY DEF Poll, is_transmit_empty, chipVars, textVars
<1>3. ctx \in Code /\ ctx' \in Code /\ ctx \notin Stub /\ ctx' \notin Stub
  BY <1>1, <1>2, PlacesOf
<1>4. Position = "poll" /\ Position' = "out" /\ hand = "call" /\ booted # "reset"
  BY <1>1, <1>2, <1>3, PlacesOf DEF Position, Contexts
<1>5. Contexts'
  BY <1>1, <1>2, <1>3, <1>4 DEF Contexts
<1>6. Len(fifo') = 0
  BY <1>2, EmptySeq
<1>7. RoomLeft'
  BY <1>1, <1>2, <1>4, <1>6 DEF RoomLeft
<1> QED
  BY <1>5, <1>7, QuietStep DEF ConsoleInv, Poll

\* The thread's store finds at most the last byte of a handler in the FIFO.
LEMMA OutStep == ConsoleInv /\ Out => ConsoleInv'
<1> SUFFICES ASSUME ConsoleInv, Out PROVE ConsoleInv'
  OBVIOUS
<1>1. Contexts /\ Programmed /\ RoomLeft /\ Texts /\ (~uart.loop => Complete)
  BY DEF ConsoleInv
<1>2. /\ ctx = "out" /\ Outb("code")
      /\ ctx' = IF Tail(left["code"]) = <<>> THEN "run" ELSE "poll"
      /\ UNCHANGED <<iflag, frames, booted, uart, line, hand>>
  BY DEF Out
<1>3. ctx \in Code /\ ctx' \in Code /\ ctx \notin Stub /\ ctx' \notin Stub
  BY <1>1, <1>2, PlacesOf
<1>4. Position = "out" /\ Position' = ctx' /\ hand = "call" /\ booted # "reset"
  BY <1>1, <1>2, <1>3, PlacesOf DEF Position, Contexts
<1>5. /\ left["handler"] = <<>> /\ left["code"] # <<>> /\ Len(fifo) \in {0, 1}
      /\ "handler" \in Printers /\ "code" \in Printers /\ "code" # "handler"
  BY <1>1, <1>4 DEF RoomLeft, Printers
<1>6. /\ Texts' /\ Head(left["code"]) = left["code"][1] /\ left["code"][1] \in Byte
      /\ left'["code"] = Tail(left["code"]) /\ left'["handler"] = left["handler"] /\ said' = said
  BY <1>1, <1>2, <1>5, PrintKeepsTexts DEF Outb
<1>7. /\ fifo' = Append(fifo, Head(left["code"])) /\ fifo' \in Seq(Byte)
      /\ Sent' = Append(Sent, Head(left["code"]))
  BY <1>1, <1>2, <1>4, <1>5, <1>6, SendStores DEF Outb
<1>8. Contexts'
  BY <1>1, <1>2, <1>3, <1>4 DEF Contexts
<1>9. RoomLeft'
  BY <1>1, <1>2, <1>4, <1>5, <1>6 DEF RoomLeft
<1>10. Programmed'
  BY <1>1, <1>2, <1>4, <1>7 DEF Programmed
<1>11. (~uart.loop => Complete)'
  BY <1>1, <1>2, <1>5, <1>7, SentType, PrintKeepsComplete DEF Programmed
<1> QED
  BY <1>6, <1>8, <1>9, <1>10, <1>11 DEF ConsoleInv

LEMMA EnterStep == ConsoleInv /\ Enter => ConsoleInv'
<1> SUFFICES ASSUME ConsoleInv, Enter PROVE ConsoleInv'
  OBVIOUS
<1>1. Contexts /\ Programmed /\ RoomLeft /\ Texts /\ (~uart.loop => Complete)
  BY DEF ConsoleInv
<1>2. /\ ctx = "run" /\ booted = "loader" /\ booted' = "kernel" /\ iflag' = TRUE
      /\ UNCHANGED <<ctx, frames, uart, fifo, line, left, asked, said, hand>>
  BY DEF Enter, chipVars, textVars
<1>3. ctx \in Code
  BY <1>1, <1>2, PlacesOf
<1>4. Contexts' /\ Position' = Position
  BY <1>1, <1>2, <1>3 DEF Contexts, Position, Top
<1>5. Programmed'
  BY <1>1, <1>2 DEF Programmed
<1>6. RoomLeft' /\ Texts'
  BY <1>1, <1>2, <1>4 DEF RoomLeft, Texts, Printed
<1>7. (~uart.loop => Complete)'
  BY <1>1, <1>2, CompleteKept DEF Sent
<1> QED
  BY <1>4, <1>5, <1>6, <1>7 DEF ConsoleInv

LEMMA LoadStep == ConsoleInv /\ Load => ConsoleInv'
<1> SUFFICES ASSUME ConsoleInv, Load PROVE ConsoleInv'
  OBVIOUS
<1>1. Contexts /\ Programmed /\ RoomLeft /\ Texts /\ (~uart.loop => Complete)
  BY DEF ConsoleInv
<1>2. /\ booted = "kernel" /\ booted' = "modules"
      /\ UNCHANGED <<iflag, ctx, frames, uart, fifo, line, left, asked, said, hand>>
  BY DEF Load, intVars, chipVars, textVars
<1>3. Contexts' /\ Position' = Position
  BY <1>1, <1>2 DEF Contexts, Position, Top
<1>4. Programmed'
  BY <1>1, <1>2 DEF Programmed
<1>5. RoomLeft' /\ Texts'
  BY <1>1, <1>2, <1>3 DEF RoomLeft, Texts, Printed
<1>6. (~uart.loop => Complete)'
  BY <1>1, <1>2, CompleteKept DEF Sent
<1> QED
  BY <1>3, <1>4, <1>5, <1>6 DEF ConsoleInv

\* A byte leaves; outside loopback mode it goes on the line.
LEMMA TransmitStep == ConsoleInv /\ Transmit => ConsoleInv'
<1> SUFFICES ASSUME ConsoleInv, Transmit PROVE ConsoleInv'
  OBVIOUS
<1>1. Contexts /\ Programmed /\ RoomLeft /\ Texts /\ (~uart.loop => Complete)
  BY DEF ConsoleInv
<1>2. /\ fifo # <<>> /\ fifo' = Tail(fifo)
      /\ line' = IF uart.loop THEN line ELSE Append(line, Head(fifo))
      /\ UNCHANGED <<iflag, ctx, frames, booted, uart, left, asked, said, hand>>
  BY DEF Transmit, intVars, textVars
<1>3. /\ line \in Seq(Byte) /\ fifo \in Seq(Byte) /\ Head(fifo) \in Byte
      /\ Tail(fifo) \in Seq(Byte) /\ Len(Tail(fifo)) = Len(fifo) - 1
      /\ Len(fifo) \in Nat \ {0} /\ Append(line, Head(fifo)) \in Seq(Byte)
  BY <1>1, <1>2, HeadTailProperties, EmptySeq, AppendProperties DEF Programmed
<1>4. booted # "reset"
  BY <1>1, <1>2 DEF Programmed
<1>5. Contexts' /\ Position' = Position
  BY <1>1, <1>2 DEF Contexts, Position, Top
<1>6. line' \in Seq(Byte) /\ fifo' \in Seq(Byte)
  BY <1>2, <1>3
<1>7. Programmed'
  BY <1>1, <1>2, <1>4, <1>6 DEF Programmed
<1>8. RoomLeft'
  <2>1. Position = "out" => Len(fifo') \in {0, 1}
    BY <1>1, <1>2, <1>3 DEF RoomLeft
  <2> QED
    BY <1>1, <1>2, <1>5, <2>1 DEF RoomLeft
<1>9. Texts'
  BY <1>1, <1>2 DEF Texts, Printed
<1>10. (~uart.loop => Complete)'
  <2> SUFFICES ASSUME ~uart.loop PROVE Complete'
    BY <1>2
  <2>1. Sent' = Sent
    BY <1>2, <1>3, Moved DEF Sent
  <2> QED
    BY <1>1, <1>2, <2>1 DEF Complete, Printed
<1> QED
  BY <1>5, <1>7, <1>8, <1>9, <1>10 DEF ConsoleInv

LEMMA InterruptSteps ==
  ASSUME ConsoleInv, \/ \E q \in Lines : Raised(q) \/ Take(q)
                     \/ \E n \in Traps \cup {127} : Fault(n)
  PROVE  ConsoleInv'
<1>1. Contexts /\ RoomLeft
  BY DEF ConsoleInv
<1>2. ASSUME NEW q \in Lines, Raised(q) PROVE ConsoleInv'
  <2>1. UNCHANGED <<iflag, ctx, frames, booted, fifo, left, said, hand, chipVars, textVars>>
    BY <1>2 DEF Raised, Raise, chipVars, textVars
  <2>2. Contexts' /\ Position' = Position
    BY <1>1, <2>1 DEF Contexts, Position, Top
  <2>3. RoomLeft'
    BY <1>1, <2>1, <2>2 DEF RoomLeft
  <2> QED
    BY <2>1, <2>2, <2>3, QuietStep DEF ConsoleInv
<1>3. ASSUME NEW q \in Lines, Take(q) PROVE ConsoleInv'
  <2>1. iflag /\ Taken(q) /\ UNCHANGED <<booted, chipVars, textVars, hand>>
    BY <1>3 DEF Take, Taken, Interrupt, Spurious
  <2>2. ctx \in Code /\ booted \in {"kernel", "modules"}
    BY <1>1, <2>1 DEF Contexts
  <2>3. PICK n \in Int : Gate(n, "irq")
    <3>1. q + 32 \in Int /\ 7 + 32 \in Int /\ 15 + 32 \in Int
      <4>1. q \in Int
        BY InterruptsAssumption
      <4> QED
        BY <4>1
    <3> QED
      BY <2>1, <3>1 DEF Taken, Interrupt, Spurious
  <2> QED
    BY <2>1, <2>2, <2>3, EntryStep
<1>4. ASSUME NEW n \in Traps \cup {127}, Fault(n) PROVE ConsoleInv'
  <2>1. /\ booted \in {"kernel", "modules"} /\ ctx \in Code /\ Gate(n, "isr") /\ n \in Int
        /\ UNCHANGED <<booted, chipVars, textVars, hand>>
    BY <1>4, InterruptsAssumption, ConsoleAssumption DEF Fault, Trap, intVars
  <2> QED
    BY <2>1, EntryStep
<1> QED
  BY <1>2, <1>3, <1>4

LEMMA ConsoleInit_Inv == ConsoleInit => ConsoleInv
<1> SUFFICES ASSUME ConsoleInit PROVE ConsoleInv
  OBVIOUS
<1>1. /\ iflag = FALSE /\ ctx = "run" /\ frames = <<>> /\ booted = "reset"
      /\ uart \in {PowerOn(dlab) : dlab \in BOOLEAN} /\ fifo = <<>> /\ line = <<>>
      /\ left = [by \in Printers |-> <<>>] /\ asked = left
      /\ said = [by \in Printers |-> 0] /\ hand = "call"
  BY DEF ConsoleInit
<1>2. ctx \in Code /\ ctx \notin Stub
  BY <1>1, ConsoleAssumption DEF Stub
<1>3. <<>> \in Seq(Byte) /\ Len(<<>>) = 0
  BY EmptySeq
<1>4. Contexts
  BY <1>1, <1>2 DEF Contexts
<1>5. Programmed
  <2>1. uart \in Chip
    <3>1. PICK dlab \in BOOLEAN : uart = PowerOn(dlab)
      BY <1>1
    <3> QED
      BY <3>1 DEF PowerOn, Chip
  <2> QED
    BY <1>1, <1>3, <2>1 DEF Programmed
<1>6. RoomLeft
  BY <1>1, <1>2, <1>3, ConsoleAssumption DEF RoomLeft, Position, Printers
<1>7. Texts
  BY <1>1, <1>3 DEF Texts, Printed
<1>8. Complete
  <2>1. Sent = <<>> /\ Len(Sent) = 0
    BY <1>1, <1>3, ConcatEmptySeq DEF Sent
  <2>2. \A by \in Printers : Printed(by) = 0 /\ left[by] = <<>>
    BY <1>1, <1>3 DEF Printed
  <2> QED
    BY <2>1, <2>2 DEF Complete, Printers
<1> QED
  BY <1>4, <1>5, <1>6, <1>7, <1>8 DEF ConsoleInv

LEMMA ConsoleNext_Inv == ConsoleInv /\ [ConsoleNext]_consoleVars => ConsoleInv'
<1> SUFFICES ASSUME ConsoleInv, [ConsoleNext]_consoleVars PROVE ConsoleInv'
  OBVIOUS
<1>1. CASE Thread
  BY <1>1, SerialInitStep, InfoStep, PollStep, OutStep, EnterStep, LoadStep DEF Thread
<1>2. CASE Handle
  BY <1>2, CallStep, HandlerPollStep, HandlerOutStep, HandlerReturnsStep, LeaveStep DEF Handle
<1>3. CASE Transmit
  BY <1>3, TransmitStep
<1>4. CASE \/ \E q \in Lines : Raised(q) \/ Take(q)
           \/ \E n \in Traps \cup {127} : Fault(n)
  BY <1>4, InterruptSteps
<1>5. CASE UNCHANGED consoleVars
  <2>1. UNCHANGED <<iflag, ctx, frames, booted, fifo, left, said, hand, chipVars, textVars>>
    BY <1>5 DEF consoleVars, intVars, chipVars, textVars
  <2>2. Contexts' /\ Position' = Position
    BY <2>1 DEF ConsoleInv, Contexts, Position, Top
  <2>3. RoomLeft'
    BY <2>1, <2>2 DEF ConsoleInv, RoomLeft
  <2> QED
    BY <2>1, <2>2, <2>3, QuietStep DEF ConsoleInv
<1> QED
  BY <1>1, <1>2, <1>3, <1>4, <1>5 DEF ConsoleNext

LEMMA ConsoleInvariant == ConsoleSpec => []ConsoleInv
<1> QED
  BY ConsoleInit_Inv, ConsoleNext_Inv, PTL DEF ConsoleSpec

LEMMA InvDelivered == ConsoleInv => Delivered
<1> SUFFICES ASSUME ConsoleInv PROVE Delivered
  OBVIOUS
<1>1. Contexts /\ Programmed /\ RoomLeft /\ Texts /\ (~uart.loop => Complete)
  BY DEF ConsoleInv
<1>2. ConsoleTypeOK
  <2>1. left["code"] # <<>> \/ ctx \notin {"poll", "out"}
    BY <1>1, PlacesOf DEF RoomLeft
  <2>2. said["code"] \in 0 .. MaxMessages /\ said["handler"] \in Nat
    BY <1>1, ConsoleAssumption DEF RoomLeft, Texts, Printers
  <2> QED
    BY <1>1, <2>1, <2>2 DEF ConsoleTypeOK, Contexts
<1>3. ASSUME NEW by \in Printers
      PROVE  left[by] = SubSeq(asked[by], Printed(by) + 1, Len(asked[by]))
  <2> DEFINE n == Len(left[by])
             m == Len(asked[by])
             r == SubSeq(asked[by], Printed(by) + 1, m)
  <2>1. asked[by] \in Seq(Byte) /\ left[by] \in Seq(Byte)
    BY <1>1 DEF Texts
  <2>2. /\ n \in Nat /\ m \in Nat /\ n <= m /\ Printed(by) = m - n
        /\ \A k \in 1 .. n : left[by][k] = asked[by][Printed(by) + k]
        /\ \A k \in 1 .. m : asked[by][k] \in Byte
    BY <1>1, <2>1, LenProperties, ElementOfSeq DEF Texts, Printed
  <2> HIDE DEF n, m
  <2>3. Printed(by) + 1 \in Int /\ m \in Int /\ \A k \in Printed(by) + 1 .. m : asked[by][k] \in Byte
    BY <2>2
  <2>4. /\ r \in Seq(Byte)
        /\ Len(r) = IF Printed(by) + 1 <= m THEN m - (Printed(by) + 1) + 1 ELSE 0
        /\ \A k \in 1 .. m - (Printed(by) + 1) + 1 : r[k] = asked[by][(Printed(by) + 1) + k - 1]
    BY <2>3, SubSeqProperties
  <2> HIDE DEF r
  <2>5. Len(r) = n
    BY <2>2, <2>4
  <2>6. ASSUME NEW k \in 1 .. n PROVE left[by][k] = r[k]
    <3>1. k \in 1 .. m - (Printed(by) + 1) + 1 /\ (Printed(by) + 1) + k - 1 = Printed(by) + k
      BY <2>2, <2>6
    <3> QED
      BY <2>2, <2>4, <2>6, <3>1
  <2>7. left[by] = r
    BY <2>1, <2>4, <2>5, <2>6, SeqEqual DEF n
  <2> QED
    BY <2>7 DEF r, m
<1>4. ASSUME booted # "reset", ~uart.loop
      PROVE  uart.divisor = 3 /\ Complete /\ DOMAIN Sent = 1 .. Len(Sent)
  BY <1>1, <1>4, SentType, LenProperties DEF Programmed
<1> QED
  BY <1>2, <1>3, <1>4 DEF Delivered, Complete

\* No byte that is printed is lost, doubled, overtaken or broken into by a
\* handler's, for every FIFO of two bytes or more.
THEOREM BytesDelivered == ConsoleSpec => []Delivered
BY ConsoleInvariant, InvDelivered, PTL

-----------------------------------------------------------------------------
(* setup_interrupts                                                        *)

Byte8 == 0 .. 255
Octet == [A : Byte8, B : Byte8]

\* A byte is the sum of its bits' weights.
LEMMA BitsOf ==
  ASSUME NEW v \in Byte8
  PROVE  /\ Bit(v, 0) \in {0, 1} /\ Bit(v, 1) \in {0, 1} /\ Bit(v, 2) \in {0, 1}
         /\ Bit(v, 3) \in {0, 1} /\ Bit(v, 4) \in {0, 1} /\ Bit(v, 5) \in {0, 1}
         /\ Bit(v, 6) \in {0, 1} /\ Bit(v, 7) \in {0, 1}
BY DEF Bit, Weight, Byte8

\* The bits of a sum of weights.
LEMMA SumBits ==
  ASSUME NEW b0 \in {0, 1}, NEW b1 \in {0, 2}, NEW b2 \in {0, 4}, NEW b3 \in {0, 8},
         NEW b4 \in {0, 16}, NEW b5 \in {0, 32}, NEW b6 \in {0, 64}, NEW b7 \in {0, 128},
         NEW v, v = b0 + b1 + b2 + b3 + b4 + b5 + b6 + b7
  PROVE  /\ v \in Byte8
         /\ Bit(v, 0) = 1 <=> b0 = 1
         /\ Bit(v, 1) = 1 <=> b1 = 2
         /\ Bit(v, 2) = 1 <=> b2 = 4
         /\ Bit(v, 3) = 1 <=> b3 = 8
         /\ Bit(v, 4) = 1 <=> b4 = 16
         /\ Bit(v, 5) = 1 <=> b5 = 32
         /\ Bit(v, 6) = 1 <=> b6 = 64
         /\ Bit(v, 7) = 1 <=> b7 = 128
<1>1. v \in Byte8
  BY DEF Byte8
<1>2. Bit(v, 0) = 1 <=> b0 = 1
  BY DEF Bit, Weight
<1>3. Bit(v, 1) = 1 <=> b1 = 2
  BY DEF Bit, Weight
<1>4. Bit(v, 2) = 1 <=> b2 = 4
  BY DEF Bit, Weight
<1>5. Bit(v, 3) = 1 <=> b3 = 8
  BY DEF Bit, Weight
<1>6. Bit(v, 4) = 1 <=> b4 = 16
  BY DEF Bit, Weight
<1>7. Bit(v, 5) = 1 <=> b5 = 32
  BY DEF Bit, Weight
<1>8. Bit(v, 6) = 1 <=> b6 = 64
  BY DEF Bit, Weight
<1>9. Bit(v, 7) = 1 <=> b7 = 128
  BY DEF Bit, Weight
<1> QED
  BY <1>1, <1>2, <1>3, <1>4, <1>5, <1>6, <1>7, <1>8, <1>9

\* | of two bytes.
LEMMA OrBits ==
  ASSUME NEW v \in Byte8, NEW w \in Byte8
  PROVE  /\ Or(v, w) \in Byte8
         /\ \A k \in 0 .. 7 : Bit(Or(v, w), k) = 1 <=> Bit(v, k) = 1 \/ Bit(w, k) = 1
<1> DEFINE B(k) == IF Bit(v, k) = 1 \/ Bit(w, k) = 1 THEN Weight(k) ELSE 0
<1>1. Or(v, w) = B(0) + B(1) + B(2) + B(3) + B(4) + B(5) + B(6) + B(7)
  BY DEF Or
<1>2. /\ B(0) \in {0, 1} /\ B(1) \in {0, 2} /\ B(2) \in {0, 4} /\ B(3) \in {0, 8}
      /\ B(4) \in {0, 16} /\ B(5) \in {0, 32} /\ B(6) \in {0, 64} /\ B(7) \in {0, 128}
  BY DEF Weight
<1>3. /\ B(0) = 1 <=> Bit(v, 0) = 1 \/ Bit(w, 0) = 1
      /\ B(1) = 2 <=> Bit(v, 1) = 1 \/ Bit(w, 1) = 1
      /\ B(2) = 4 <=> Bit(v, 2) = 1 \/ Bit(w, 2) = 1
      /\ B(3) = 8 <=> Bit(v, 3) = 1 \/ Bit(w, 3) = 1
      /\ B(4) = 16 <=> Bit(v, 4) = 1 \/ Bit(w, 4) = 1
      /\ B(5) = 32 <=> Bit(v, 5) = 1 \/ Bit(w, 5) = 1
      /\ B(6) = 64 <=> Bit(v, 6) = 1 \/ Bit(w, 6) = 1
      /\ B(7) = 128 <=> Bit(v, 7) = 1 \/ Bit(w, 7) = 1
  BY DEF Weight
<1> HIDE DEF B
<1>4. /\ Or(v, w) \in Byte8
      /\ Bit(Or(v, w), 0) = 1 <=> B(0) = 1
      /\ Bit(Or(v, w), 1) = 1 <=> B(1) = 2
      /\ Bit(Or(v, w), 2) = 1 <=> B(2) = 4
      /\ Bit(Or(v, w), 3) = 1 <=> B(3) = 8
      /\ Bit(Or(v, w), 4) = 1 <=> B(4) = 16
      /\ Bit(Or(v, w), 5) = 1 <=> B(5) = 32
      /\ Bit(Or(v, w), 6) = 1 <=> B(6) = 64
      /\ Bit(Or(v, w), 7) = 1 <=> B(7) = 128
  BY <1>1, <1>2, SumBits
<1> QED
  BY <1>3, <1>4

\* The lines the kernel closes.
LEMMA Closed ==
  /\ \h2F \in Byte8 /\ \hF8 \in Byte8
  /\ \A k \in 0 .. 7 : Bit(\hF8, k) = 1 <=> k > 2
  /\ \A k \in 0 .. 7 : Bit(\h2F, k) = 1 <=> k \in {0, 1, 2, 3, 5}
<1>1. \A k \in 0 .. 7 : k \in {0, 1, 2, 3, 4, 5, 6, 7}
  OBVIOUS
<1>2. \A k \in 0 .. 7 : Bit(248, k) = 1 <=> k > 2
  BY <1>1 DEF Bit, Weight
<1>3. \A k \in 0 .. 7 : Bit(47, k) = 1 <=> k \in {0, 1, 2, 3, 5}
  BY <1>1 DEF Bit, Weight
<1> QED
  BY <1>2, <1>3 DEF Byte8

\* A controller that has been through the four words.
ChipWith(base, at, mask) ==
  [awaits |-> "mask", mode_follows |-> 1, base |-> base, cascade |-> at,
   x86 |-> 1, mask |-> mask]

LEMMA ChipWired ==
  ASSUME NEW m, NEW base \in {32, 40}, NEW at
  PROVE  DataWord(DataWord(DataWord(CommandWord(Uninitialised(m), 17), base), at), 1)
           = ChipWith(base, at, 0)
<1>1. Bit(17, 4) = 1 /\ Bit(17, 0) = 1 /\ Bit(1, 0) = 1 /\ 8 * (base \div 8) = base
  BY DEF Bit, Weight
<1> DEFINE c1 == CommandWord(Uninitialised(m), 17)
           c2 == DataWord(c1, base)
           c3 == DataWord(c2, at)
<1>2. c1 = [awaits |-> "base", mode_follows |-> 1, base |-> 8, cascade |-> 0,
            x86 |-> 0, mask |-> 0]
  BY <1>1 DEF CommandWord, Uninitialised
<1>3. c2 = [awaits |-> "cascade", mode_follows |-> 1, base |-> base, cascade |-> 0,
            x86 |-> 0, mask |-> 0]
  <2> HIDE DEF c1
  <2> QED
    BY <1>1, <1>2 DEF DataWord
<1>4. c3 = [awaits |-> "mode", mode_follows |-> 1, base |-> base, cascade |-> at,
            x86 |-> 0, mask |-> 0]
  <2> HIDE DEF c2
  <2> QED
    BY <1>3 DEF DataWord
<1>5. DataWord(c3, 1) = ChipWith(base, at, 0)
  <2> HIDE DEF c3
  <2> QED
    BY <1>1, <1>4 DEF DataWord, ChipWith
<1> QED
  BY <1>5

LEMMA ChipMasked ==
  ASSUME NEW base, NEW at, NEW m, NEW n
  PROVE  DataWord(ChipWith(base, at, m), n) = ChipWith(base, at, n)
BY DEF DataWord, ChipWith

\* A word goes to one of the two.
Chips(a, b) == [A |-> a, B |-> b]

LEMMA OneChip ==
  \A a, b, v :
     /\ outb(Chips(a, b), PIC_A, v) = Chips(CommandWord(a, v), b)
     /\ outb(Chips(a, b), PIC_B, v) = Chips(a, CommandWord(b, v))
     /\ outb(Chips(a, b), PIC_A_DATA, v) = Chips(DataWord(a, v), b)
     /\ outb(Chips(a, b), PIC_B_DATA, v) = Chips(a, DataWord(b, v))
<1> TAKE a, b, v
<1> DEFINE c == [A |-> a, B |-> b]
<1>1. /\ \A x : [c EXCEPT !.A = x] = [A |-> x, B |-> b]
      /\ \A x : [c EXCEPT !.B = x] = [A |-> a, B |-> x]
      /\ c.A = a /\ c.B = b
  OBVIOUS
<1> HIDE DEF c
<1>2. /\ outb(c, PIC_A, v) = [c EXCEPT !.A = CommandWord(c.A, v)]
      /\ outb(c, PIC_B, v) = [c EXCEPT !.B = CommandWord(c.B, v)]
  BY DEF outb, PIC_A, PIC_B
<1>3. /\ outb(c, PIC_A_DATA, v) = [c EXCEPT !.A = DataWord(c.A, v)]
      /\ outb(c, PIC_B_DATA, v) = [c EXCEPT !.B = DataWord(c.B, v)]
  <2> DEFINE D(x) == DataWord(x, v)
             C(x) == CommandWord(x, v)
  <2>1. /\ outb(c, PIC_A_DATA, v)
             = [c EXCEPT !["A"] = IF 1 = 0 THEN C(c["A"]) ELSE D(c["A"])]
        /\ outb(c, PIC_B_DATA, v)
             = [c EXCEPT !["B"] = IF 1 = 0 THEN C(c["B"]) ELSE D(c["B"])]
    BY DEF outb, PIC_A_DATA, PIC_B_DATA
  <2> HIDE DEF C, D
  <2>2. /\ outb(c, PIC_A_DATA, v) = [c EXCEPT !["A"] = D(c["A"])]
        /\ outb(c, PIC_B_DATA, v) = [c EXCEPT !["B"] = D(c["B"])]
    BY <2>1
  <2> QED
    BY <2>2 DEF D
<1>4. /\ outb(c, PIC_A, v) = [A |-> CommandWord(a, v), B |-> b]
      /\ outb(c, PIC_B, v) = [A |-> a, B |-> CommandWord(b, v)]
      /\ outb(c, PIC_A_DATA, v) = [A |-> DataWord(a, v), B |-> b]
      /\ outb(c, PIC_B_DATA, v) = [A |-> a, B |-> DataWord(b, v)]
  BY <1>1, <1>2, <1>3
<1> QED
  BY <1>4 DEF c, Chips

LEMMA WiredIs ==
  ASSUME NEW a, NEW b
  PROVE  Wired(Chips(Uninitialised(a), Uninitialised(b)))
           = Chips(ChipWith(32, 4, 0), ChipWith(40, 2, 0))
<1> DEFINE a0 == Uninitialised(a)
           b0 == Uninitialised(b)
           a1 == CommandWord(a0, 17)
           b1 == CommandWord(b0, 17)
           a2 == DataWord(a1, 32)
           b2 == DataWord(b1, 40)
           a3 == DataWord(a2, 4)
           b3 == DataWord(b2, 2)
           a4 == DataWord(a3, 1)
           b4 == DataWord(b3, 1)
           both(c, p, q, v, w) == outb(outb(c, p, v), q, w)
           c1 == both(Chips(a0, b0), PIC_A, PIC_B, 17, 17)
           c2 == both(c1, PIC_A_DATA, PIC_B_DATA, 32, 40)
           c3 == both(c2, PIC_A_DATA, PIC_B_DATA, 4, 2)
           c4 == both(c3, PIC_A_DATA, PIC_B_DATA, 1, 1)
<1>1. a4 = ChipWith(32, 4, 0) /\ b4 = ChipWith(40, 2, 0)
  BY ChipWired
<1>2. Wired(Chips(Uninitialised(a), Uninitialised(b))) = c4
  BY DEF Wired
<1>3. ASSUME NEW x, NEW y, NEW v, NEW w
      PROVE  /\ both(Chips(x, y), PIC_A, PIC_B, v, w)
                  = Chips(CommandWord(x, v), CommandWord(y, w))
             /\ both(Chips(x, y), PIC_A_DATA, PIC_B_DATA, v, w)
                  = Chips(DataWord(x, v), DataWord(y, w))
  BY OneChip
<1> HIDE DEF both
<1>4. c1 = Chips(a1, b1)
  BY <1>3
<1> HIDE DEF c1
<1>5. c2 = Chips(a2, b2)
  BY <1>3, <1>4
<1> HIDE DEF c2
<1>6. c3 = Chips(a3, b3)
  BY <1>3, <1>5
<1> HIDE DEF c3
<1>7. c4 = Chips(a4, b4)
  BY <1>3, <1>6
<1> HIDE DEF c4, a4, b4
<1> QED
  BY <1>1, <1>2, <1>7

\* setup_pic.
LEMMA PicSet ==
  ASSUME NEW a, NEW b, pic = Chips(Uninitialised(a), Uninitialised(b)), setup_pic
  PROVE  pic' = Chips(ChipWith(32, 4, Or(a, 248)), ChipWith(40, 2, Or(b, 47)))
<1> DEFINE chips(m, n) == Chips(ChipWith(32, 4, m), ChipWith(40, 2, n))
<1>1. Wired(pic) = chips(0, 0)
  BY WiredIs
<1>2. pic.A.mask = a /\ pic.B.mask = b
  BY DEF Uninitialised, Chips
<1>3. ASSUME NEW m, NEW n, NEW v
      PROVE  /\ outb(chips(m, n), PIC_A_DATA, v) = chips(v, n)
             /\ outb(chips(m, n), PIC_B_DATA, v) = chips(m, v)
             /\ chips(m, n).A.mask = m /\ chips(m, n).B.mask = n
  <2>1. chips(m, n).A.mask = m /\ chips(m, n).B.mask = n
    BY DEF ChipWith, Chips
  <2> QED
    BY <2>1, OneChip, ChipMasked
<1> HIDE DEF chips
<1>4. Masked(pic) = outb(outb(Wired(pic), PIC_A_DATA, a), PIC_B_DATA, b)
  BY <1>2 DEF Masked, Restored
<1>5. Masked(pic) = chips(a, b)
  BY <1>1, <1>3, <1>4
<1>6. PIC1_mask_irq(chips(a, b), 248) = chips(Or(a, 248), b)
  BY <1>3 DEF PIC1_mask_irq
<1>7. PIC2_mask_irq(chips(Or(a, 248), b), 47) = chips(Or(a, 248), Or(b, 47))
  BY <1>3 DEF PIC2_mask_irq
<1>8. pic' = PIC2_mask_irq(PIC1_mask_irq(Masked(pic), 248), 47)
  BY DEF setup_pic
<1> QED
  BY <1>5, <1>6, <1>7, <1>8 DEF chips

\* setup_idt.
LEMMA GatesSet ==
  ASSUME setup_idt
  PROVE  /\ DOMAIN idt' = (0 .. 47) \cup {127}
         /\ \A n \in (0 .. 31) \cup {127} : idt'[n].stub = <<"isr", n>>
         /\ \A n \in 32 .. 47 : idt'[n].stub = <<"irq", n - 32>>
         /\ \A n \in DOMAIN idt' : idt'[n].type_attr = \hEE <=> n = 127
<1> DEFINE StubOf(n) == IF n < 32 THEN <<"isr", n>> ELSE <<"irq", n - 32>>
<1>1. \A s, t : idt_descriptor(s, t).stub = s /\ idt_descriptor(s, t).type_attr = t
  BY DEF idt_descriptor
<1>2. Gates = [v \in 0 .. 47 |-> idt_descriptor(StubOf(v), 142)]
  BY DEF Gates
<1> DEFINE g == idt_descriptor(<<"isr", 127>>, 238)
<1> HIDE DEF g, StubOf
<1>3. idt' = [n \in {127} \cup DOMAIN Gates |-> IF n = 127 THEN g ELSE Gates[n]]
  BY DEF setup_idt, set_gate, g
<1>4. DOMAIN Gates = 0 .. 47 /\ \A n \in 0 .. 47 : Gates[n] = idt_descriptor(StubOf(n), 142)
  BY <1>2
<1>5. \A n \in 0 .. 47 : n # 127
  OBVIOUS
<1>6. DOMAIN idt' = (0 .. 47) \cup {127}
  BY <1>3, <1>4
<1>7. idt'[127] = g /\ \A n \in 0 .. 47 : idt'[n] = idt_descriptor(StubOf(n), 142)
  BY <1>3, <1>4, <1>5
<1>8. \A n \in 0 .. 47 : idt'[n].stub = StubOf(n) /\ idt'[n].type_attr = 142
  BY <1>1, <1>7
<1>9. idt'[127].stub = <<"isr", 127>> /\ idt'[127].type_attr = 238
  BY <1>1, <1>7 DEF g
<1>10. \A n \in 0 .. 31 : n \in 0 .. 47 /\ StubOf(n) = <<"isr", n>>
  BY DEF StubOf
<1>11. \A n \in 32 .. 47 : n \in 0 .. 47 /\ StubOf(n) = <<"irq", n - 32>>
  BY DEF StubOf
<1>12. \A n \in DOMAIN idt' : idt'[n].type_attr = 238 <=> n = 127
  BY <1>5, <1>6, <1>8, <1>9
<1>13. \A n \in (0 .. 31) \cup {127} : idt'[n].stub = <<"isr", n>>
  <2> TAKE n \in (0 .. 31) \cup {127}
  <2>1. CASE n = 127
    BY <1>9, <2>1
  <2>2. CASE n \in 0 .. 31
    BY <1>8, <1>10, <2>2
  <2> QED
    BY <2>1, <2>2
<1>14. \A n \in 32 .. 47 : idt'[n].stub = <<"irq", n - 32>>
  BY <1>8, <1>11
<1> QED
  BY <1>6, <1>12, <1>13, <1>14

\* Until setup_interrupts the controllers are the firmware's.
VectorsInv ==
  IF booted \in {"reset", "loader"}
  THEN bios \in Octet /\ pic = Chips(Uninitialised(bios.A), Uninitialised(bios.B))
  ELSE Vectors

LEMMA VectorsInitInv == ConsoleInit => VectorsInv
BY MasksAssumption DEF ConsoleInit, PicInit, VectorsInv, Octet, Byte8, Chips

\* setup_interrupts programs both controllers and fills the table.
LEMMA VectorsSet ==
  ASSUME bios \in Octet, pic = Chips(Uninitialised(bios.A), Uninitialised(bios.B)),
         setup_interrupts
  PROVE  Vectors'
<1> DEFINE a == Or(bios.A, 248)
           b == Or(bios.B, 47)
<1>1. bios' = bios /\ setup_pic /\ setup_idt /\ bios.A \in Byte8 /\ bios.B \in Byte8
  BY DEF setup_interrupts, Octet
<1>2. pic' = Chips(ChipWith(32, 4, a), ChipWith(40, 2, b))
  BY <1>1, PicSet
<1>3. /\ pic'.A.x86 = 1 /\ pic'.A.base = 32 /\ pic'.A.cascade = 4 /\ pic'.A.mask = a
      /\ pic'.B.x86 = 1 /\ pic'.B.base = 40 /\ pic'.B.cascade = 2 /\ pic'.B.mask = b
  <2> HIDE DEF a, b
  <2> QED
    BY <1>2 DEF Chips, ChipWith
<1>4. /\ \A k \in 0 .. 7 : Bit(a, k) = 1 <=> Bit(bios.A, k) = 1 \/ k > 2
      /\ \A k \in 0 .. 7 : Bit(b, k) = 1 <=> Bit(bios.B, k) = 1 \/ k \in {0, 1, 2, 3, 5}
      /\ a \in Byte8 /\ b \in Byte8
  BY <1>1, OrBits, Closed
<1> HIDE DEF a, b
<1>5. \A k \in 0 .. 7 : Bit(a, k) \in {0, 1} /\ Bit(b, k) \in {0, 1}
  BY <1>4 DEF Bit, Weight, Byte8
<1>6. ASSUME NEW n \in (0 .. 15) \ {2}, Open(n)'
      PROVE  n \in {0, 1, 12, 14, 15} /\ Vector(n)' = n + 32
  <2>1. CASE n < 8
    <3>1. n \in 0 .. 7 /\ Bit(a, n) = 0
      BY <1>3, <1>6, <2>1 DEF Open
    <3>2. n \in {0, 1}
      BY <1>4, <1>6, <3>1
    <3> QED
      BY <1>3, <2>1, <3>2 DEF Vector
  <2>2. CASE ~(n < 8)
    <3>1. n - 8 \in 0 .. 7 /\ Bit(b, n - 8) = 0
      BY <1>3, <1>6, <2>2 DEF Open
    <3>2. n - 8 \in {4, 6, 7}
      BY <1>4, <3>1
    <3>3. n \in {12, 14, 15}
      BY <3>2
    <3> QED
      BY <1>3, <2>2, <3>3 DEF Vector
  <2> QED
    BY <2>1, <2>2
<1>7. /\ \A n \in (0 .. 15) \ {2} : Arrives(n + 32, <<"irq", n>>)'
      /\ \A n \in (0 .. 31) \cup {127} : Arrives(n, <<"isr", n>>)'
      /\ \A n \in DOMAIN idt' : idt'[n].type_attr = \hEE <=> n = 127
  <2>1. \A n \in (0 .. 15) \ {2} : n + 32 \in 32 .. 47 /\ (n + 32) - 32 = n
    OBVIOUS
  <2>2. 32 .. 47 \subseteq DOMAIN idt' /\ (0 .. 31) \cup {127} \subseteq DOMAIN idt'
    BY <1>1, GatesSet
  <2>3. \A n \in (0 .. 15) \ {2} : idt'[n + 32].stub = <<"irq", n>>
    <3>1. \A m \in 32 .. 47 : idt'[m].stub = <<"irq", m - 32>>
      BY <1>1, GatesSet
    <3> QED
      BY <2>1, <3>1
  <2> QED
    BY <1>1, <2>1, <2>2, <2>3, GatesSet DEF Arrives
<1>8. Weight(Cascade) = 4 /\ Cascade = 2
  BY DEF Weight, Cascade
<1>9. /\ \A k \in 0 .. 7 :
           /\ Bit(pic'.A.mask, k) = 1 <=> Bit(bios'.A, k) = 1 \/ k > 2
           /\ Bit(pic'.B.mask, k) = 1 <=> Bit(bios'.B, k) = 1 \/ k \in {0, 1, 2, 3, 5}
  BY <1>1, <1>3, <1>4
<1> QED
  BY <1>3, <1>6, <1>7, <1>8, <1>9 DEF Vectors

LEMMA VectorsKept ==
  ASSUME VectorsInv, UNCHANGED <<bios, pic, idt>>,
         (booted \in {"reset", "loader"})' <=> booted \in {"reset", "loader"}
  PROVE  VectorsInv'
BY DEF VectorsInv, Vectors, Open, Vector, Arrives

LEMMA VectorsStep == VectorsInv /\ [ConsoleNext]_consoleVars => VectorsInv'
<1> SUFFICES ASSUME VectorsInv, [ConsoleNext]_consoleVars PROVE VectorsInv'
  OBVIOUS
<1>1. CASE Enter
  <2>1. VectorsInv /\ booted = "loader" /\ booted' = "kernel" /\ setup_interrupts
    BY <1>1 DEF Enter
  <2>2. Vectors'
    BY <2>1, VectorsSet DEF VectorsInv
  <2> QED
    BY <2>1, <2>2 DEF VectorsInv
<1>2. CASE serial_init \/ Load
  BY <1>2, VectorsKept DEF serial_init, Load, picVars
<1>3. CASE Info \/ Poll \/ Out
  BY <1>3, VectorsKept DEF Info, Poll, Out, picVars
<1>4. CASE Handle
  BY <1>4, VectorsKept DEF Handle, Call, HandlerPoll, HandlerOut, HandlerReturns, Leave, picVars
<1>5. CASE Transmit
  BY <1>5, VectorsKept DEF Transmit, picVars
<1>6. ASSUME NEW n, Raised(n) \/ Take(n) \/ Fault(n) PROVE VectorsInv'
  BY <1>6, VectorsKept DEF Raised, Take, Fault, picVars
<1>7. CASE UNCHANGED consoleVars
  BY <1>7, VectorsKept DEF consoleVars, picVars
<1> QED
  BY <1>1, <1>2, <1>3, <1>4, <1>5, <1>6, <1>7 DEF ConsoleNext, Thread

\* Whatever masks the firmware leaves: no interrupt is taken before the
\* controllers and the table are set up, and then every open line and every
\* exception arrives at its own stub, nothing the firmware had closed is
\* open, and user code has one gate, for as long as the system runs.
THEOREM InterruptsVectored == ConsoleSpec => []Vectored
<1>1. ConsoleInv /\ VectorsInv => Vectored
  BY DEF ConsoleInv, Contexts, VectorsInv, Vectored
<1> QED
  BY <1>1, ConsoleInvariant, VectorsInitInv, VectorsStep, PTL DEF ConsoleSpec
=============================================================================
