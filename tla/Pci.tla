-------------------------------- MODULE Pci --------------------------------
(***************************************************************************)
(* pci_init (src/kernel/src/dev/pci.c): every function of every device on  *)
(* every bus is asked for its vendor, and what is there is put in          *)
(* pci_devices.                                                            *)
(*                                                                         *)
(* A function's configuration space is its 32-bit registers, each a pair   *)
(* of its low and its high word.  A word is read by writing an address to  *)
(* one port and reading the other.  An element of pci_devices reads as it  *)
(* was stored, though the store of the last one that INIT_DYN_ARRAY made   *)
(* room for goes behind what DYN_ARRAY_ADD has left (Devices, ArrayFits).  *)
(***************************************************************************)
EXTENDS Integers, Sequences, DynArray

CONSTANTS Configs,    \* what may be on the buses: functions to registers
          Buses,      \* 256
          Slots,      \* 32
          Functions,  \* 8
          ArraySize,  \* 256
          Ones        \* 0xFFFF

VARIABLES config,     \* registers of each function that answers
          pc,
          bus, device, function,
          pci_devices

vars == <<config, pc, bus, device, function, pci_devices>>

Init ==
  /\ config \in Configs
  /\ pc = "start" /\ bus = 0 /\ device = 0 /\ function = 0
  /\ pci_devices = Uninitialized

\* What the second port says after that address: all ones where nothing is.
Register(b, s, f, n) ==
  IF <<b, s, f>> \in DOMAIN config THEN config[<<b, s, f>>][n] ELSE <<Ones, Ones>>

\* The register of the offset, and one of its words.
WordOf(offset) == (offset % 4) \div 2 + 1
pci_config_read_word(b, s, f, offset) == Register(b, s, f, offset \div 4)[WordOf(offset)]

PCI_VENDOR(b, s, f) == pci_config_read_word(b, s, f, 0)
PCI_DEVICE(b, s, f) == pci_config_read_word(b, s, f, 2)
PCI_CLASS(b, s, f) == pci_config_read_word(b, s, f, 11) \div 256
PCI_SUBCLASS(b, s, f) == pci_config_read_word(b, s, f, 11) % 256
PCI_IS_MULTIFUNCT(b, s, f) == (pci_config_read_word(b, s, f, 14) \div 128) % 2 = 1

\* PCI_BAR0 to PCI_BAR5: the offsets of their low and high words.
Low == <<16, 20, 24, 28, 32, 36>>
High == <<18, 22, 18, 26, 34, 38>>
PCI_BAR(n, b, s, f) ==
  <<pci_config_read_word(b, s, f, Low[n]), pci_config_read_word(b, s, f, High[n])>>

\* A pci_device_t; at, which the program has not, is the function it is of.
Device(b, s, f) ==
  [at |-> <<b, s, f>>,
   vendor |-> PCI_VENDOR(b, s, f), device |-> PCI_DEVICE(b, s, f),
   class_code |-> PCI_CLASS(b, s, f), subclass_code |-> PCI_SUBCLASS(b, s, f),
   bars |-> [n \in 1 .. 6 |-> PCI_BAR(n, b, s, f)]]

-----------------------------------------------------------------------------

pci_init ==
  /\ pc = "start"
  /\ pci_devices' = INIT_DYN_ARRAY(ArraySize)
  /\ pc' = "device"
  /\ UNCHANGED <<config, bus, device, function>>

pci_enumerate_function(f) == pci_devices' = DYN_ARRAY_ADD(pci_devices, Device(bus, device, f))

NextDevice ==
  /\ device' = (device + 1) % Slots
  /\ bus' = IF device + 1 = Slots THEN bus + 1 ELSE bus
  /\ pc' = IF bus' = Buses THEN "done" ELSE "device"

\* pci_enumerate_device
AbsentDevice ==
  /\ pc = "device" /\ PCI_VENDOR(bus, device, 0) = Ones
  /\ NextDevice
  /\ UNCHANGED <<config, function, pci_devices>>

AnyFunctions(b, s) == TRUE
HasFunctions(b, s) == PCI_IS_MULTIFUNCT(b, s, 0)
FirstFunction ==
  /\ pc = "device" /\ PCI_VENDOR(bus, device, 0) # Ones
  /\ pci_enumerate_function(0)
  /\ \/ HasFunctions(bus, device) /\ pc' = "functions" /\ function' = 1
        /\ UNCHANGED <<bus, device>>
     \/ ~HasFunctions(bus, device) /\ NextDevice /\ UNCHANGED function
  /\ UNCHANGED config

NextFunction ==
  /\ function' = function + 1
  /\ IF function + 1 = Functions THEN NextDevice ELSE UNCHANGED <<pc, bus, device>>

OtherFunction ==
  /\ pc = "functions" /\ PCI_VENDOR(bus, device, function) # Ones
  /\ pci_enumerate_function(function)
  /\ NextFunction
  /\ UNCHANGED config

AbsentFunction ==
  /\ pc = "functions" /\ PCI_VENDOR(bus, device, function) = Ones
  /\ NextFunction
  /\ UNCHANGED <<config, pci_devices>>

Next == \/ pci_init \/ AbsentDevice \/ FirstFunction
        \/ OtherFunction \/ AbsentFunction

Spec == Init /\ [][Next]_vars

-----------------------------------------------------------------------------
(* Properties                                                              *)

TypeOK ==
  /\ pc \in {"start", "device", "functions", "done"}
  /\ bus \in 0 .. Buses /\ device \in 0 .. Slots - 1 /\ function \in 0 .. Functions
  /\ (pc # "done" => bus < Buses)

\* The functions that are there: function 0 is in every device, and a device
\* of one function may answer for the others too.
Real ==
  {at \in DOMAIN config :
     at[3] = 0 \/ (config[<<at[1], at[2], 0>>][3][2] \div 128) % 2 = 1}

\* An entry says what its own function is: vendor and device are register 0,
\* class and subclass the high half of register 2.  bar2 and bar3 are left
\* out, whose upper halves are those of bar0 and bar2.
Identified(entry) ==
  LET own == config[entry.at] IN
  /\ <<entry.vendor, entry.device>> = own[0]
  /\ entry.class_code * 256 + entry.subclass_code = own[2][2]
  /\ entry.bars[1] = own[4] /\ entry.bars[2] = own[5]
  /\ entry.bars[5] = own[8] /\ entry.bars[6] = own[9]

\* Typed; and pci_devices gets every function that is there, once, described
\* by its own registers, and nothing that only answers, nor anything where
\* nothing is.
Enumerated ==
  LET items == pci_devices.items IN
  /\ TypeOK
  /\ \A m, n \in DOMAIN items : items[m].at = items[n].at => m = n
  /\ \A m \in DOMAIN items : items[m].at \in Real
  /\ pc = "done" => Real \subseteq {items[m].at : m \in DOMAIN items}
  /\ \A m \in DOMAIN items : Identified(items[m])
=============================================================================
