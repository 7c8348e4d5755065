------------------------------ MODULE Devices ------------------------------
(***************************************************************************)
(* The two probes of devices, of the ata module and of the PCI buses, and  *)
(* what is on those buses: function 0 is in every device, a function that  *)
(* answers has a vendor, and its registers are pairs of words.             *)
(***************************************************************************)
EXTENDS Ata

CONSTANTS Configs, Buses, Slots, Functions, ArraySize, Ones  \* Pci's

VARIABLES config, step, bus, device, function, pci_devices   \* Pci's

PciPlaces == (0 .. Buses - 1) \X (0 .. Slots - 1) \X (0 .. Functions - 1)
ConfigWords == 0 .. Ones
Headers == 0 .. 9  \* the registers up to PCI_BAR5's

ASSUME DevicesAssumption ==
  /\ Buses \in Nat \ {0} /\ Slots \in Nat \ {0} /\ Functions \in Nat \ {0, 1}
  /\ Ones \in Nat
  /\ \A c \in Configs :
       /\ DOMAIN c \subseteq PciPlaces
       /\ \A at \in DOMAIN c :
            /\ c[at] \in [Headers -> ConfigWords \X ConfigWords]
            /\ c[at][0][1] # Ones
            /\ <<at[1], at[2], 0>> \in DOMAIN c

P == INSTANCE Pci WITH pc <- step

\* pci_init finds each function once and describes it by its registers.
FunctionsEnumerated == P!Enumerated

\* DYN_ARRAY_ADD makes room for what it stores: no device is written behind
\* the memory of pci_devices.
ArrayFits == P!Fits(pci_devices)
=============================================================================
