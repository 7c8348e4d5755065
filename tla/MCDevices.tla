----------------------------- MODULE MCDevices -----------------------------
(* The two probes of devices: load of the ata module, with every drive at   *)
(* each of the four places (none, a disk, a packet device, one that answers *)
(* with an error) and buses nothing is on; and pci_init, on two buses of    *)
(* two devices of up to three functions: absent, with one function, one     *)
(* that answers for all, several with or without a gap.                     *)
EXTENDS Devices

VARIABLE prober  \* which of the two runs

MCKinds == {"none", "ata", "atapi", "faulty"}

\* Words of a function are told apart; register 3 has the multifunction bit.
Registers(at, multi) ==
  LET word == 1000 + 400 * at[1] + 200 * at[2] + 40 * at[3] IN
  [n \in 0 .. 9 |-> <<word + 2 * n, IF n = 3 THEN (IF multi THEN 128 ELSE 0)
                                    ELSE word + 2 * n + 1>>]
MCDevicePlaces == (0 .. 1) \X (0 .. 1)

\* The functions of a device, and those it answers for.
OneDevice ==
  {[functions |-> {}, multi |-> FALSE], [functions |-> {0}, multi |-> FALSE],
   [functions |-> {0, 1, 2}, multi |-> FALSE], [functions |-> {0}, multi |-> TRUE],
   [functions |-> {0, 1}, multi |-> TRUE], [functions |-> {0, 2}, multi |-> TRUE],
   [functions |-> {0, 1, 2}, multi |-> TRUE]}
Answers(devices) == UNION {{<<p[1], p[2], f>> : f \in devices[p].functions} : p \in MCDevicePlaces}
MCConfigs ==
  {[at \in Answers(devices) |-> Registers(at, devices[<<at[1], at[2]>>].multi)] :
     devices \in [MCDevicePlaces -> OneDevice]}
pci == <<config, step, bus, device, function, pci_devices>>
MCVars == <<vars, pci, prober>>

MCInit ==
  \/ prober = "ata" /\ P!Init /\ config = <<>> /\ Init
  \/ prober = "pci" /\ Init /\ (\A p \in Places : kind[p] = "none")
                    /\ (\A b \in {0, 1} : ~floats[b]) /\ P!Init
Load == prober = "ata" /\ load /\ UNCHANGED <<pci, prober>>
Drive == prober = "ata" /\ Answer /\ UNCHANGED <<pci, prober>>
Enumerate == prober = "pci" /\ P!Next /\ UNCHANGED <<vars, prober>>

MCSpec == MCInit /\ [][Load \/ Drive \/ Enumerate]_MCVars
                 /\ WF_MCVars(Load) /\ WF_MCVars(Drive)

\* load returns, unless it waits for a bus that nothing is on.
LoadReturns == prober = "ata" => Returns
=============================================================================
