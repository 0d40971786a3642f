---------------------------------- MODULE Pci ----------------------------------
(***************************************************************************)
(* PCI configuration space as kernel/src/pci.rs sees it: reads and writes  *)
(* of whole double words, narrower ones built from them, the scan for      *)
(* functions at boot, base addresses and the bus-master bit.               *)
(*                                                                         *)
(* A function is external: a record of the registers that are read, with   *)
(* its command register as a set of bits.  A double word of a base address *)
(* has WORD values, and an address is built from one or two of them.       *)
(***************************************************************************)
EXTENDS Naturals, Sequences, SequencesExt

CONSTANTS BUSES, DEVICES, FUNCTIONS,  \* how many of each (256, 32 and 8 in the code)
          WORD,                       \* values of a double word (2^32 in the code)
          None

ASSUME PciAssumption ==
  /\ {BUSES, DEVICES, FUNCTIONS} \subseteq Nat \ {0}
  /\ WORD \in Nat \ {0}

VARIABLES
  config_space,  \* per <<bus, device, function>>: its registers, or None
  pci_devices    \* PCI_DEVICES, in the order of the scan

pciVars == <<config_space, pci_devices>>

\* Where functions can be, the registers of one, and what drivers are told of it.
Slots == (0 .. BUSES - 1) \X (0 .. DEVICES - 1) \X (0 .. FUNCTIONS - 1)
Registers ==
  [class : STRING, multi : BOOLEAN, header : Nat, bars : [0 .. 5 -> 0 .. WORD - 1],
   command : SUBSET {"memory", "bus_master"}]
PciDevice ==
  [at : Slots, class : STRING, multi : BOOLEAN, header : Nat, bars : [0 .. 5 -> 0 .. WORD - 1]]

ASSUME NoDeviceAssumption == None \notin Registers \cup PciDevice

OfClass(space, class) == {at \in Slots : space[at] # None /\ space[at].class = class}

\* A configuration space as there are: a device has a first function if it has any,
\* which says whether there are others (external).
SoundSpace(space) ==
  /\ space \in [Slots -> Registers \cup {None}]
  /\ \A at \in Slots : at[3] # 0 /\ space[at] # None =>
       space[<<at[1], at[2], 0>>] # None /\ space[<<at[1], at[2], 0>>].multi

\* Where a function decodes the memory of base address i, zero if nowhere: a wide one
\* (type 2) takes the next register for its upper half, and there is none after
\* the last (external).
Decodes(r, i) ==
  LET low == (r.bars[i] \div 16) * 16 IN
  IF i < 5 /\ (r.bars[i] \div 2) % 4 = 2 THEN r.bars[i + 1] * WORD + low ELSE low

-----------------------------------------------------------------------------
\* read_device takes what the scan needs to know; a vendor of 0xFFFF is nobody.
read_device(b, d, f) ==
  IF config_space[<<b, d, f>>] = None THEN <<>>
  ELSE LET r == config_space[<<b, d, f>>] IN
       <<[at |-> <<b, d, f>>, class |-> r.class, multi |-> r.multi, header |-> r.header,
          bars |-> [i \in 0 .. 5 |-> IF r.header = 0 \/ i < 2 THEN r.bars[i] ELSE 0]]>>

\* Mutant: the functions behind the first one are left out.
ScanFirst(b, d) == read_device(b, d, 0)

\* The functions of one device: the others are looked for only if the first one
\* says that there are several.
ScanDevice(b, d) ==
  LET first == read_device(b, d, 0) IN
  IF first = <<>> \/ ~first[1].multi THEN first
  ELSE first \o FlattenSeq([f \in 1 .. FUNCTIONS - 1 |-> read_device(b, d, f)])

scan_all ==
  FlattenSeq([b \in 1 .. BUSES |->
    FlattenSeq([d \in 1 .. DEVICES |-> ScanDevice(b - 1, d - 1)])])

Scan == pci_devices' = scan_all /\ UNCHANGED config_space

\* The first device of a class, the only one that drivers ask for.
find_by_class(class) ==
  LET found == {i \in DOMAIN pci_devices : pci_devices[i].class = class} IN
  IF found = {} THEN None
  ELSE pci_devices[CHOOSE i \in found : \A j \in found : i <= j]

\* The address in a base address register: bit 0 says port or memory, bits 1
\* and 2 the width, and a wide one goes on in the next register.
read_bar_address(dev, i) ==
  LET bar == dev.bars[i]
      base == (bar \div 16) * 16
  IN  IF i >= 6 THEN 0
      ELSE IF bar % 2 = 1 THEN (bar \div 4) * 4
      ELSE IF (bar \div 2) % 4 = 2 /\ i < 5 THEN base + WORD * dev.bars[i + 1]
      ELSE base

\* A function is reached, and reaches memory, only with these bits set (external).
Masters(class) ==
  \E at \in OfClass(config_space, class) :
    {"memory", "bus_master"} \subseteq config_space[at].command

enable_bus_mastering(dev) ==
  /\ config_space' = [config_space EXCEPT ![dev.at].command = @ \cup {"bus_master"}]
  /\ UNCHANGED pci_devices
===============================================================================
