-------------------------------- MODULE MCBoot --------------------------------
(* Machines for Boot: a good one, and those with something wrong in one part:  *)
(* the memory, where the disk controllers are, what they are, or PS/2.  The     *)
(* other parts of such a machine are as few as possible.                       *)
EXTENDS Boot

CONSTANT FRAMES  \* usable frames of a machine that has enough

\* Memory of n usable frames, in two regions of whole pages.
Map(n) == <<[kind |-> "usable", start |-> 0, end |-> 2 * PAGE],
            [kind |-> "bootloader", start |-> 2 * PAGE, end |-> 3 * PAGE],
            [kind |-> "usable", start |-> 3 * PAGE, end |-> (n + 1) * PAGE]>>

Bars(low, high) ==
  [i \in 0 .. 5 |-> IF i = 0 THEN low ELSE IF i = 1 THEN high ELSE IF i = 5 THEN AHCI_REGS ELSE 0]

Function(class, multi, low, high) ==
  [class |-> class, multi |-> multi, header |-> 0, bars |-> Bars(low, high),
   command |-> {"memory"}]

\* The NVMe controller's base address is 64 bits wide.
NVME == Function("nvme", FALSE, (NVME_REGS % WORD) + 4, NVME_REGS \div WORD)
SATA == Function("sata", FALSE, 0, 0)
BRIDGE == Function("other", TRUE, 0, 0)
Pci(functions) == functions @@ [at \in Slots |-> None]

BothDisks == Pci(<<0, 0, 0>> :> BRIDGE @@ <<0, 0, 1>> :> SATA @@ <<0, 0, 2>> :> NVME)
NoDisks == Pci(<<>>)

\* Other places for them, each by itself, and a controller without an address.
Configs ==
  {BothDisks, NoDisks,
   Pci(<<0, 0, 0>> :> SATA @@ <<0, 1, 0>> :> NVME),
   Pci(<<0, 1, 0>> :> BRIDGE @@ <<0, 1, 2>> :> NVME),
   Pci(<<0, 0, 0>> :> BRIDGE @@ <<0, 0, 1>> :> SATA),
   Pci(<<0, 1, 0>> :> [NVME EXCEPT !.bars[0] = 4, !.bars[1] = 0])}

GoodWiring == [i8042 |-> "present", kbd |-> "mf2", mouse |-> "wheel", slow |-> FALSE,
               ports |-> {"kbd", "mouse"}, irqs |-> {"irq1", "irq12"}]

Good == [map |-> Map(FRAMES), pci |-> BothDisks, nvme |-> "good", running |-> TRUE,
         ports |-> <<"disk", "absent">>, wired |-> GoodWiring, stale |-> FALSE,
         talking |-> FALSE]

\* What the firmware did about PS/2 is all or nothing.
Wirings == {w \in Ps2!Wirings : w.irqs \in {{}, {"irq1", "irq12"}}}
NoPorts == [GoodWiring EXCEPT !.ports = {}]

MCMachines ==
  {Good} \cup
  {[Good EXCEPT !.wired = NoPorts, !.map = Map(n)] : n \in 2 .. FRAMES} \cup
  {[Good EXCEPT !.wired = NoPorts, !.pci = c] : c \in Configs} \cup
  {[Good EXCEPT !.wired = NoPorts, !.nvme = k, !.running = r, !.ports = p] :
     k \in Nv!Kinds, r \in BOOLEAN, p \in Ah!PortKinds \X Ah!PortKinds} \cup
  {[Good EXCEPT !.pci = NoDisks, !.wired = w, !.stale = s, !.talking = s] :
     w \in Wirings, s \in BOOLEAN}
===============================================================================
