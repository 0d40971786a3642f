--------------------------------- MODULE Boot ---------------------------------
(***************************************************************************)
(* kernel_main from the memory map to the enabling of interrupts           *)
(* (kernel/src/main.rs): the heap, the PCI scan, the two disk controllers, *)
(* the choice between them (storage.rs), and the PS/2 controller.          *)
(*                                                                         *)
(* The kernel is one thread of control here, interrupts are off.  The      *)
(* devices are not: they go on by themselves while it polls them.  A       *)
(* machine is what boot finds; it is chosen once, in Init.                 *)
(***************************************************************************)
EXTENDS Memory, Pci

CONSTANTS Machines,              \* the machines to boot, see BootOn
          TABLE_FRAMES,          \* which of the heap's frames become page tables
          Ports, NVME_REGS, AHCI_REGS, FIRMWARE,  \* see AhciInit, NvmeInit
          MaxStrays              \* see Ps2Init

TABLES == Cardinality(TABLE_FRAMES)

ASSUME BootAssumption ==
  /\ TABLES \in Nat /\ TABLE_FRAMES \subseteq 2 .. HEAP_PAGES + TABLES
  /\ Ports \in Nat /\ MaxStrays \in Nat
  /\ HEAP_PAGES >= 2
  /\ NVME_REGS # 0 /\ AHCI_REGS # 0

VARIABLES
  stage,    \* how far kernel_main is
  storage,  \* storage.rs, BACKEND: "nvme", "ahci" or None
  \* nvme::init
  npc, nvme, frames, cc_en, csts_rdy, queues, pending, answer, nvmeKind,
  \* ahci::init
  apc, port, ctrl, ahci, hba,
  \* ps2::init
  ppc, dev, step, more, first, config, dual, works, mouse_type, ctl, out, todo,
  speaks, wired, sent, strays, late

Nv == INSTANCE NvmeInit
Ah == INSTANCE AhciInit
Ps2 == INSTANCE Ps2Init

nvmeVars == <<npc, nvme, frames, cc_en, csts_rdy, queues, pending, answer, nvmeKind>>
ahciVars == <<apc, port, ctrl, ahci, hba>>
ps2Vars == <<ppc, dev, step, more, first, config, dual, works, mouse_type, ctl, out,
             todo, speaks, wired, sent, strays, late>>
vars == <<stage, storage, memVars, pciVars, nvmeVars, ahciVars, ps2Vars>>

StorageClasses == {"nvme", "sata"}

\* A disk controller: its base address, and where its registers are.
Bar(class) == IF class = "nvme" THEN 0 ELSE 5
Regs(class) == IF class = "nvme" THEN NVME_REGS ELSE AHCI_REGS

\* There is one disk controller of a class at most.  It is no bridge, its registers are
\* in memory, and where firmware gave it an address it also decodes it (external).
SoundStorage(space) ==
  \A class \in StorageClasses :
    /\ \A at, other \in OfClass(space, class) : at = other
    /\ \A at \in OfClass(space, class) :
         /\ space[at].header = 0 /\ space[at].bars[Bar(class)] % 2 = 0
         /\ Decodes(space[at], Bar(class)) \in {0, Regs(class)}
         /\ Decodes(space[at], Bar(class)) # 0 => "memory" \in space[at].command

\* What can be said of any machine.
ASSUME MachinesAssumption ==
  \A m \in Machines :
    /\ SoundMap(m.map)
    /\ SoundSpace(m.pci) /\ SoundStorage(m.pci)
    /\ m.nvme \in Nv!Kinds
    /\ \A p \in 1 .. Ports : m.ports[p] \in Ah!PortKinds
    /\ m.wired \in Ps2!Wirings
    /\ {m.running, m.stale, m.talking} \subseteq BOOLEAN

\* None is none of the things it stands in for.
ASSUME NoneAssumption ==
  /\ None \notin {"ok", "error", "nvme", "ahci"}
  /\ None \notin Nat
  /\ None \notin [Nv!Uses -> Nat]
  /\ None \notin [port : Nat, ctrl : Nat]

BootOn(m) ==
  /\ stage = "heap" /\ storage = None
  /\ MemoryInit(m.map)
  /\ config_space = m.pci /\ pci_devices = <<>>
  /\ Nv!Start(m.nvme, m.running)
  /\ Ah!Start([p \in 0 .. Ports - 1 |-> Ah!Port(m.ports[p + 1], m.running)])
  /\ Ps2!Start(m.wired, m.stale, m.talking)

Init == \E m \in Machines : BootOn(m)

-----------------------------------------------------------------------------
\* init_heap; what fails panics.
InitHeap ==
  /\ stage = "heap"
  /\ IF Enough(HEAP_PAGES + TABLES)
     THEN Allocate(HeapUsers(TABLE_FRAMES)) /\ stage' = "pci"
     ELSE UNCHANGED memVars /\ stage' = "panic"
  /\ UNCHANGED <<storage, pciVars, nvmeVars, ahciVars, ps2Vars>>

InitPci ==
  /\ stage = "pci"
  /\ Scan
  /\ stage' = "ahci"
  /\ UNCHANGED <<storage, memVars, nvmeVars, ahciVars, ps2Vars>>

\* A driver goes on to the next stage when it is done.
Then(pc, following) ==
  stage' = IF pc = "done" THEN following ELSE IF pc = "panic" THEN "panic" ELSE stage

InitAhci ==
  /\ stage = "ahci"
  /\ Ah!Driver
  /\ Then(apc', "nvme")
  /\ UNCHANGED <<storage, nvmeVars, ps2Vars>>

InitNvme ==
  /\ stage = "nvme"
  /\ Nv!Driver
  /\ Then(npc', "storage")
  /\ UNCHANGED <<storage, ahciVars, ps2Vars>>

InitStorage ==
  /\ stage = "storage"
  /\ storage' = IF nvme # None THEN "nvme" ELSE IF ahci # None THEN "ahci" ELSE None
  /\ stage' = "ps2"
  /\ UNCHANGED <<memVars, pciVars, nvmeVars, ahciVars, ps2Vars>>

InitPs2 ==
  /\ stage = "ps2"
  /\ Ps2!Driver
  /\ Then(ppc', "run")
  /\ UNCHANGED <<storage, memVars, pciVars, nvmeVars, ahciVars>>

Kernel == InitHeap \/ InitPci \/ InitAhci \/ InitNvme \/ InitStorage \/ InitPs2

Ahci == Ah!Controller /\ UNCHANGED <<stage, storage, nvmeVars, ps2Vars>>
Nvme == Nv!Controller /\ UNCHANGED <<stage, storage, ahciVars, ps2Vars>>

Byte(d) ==
  Ps2!Deliver(d) /\ UNCHANGED <<stage, storage, memVars, pciVars, nvmeVars, ahciVars>>
Stray(d) ==
  Ps2!Stray(d) /\ UNCHANGED <<stage, storage, memVars, pciVars, nvmeVars, ahciVars>>

Next == Kernel \/ Ahci \/ Nvme \/ \E d \in Ps2!Devs : Byte(d) \/ Stray(d)

Spec == Init /\ [][Next]_vars

\* The kernel runs, its polls end, and a device does what it has to do.
Fairness ==
  /\ WF_vars(Kernel)
  /\ WF_vars(Ahci) /\ WF_vars(Nvme)
  /\ \A d \in Ps2!Devs : WF_vars(Byte(d))

FairSpec == Spec /\ Fairness

-----------------------------------------------------------------------------
(* Properties.                                                             *)

\* What the configuration space holds, whatever the scan made of it: a function with
\* an address where its driver looks for one.
Offers(class) ==
  \E at \in OfClass(config_space, class) : Decodes(config_space[at], Bar(class)) # 0

IsGood(p) == hba[p].kind = "disk"

\* Boot finds the disk that there is: a good NVMe controller behind any function
\* of any device, else the first good SATA port behind ones that fail or are
\* late (storage.rs:19-34); and it panics for want of memory only.
BackendFound ==
  /\ stage = "panic" => ~Enough(HEAP_PAGES + TABLES)
  /\ stage \in {"ps2", "run"} =>
       /\ storage = "nvme" => Offers("nvme") /\ nvmeKind \in {"good", "slow"}
       /\ Offers("nvme") /\ nvmeKind = "good" => storage = "nvme"
       /\ storage = "ahci" =>
            /\ Offers("sata") /\ hba[ahci.port].kind \in {"disk", "slow"}
            /\ \A p \in DOMAIN hba : p < ahci.port => ~IsGood(p)
       /\ storage = None => ~(Offers("sata") /\ \E p \in DOMAIN hba : IsGood(p))

\* What the drivers keep is what the devices are doing when the kernel runs, each
\* on frames that were handed out for it (see NvmeReady and AhciReady).
BackendReady ==
  /\ stage \in {"storage", "ps2", "run"} => Nv!NvmeReady /\ Ah!AhciReady
  /\ nvme # None =>
       \A u \in Nv!Uses : [frame |-> nvme[u], user |-> "nvme"] \in ToSet(granted)
  /\ ahci # None => [frame |-> ahci.ctrl, user |-> "ahci"] \in ToSet(granted)

MovedWhenIdle == Ah!MovedWhenIdle
AnswersInStep == Ps2!AnswersInStep
PortsConfigured == Ps2!PortsConfigured
DevicesReady == Ps2!DevicesReady

\* Boot comes to an end, whatever keys are pressed and however late a device is,
\* if both devices are there.  With one missing it has to be left in peace: a byte
\* out of step makes init_keyboard and log_ack wait for one that never comes
\* (ps2/mod.rs:212, 323).  Without an 8042, of which ps2::init only warns, boot ends
\* if memory runs out before, else it waits for ever where the port's status says
\* so: to send the first command, or for the answer to the second (mod.rs:204, 208).
HangsIn(wait) == stage = "ps2" /\ ppc = wait

BootEnds ==
  IF Ps2!Present
  THEN <>(stage \in {"run", "panic"} \/ (~Ps2!Calm /\ \E d \in Ps2!Devs : wired[d] = "absent"))
  ELSE \/ <>(stage = "panic")
       \/ <>[]HangsIn(IF wired.i8042 = "ones" THEN "start" ELSE "configure")
===============================================================================
