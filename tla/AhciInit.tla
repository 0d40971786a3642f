------------------------------- MODULE AhciInit --------------------------------
(***************************************************************************)
(* ahci::init (kernel/src/ahci/mod.rs): find the HBA, stop the first port   *)
(* with a disk, move its command list and received-FIS area to a frame of  *)
(* the driver, start it again and identify the disk; on failure try the    *)
(* next port.                                                              *)
(*                                                                         *)
(* The ports are external: CR follows ST after a while, and the HBA may    *)
(* use the command list as long as CR is set.  Ahci has the commands.      *)
(***************************************************************************)
EXTENDS Memory, Pci

CONSTANTS Ports,      \* how many ports (32 in the code)
          AHCI_REGS,  \* where the HBA has its registers
          FIRMWARE    \* memory that firmware gave to a device

VARIABLES
  apc,         \* step of init_inner
  port,        \* the port of the loop
  ctrl,        \* frame with command list, FIS area and command table
  ahci,        \* AHCI_CONTROLLER: port and frames of the driver, or None
  hba          \* per port: its registers and what is attached

ahciInitVars == <<apc, port, ctrl, ahci, hba>>

\* "absent" covers ports that are not implemented and ports without a device,
\* "atapi" is no disk, "slow" may answer, and follow ST, after the poll has run out,
\* "failing" never answers, and "stuck" does not let go of CR either.
PortKinds == {"absent", "atapi", "disk", "slow", "failing", "stuck"}

\* Firmware may have left a port running on memory of its own.
Port(kind, running) ==
  [kind |-> kind, st |-> running, fre |-> running, cr |-> running,
   list |-> IF running THEN FIRMWARE ELSE None, cmd |-> None, answered |-> FALSE]

Start(ports) ==
  /\ apc = "find" /\ port = 0 /\ ctrl = None /\ ahci = None
  /\ hba = ports

-----------------------------------------------------------------------------
(* The driver.                                                             *)

Class == "sata"

GiveUp == apc' = "done" /\ UNCHANGED <<port, ctrl, ahci, hba>>

NotFound == apc = "find" /\ find_by_class(Class) = None /\ GiveUp /\ UNCHANGED pciVars

\* As in NvmeInit.
Find ==
  /\ apc = "find"
  /\ find_by_class(Class) # None
  /\ enable_bus_mastering(find_by_class(Class))
  /\ apc' = LET bar == read_bar_address(find_by_class(Class), 5) IN
            IF bar = 0 THEN "done" ELSE IF bar = AHCI_REGS THEN "scan" ELSE "panic"
  /\ UNCHANGED <<port, ctrl, ahci, hba>>

Set(p, field, value) == hba' = [hba EXCEPT ![p][field] = value]

IsDisk(p) == hba[p].kind \notin {"absent", "atapi"}

\* Mutant: the loop does not advance.
SamePort == apc' = "scan" /\ UNCHANGED <<port, ctrl, ahci>>
NextPort == port' = port + 1 /\ apc' = "scan" /\ UNCHANGED <<ctrl, ahci>>

Skip ==
  /\ apc = "scan" /\ port < Ports /\ ~IsDisk(port)
  /\ NextPort /\ UNCHANGED hba

NoPort == apc = "scan" /\ port = Ports /\ GiveUp

\* stop_port: nothing to do if neither engine is on, else clear ST first.
Stop ==
  /\ apc = "scan" /\ port < Ports /\ IsDisk(port)
  /\ apc' = IF hba[port].st \/ hba[port].fre THEN "stopping" ELSE "setup"
  /\ Set(port, "st", FALSE)
  /\ UNCHANGED <<port, ctrl, ahci>>

\* Mutant: nobody waits for CR.
NoWait == TRUE
\* wait_cr: until CR is clear or the poll has run out; callers cannot tell.
WaitCr == ~hba[port].cr \/ hba[port].kind \in {"slow", "stuck"}

\* Then FRE may be cleared.
StopFis ==
  /\ apc = "stopping" /\ WaitCr
  /\ Set(port, "fre", FALSE)
  /\ apc' = "stopped"
  /\ UNCHANGED <<port, ctrl, ahci>>

Stopped ==
  /\ apc = "stopped" /\ WaitCr
  /\ apc' = "setup"
  /\ UNCHANGED <<port, ctrl, ahci, hba>>

\* CLB and FB point into a frame of the driver.
Setup ==
  /\ apc = "setup"
  /\ Allocate(<<"ahci">>)
  /\ ctrl' = Frame(1)
  /\ Set(port, "list", Frame(1))
  /\ apc' = "starting"
  /\ UNCHANGED <<port, ahci>>

\* start_port, the bounce frame, and the IDENTIFY command in slot 0.
StartPort ==
  /\ apc = "starting" /\ WaitCr
  /\ Allocate(<<"ahci">>)
  /\ hba' = [hba EXCEPT ![port].st = TRUE, ![port].fre = TRUE,
                        ![port].cmd = [list |-> ctrl, buffer |-> Frame(1)]]
  /\ apc' = "identify"
  /\ UNCHANGED <<port, ctrl, ahci>>

\* The disk answered: this is the port the driver keeps.
Identified ==
  /\ apc = "identify"
  /\ hba[port].answered
  /\ Set(port, "answered", FALSE)
  /\ ahci' = [port |-> port, ctrl |-> ctrl]
  /\ apc' = "done"
  /\ UNCHANGED <<port, ctrl>>

\* An error or a poll that ran out: on with the next port.
IdentifyFails ==
  /\ apc = "identify"
  /\ ~hba[port].answered
  /\ hba[port].kind # "disk" \/ ~Masters(Class)
  /\ NextPort /\ UNCHANGED hba

OutOfFrames ==
  /\ apc = "setup" \/ (apc = "starting" /\ WaitCr)
  /\ ~Enough(1)
  /\ apc' = "panic"
  /\ UNCHANGED <<port, ctrl, ahci, hba>>

-----------------------------------------------------------------------------
(* The HBA (external).                                                     *)

FollowSt(p) ==
  /\ hba[p].cr # hba[p].st
  /\ hba[p].kind # "stuck"
  /\ Set(p, "cr", hba[p].st)
  /\ UNCHANGED <<apc, port, ctrl, ahci>>

\* The HBA takes the command from the list it was given.
Execute(p) ==
  /\ hba[p].cr /\ hba[p].fre /\ Masters(Class)
  /\ hba[p].cmd # None
  /\ hba[p].kind \notin {"failing", "stuck"}
  /\ hba[p].list = hba[p].cmd.list
  /\ hba' = [hba EXCEPT ![p].cmd = None, ![p].answered = TRUE]
  /\ UNCHANGED <<apc, port, ctrl, ahci>>

-----------------------------------------------------------------------------
Driver ==
  \/ (NotFound \/ Find) /\ UNCHANGED memVars
  \/ (Skip \/ NoPort \/ Stop \/ StopFis \/ Stopped) /\ UNCHANGED <<memVars, pciVars>>
  \/ (Identified \/ IdentifyFails \/ OutOfFrames) /\ UNCHANGED <<memVars, pciVars>>
  \/ (Setup \/ StartPort) /\ UNCHANGED pciVars

Controller ==
  /\ \E p \in DOMAIN hba : FollowSt(p) \/ Execute(p)
  /\ UNCHANGED <<memVars, pciVars>>

-----------------------------------------------------------------------------
\* A driver that is there has a running port, with nothing issued, that uses the
\* command list of the driver.  This is where Ahci starts from.
AhciReady ==
  ahci # None =>
    LET p == hba[ahci.port] IN
    /\ p.st /\ p.fre /\ p.cr
    /\ p.cmd = None /\ ~p.answered
    /\ p.list = ahci.ctrl

\* A port is cut off from its FIS area, and its command list is moved, only when
\* it has finished what it was doing (mod.rs:123-125), unless it takes longer than
\* the poll, which ends in silence (mod.rs:105-114).
MovedWhenIdle ==
  [][\A p \in DOMAIN hba :
       /\ hba[p].kind \notin {"slow", "stuck"}
       /\ \/ hba'[p].list # hba[p].list
          \/ hba[p].fre /\ ~hba'[p].fre
       => ~hba[p].cr]_hba
===============================================================================
