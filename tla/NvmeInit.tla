------------------------------- MODULE NvmeInit --------------------------------
(***************************************************************************)
(* nvme::init (kernel/src/nvme/mod.rs): reset the controller, give it the   *)
(* admin queues, and create the I/O queue pair with three admin commands,  *)
(* each submitted and waited for.  Any failure leaves no controller.       *)
(*                                                                         *)
(* The controller is external.  With at most one admin command at a time   *)
(* and fewer of them than a ring has entries, a ring is no more than the   *)
(* command in it and its answer; Nvme has the rings themselves.            *)
(***************************************************************************)
EXTENDS Memory, Pci

CONSTANTS NVME_REGS,  \* where the controller has its registers
          FIRMWARE    \* memory that firmware gave to a device

VARIABLES
  npc,      \* step of init_inner
  nvme,     \* NVME_CONTROLLER: the frames of the driver, or None
  frames,   \* frames allocated so far, by what they are for
  cc_en, csts_rdy, queues,  \* controller: enabled, ready, the queues it knows
  pending, answer,          \* admin command in the ring, its completion
  nvmeKind  \* what controller it is, see Kinds

driverVars == <<npc, nvme, frames>>
ctlVars == <<cc_en, csts_rdy, queues, pending, answer, nvmeKind>>
nvmeInitVars == <<npc, nvme, frames, ctlVars>>

\* "small" allows no ring of QUEUE_SIZE entries, "mute" is never ready, "slow"
\* may answer after the poll has run out.
Kinds == {"good", "small", "mute", "slow"}

\* What frames are for, and those of them that are queues; None while there is none.
Uses == {"asq", "acq", "identify", "iocq", "iosq", "bounce"}
Queues == {"asq", "acq", "iocq", "iosq"}
NoFrames == [u \in Uses |-> None]
NoQueues == [q \in Queues |-> None]
Firmware == [NoQueues EXCEPT !.asq = FIRMWARE, !.acq = FIRMWARE]

\* Firmware may have left the controller running on queues of its own.
Start(kind, running) ==
  /\ npc = "find" /\ nvme = None /\ frames = NoFrames
  /\ cc_en = running /\ csts_rdy = running
  /\ queues = IF running THEN Firmware ELSE NoQueues
  /\ pending = None /\ answer = None
  /\ nvmeKind = kind

-----------------------------------------------------------------------------
(* The driver.                                                             *)

Class == "nvme"

\* init_inner returns None; what has been set up stays as it is.
GiveUp == npc' = "done" /\ UNCHANGED <<nvme, frames, ctlVars>>

NotFound == npc = "find" /\ find_by_class(Class) = None /\ GiveUp /\ UNCHANGED pciVars

\* The driver goes on with what it takes for the registers: unless they are there,
\* it faults.
Find ==
  /\ npc = "find"
  /\ find_by_class(Class) # None
  /\ enable_bus_mastering(find_by_class(Class))
  /\ npc' = LET bar == read_bar_address(find_by_class(Class), 0) IN
            IF bar = 0 THEN "done" ELSE IF bar = NVME_REGS THEN "disable" ELSE "panic"
  /\ UNCHANGED <<nvme, frames, ctlVars>>

Disable ==
  /\ npc = "disable"
  /\ npc' = IF cc_en THEN "disabling" ELSE "queues"
  /\ cc_en' = FALSE
  /\ UNCHANGED <<nvme, frames, csts_rdy, queues, pending, answer, nvmeKind>>

\* Both admin rings get a frame, then the controller is enabled; one that is
\* enabled already does not look at them (external).
AdminQueues ==
  /\ npc = "queues"
  /\ Allocate(<<"nvme", "nvme">>)
  /\ frames' = [frames EXCEPT !.asq = Frame(1), !.acq = Frame(2)]
  /\ queues' = IF cc_en THEN queues
               ELSE [queues EXCEPT !.asq = frames'.asq, !.acq = frames'.acq]
  /\ cc_en' = TRUE
  /\ npc' = "enabling"
  /\ UNCHANGED <<nvme, csts_rdy, pending, answer, nvmeKind>>

\* wait_ready, both ways.
Ready ==
  /\ npc \in {"disabling", "enabling"}
  /\ csts_rdy = cc_en
  /\ npc' = IF cc_en THEN "identify" ELSE "queues"
  /\ UNCHANGED <<nvme, frames, ctlVars>>

\* Admin commands in order; each has a frame of its own.
Commands == <<"identify", "iocq", "iosq">>

Submit(k) ==
  /\ npc = Commands[k]
  /\ answer = None
  /\ pending = None
  /\ Allocate(<<"nvme">>)
  /\ frames' = [frames EXCEPT ![Commands[k]] = Frame(1)]
  /\ pending' = [op |-> Commands[k], frame |-> Frame(1)]
  /\ UNCHANGED <<npc, nvme, cc_en, csts_rdy, queues, answer, nvmeKind>>

\* Mutant: the status of an answer is not looked at.
AnyAnswer == answer # None
Succeeded == answer = "ok"

\* An answer to a command before the last.
Answered(k) ==
  /\ k < Len(Commands) /\ npc = Commands[k] /\ Succeeded
  /\ npc' = Commands[k + 1]
  /\ answer' = None
  /\ UNCHANGED <<nvme, frames, cc_en, csts_rdy, queues, pending, nvmeKind, memVars>>

\* The last answer: with the bounce buffer the driver is complete.
Finish ==
  /\ npc = Commands[Len(Commands)] /\ Succeeded
  /\ Allocate(<<"nvme">>)
  /\ frames' = [frames EXCEPT !.bounce = Frame(1)]
  /\ nvme' = frames'
  /\ npc' = "done"
  /\ answer' = None
  /\ UNCHANGED <<cc_en, csts_rdy, queues, pending, nvmeKind>>

Refused == npc \in ToSet(Commands) /\ answer = "error" /\ GiveUp

\* The controller takes commands from the admin queue of the driver (external).
Serves == Masters(Class) /\ queues.asq = frames.asq

\* A poll runs out, if the controller is late, mute or does not get the command.
RunOut ==
  /\ \/ npc \in {"disabling", "enabling"} /\ csts_rdy # cc_en /\ nvmeKind \in {"mute", "slow"}
     \/ npc \in ToSet(Commands) /\ pending # None /\ (nvmeKind = "slow" \/ ~Serves)
  /\ GiveUp

OutOfFrames ==
  /\ \/ npc = "queues" /\ ~Enough(2)
     \/ npc \in ToSet(Commands) /\ answer = None /\ pending = None /\ ~Enough(1)
     \/ npc = Commands[Len(Commands)] /\ Succeeded /\ ~Enough(1)
  /\ npc' = "panic"
  /\ UNCHANGED <<nvme, frames, ctlVars>>

-----------------------------------------------------------------------------
(* The controller (external).                                              *)

\* Ready follows enabled; being disabled makes it forget queues and commands.
Follow ==
  /\ csts_rdy # cc_en
  /\ nvmeKind # "mute"
  /\ csts_rdy' = cc_en
  /\ IF cc_en THEN UNCHANGED <<queues, pending>> ELSE queues' = NoQueues /\ pending' = None
  /\ UNCHANGED <<driverVars, cc_en, answer, nvmeKind>>

Fails(cmd) ==
  \/ cmd.op # "identify" /\ nvmeKind = "small"
  \/ cmd.op = "iosq" /\ queues.iocq = None

\* A queue that is created is the controller's from then on.
Execute ==
  /\ csts_rdy /\ cc_en
  /\ pending # None
  /\ Serves
  /\ answer' = IF Fails(pending) THEN "error" ELSE "ok"
  /\ queues' = IF Fails(pending) \/ pending.op = "identify" THEN queues
               ELSE [queues EXCEPT ![pending.op] = pending.frame]
  /\ pending' = None
  /\ UNCHANGED <<driverVars, cc_en, csts_rdy, nvmeKind>>

-----------------------------------------------------------------------------
Driver ==
  \/ NotFound /\ UNCHANGED memVars
  \/ Find /\ UNCHANGED memVars
  \/ (Disable \/ Ready \/ Refused \/ RunOut \/ OutOfFrames) /\ UNCHANGED <<memVars, pciVars>>
  \/ (AdminQueues \/ Finish) /\ UNCHANGED pciVars
  \/ \E k \in DOMAIN Commands : (Submit(k) \/ Answered(k)) /\ UNCHANGED pciVars

Controller == (Follow \/ Execute) /\ UNCHANGED <<memVars, pciVars>>

-----------------------------------------------------------------------------
\* A driver that is there has a controller to drive: enabled, ready, with
\* nothing left in the admin queue, and on exactly the queues of the driver,
\* the I/O rings zeroed frames.  This is where Nvme starts from.
NvmeReady ==
  nvme # None =>
    /\ cc_en /\ csts_rdy
    /\ pending = None /\ answer = None
    /\ queues = [q \in Queues |-> nvme[q]]
===============================================================================
