--------------------------------- MODULE Ahci ---------------------------------
(***************************************************************************)
(* The AHCI driver after initialisation (kernel/src/ahci): one command slot*)
(* in memory, one bounce buffer, and a synchronous caller that sets the    *)
(* slot up, waits until the port is not busy, sets the slot's bit in PxCI  *)
(* and polls it until the HBA clears it.  The HBA and its disk are         *)
(* external.  An error halts the HBA's command engine with the bit set;    *)
(* the driver never restarts it.                                           *)
(*                                                                         *)
(* The slot is zeroed and refilled before the driver knows that the port is*)
(* idle.  After a wait has run out the HBA may read the slot meanwhile, and*)
(* find there parts of two commands, or of none.                           *)
(***************************************************************************)
EXTENDS Naturals, Sequences

CONSTANTS LBA_LIMIT,    \* addresses a command can carry (2^48)
          COUNT_LIMIT,  \* number of values of its sector count (2^16)
          PRDT_LIMIT,   \* sectors that fit the largest PRDT entry (4 MiB: 8192)
          Lbas, Data,   \* sector addresses and contents of the disk
          MaxCount,     \* sectors that fit the bounce buffer (8 in the code)
          Requests,     \* the calls made through kernel/src/storage.rs
          MaxTimeouts,  \* bound: no call is made once so many waits have run out
          CmdErrors,    \* TRUE if the disk may fail a command
          None

ASSUME AhciAssumption ==
  /\ LBA_LIMIT \in Nat \ {0} /\ MaxCount \in Nat \ {0} /\ MaxTimeouts \in Nat
  /\ COUNT_LIMIT \in Nat /\ PRDT_LIMIT \in Nat
  /\ MaxCount < COUNT_LIMIT /\ MaxCount <= PRDT_LIMIT
  /\ Lbas \subseteq 0 .. LBA_LIMIT - 1
  /\ CmdErrors \in BOOLEAN

\* As in Nvme; the address of a call is any u64, its number of sectors any u16.
ASSUME AhciRequests ==
  \A r \in Requests :
    /\ r \in [op : {"read", "write"}, lba : Nat, count : 0 .. COUNT_LIMIT - 1,
              data : Seq(Data \cup {None})]
    /\ r.count <= MaxCount =>
         (r.lba % LBA_LIMIT) .. ((r.lba % LBA_LIMIT) + r.count - 1) \subseteq Lbas
    /\ r # None

VARIABLES
  pc,             \* "idle", "setup", "zeroed", "fis", "busy", "poll" or "panic"
  req, ret,       \* arguments of the call in progress, result of the last one
  slot,           \* slot 0: its command FIS and PRDT entry
  ci,             \* PxCI bit 0
  busy, err,      \* PxTFD: BSY or DRQ, and ERR
  bounce,         \* the DMA bounce buffer
  disk,           \* HBA: the disk
  active,         \* HBA: the command it works on, or None
  timeouts        \* history: waits that ran out

hbaVars == <<ci, busy, err, disk, active>>
vars == <<pc, req, ret, slot, ci, busy, err, bounce, disk, active, timeouts>>

Offsets == 1 .. MaxCount

Store == INSTANCE SectorStore WITH late <- timeouts > 0

\* init_inner has sent IDENTIFY.
Init ==
  /\ pc = "idle" /\ req = None /\ ret = None
  /\ slot = [fis |-> [op |-> "identify", lba |-> 0, count |-> 0],
             prdt |-> [dba |-> "bounce", room |-> 1]]
  /\ ci = FALSE /\ busy = FALSE /\ err = FALSE
  /\ bounce = [o \in Offsets |-> None]
  /\ disk \in [Lbas -> Data]
  /\ active = None /\ timeouts = 0

-----------------------------------------------------------------------------
(* The driver.                                                             *)

\* Mutant: the transfer is not compared with the bounce frame.
TooSmallForCaller(r) == Len(r.data) < r.count
TooSmall(r) == Len(r.data) < r.count \/ r.count > MaxCount

\* read_sectors and write_sectors; a write fills the bounce buffer at once.
Call(r) ==
  /\ pc = "idle"
  /\ timeouts < MaxTimeouts
  /\ req' = r /\ ret' = None
  /\ pc' = "setup"
  /\ bounce' = IF r.op = "write" /\ ~TooSmall(r)
               THEN [o \in Offsets |-> IF o <= r.count THEN r.data[o] ELSE bounce[o]]
               ELSE bounce
  /\ UNCHANGED <<slot, hbaVars, timeouts>>

Return(status, data) ==
  /\ ret' = [status |-> status, data |-> data]
  /\ req' = None
  /\ pc' = "idle"

Reject ==
  /\ pc = "setup" /\ TooSmall(req)
  /\ Return("BufferTooSmall", <<>>)
  /\ UNCHANGED <<slot, hbaVars, bounce, timeouts>>

\* build_h2d_fis: six bytes of address, two of the count.
\* Mutant: the upper part of the address is left out.
FisLow(r) == [op |-> r.op, lba |-> r.lba % (LBA_LIMIT \div 4), count |-> r.count]
Fis(r) == [op |-> r.op, lba |-> r.lba % LBA_LIMIT, count |-> r.count]

\* The PRDT entry: byte_count - 1, of which the HBA looks at 22 bits.
Prdt(r) ==
  [dba |-> "bounce", room |-> IF r.count = 0 THEN PRDT_LIMIT ELSE r.count]

\* A table of zeroes: no command at all, and room for a byte or two at physical
\* address 0.
ZeroFis == [op |-> "none", lba |-> 0, count |-> 0]
ZeroPrdt == [dba |-> "elsewhere", room |-> 0]

\* setup_command, before anything is known of the port: the header and the zeroes,
\* the FIS, the PRDT entry.
ZeroTable ==
  /\ pc = "setup" /\ ~TooSmall(req)
  /\ slot' = [fis |-> ZeroFis, prdt |-> ZeroPrdt]
  /\ pc' = "zeroed"
  /\ UNCHANGED <<req, ret, hbaVars, bounce, timeouts>>

CopyFis ==
  /\ pc = "zeroed"
  /\ slot' = [slot EXCEPT !.fis = Fis(req)]
  /\ pc' = "fis"
  /\ UNCHANGED <<req, ret, hbaVars, bounce, timeouts>>

SetPrdt ==
  /\ pc = "fis"
  /\ slot' = [slot EXCEPT !.prdt = Prdt(req)]
  /\ pc' = "busy"
  /\ UNCHANGED <<req, ret, hbaVars, bounce, timeouts>>

\* With overflow checks, byte_count - 1 panics.
Panic ==
  /\ pc = "fis" /\ req.count = 0
  /\ pc' = "panic"
  /\ UNCHANGED <<req, ret, slot, hbaVars, bounce, timeouts>>

Issue ==
  /\ pc = "busy" /\ ~busy
  /\ ci' = TRUE
  /\ pc' = "poll"
  /\ UNCHANGED <<req, ret, slot, busy, err, bounce, disk, active, timeouts>>

\* The bit is clear, or it is not and the task file shows an error.
Complete ==
  /\ pc = "poll"
  /\ \/ err /\ Return("CommandError", <<>>)
     \/ ~ci /\ ~err
        /\ Return("Ok", IF req.op = "read" THEN SubSeq(bounce, 1, req.count) ELSE <<>>)
  /\ UNCHANGED <<slot, hbaVars, bounce, timeouts>>

\* Mutant: the wait for a port that is not busy has no limit.
StillBusyForEver == pc = "poll" /\ ci /\ ~err
StillBusy ==
  \/ pc = "busy" /\ busy
  \/ pc = "poll" /\ ci /\ ~err

\* Both waits run out whatever the HBA does; the command stays with it.
Timeout ==
  /\ StillBusy
  /\ timeouts' = timeouts + 1
  /\ Return("Timeout", <<>>)
  /\ UNCHANGED <<slot, hbaVars, bounce>>

-----------------------------------------------------------------------------
(* The HBA and the disk (external).                                        *)

\* The slot is being filled; a panic leaves it half filled.
Refilling ==
  \/ pc = "setup" /\ ~TooSmall(req)
  \/ pc \in {"zeroed", "fis", "panic"}

\* What a reader finds in a FIS, or in a PRDT entry, that is being changed: any part
\* of the old one with any part of the new one.
TornFis(old, new) ==
  [op : {old.op, new.op}, lba : 0 .. LBA_LIMIT - 1, count : {old.count, new.count}]
TornPrdt(old, new) == [dba : {"bounce", "elsewhere"}, room : {old.room, new.room}]

FisSeen ==
  CASE pc = "setup" /\ ~TooSmall(req) -> TornFis(slot.fis, ZeroFis)
    [] pc = "zeroed" -> TornFis(slot.fis, Fis(req))
    [] OTHER -> {slot.fis}

PrdtSeen ==
  CASE pc = "setup" /\ ~TooSmall(req) -> TornPrdt(slot.prdt, ZeroPrdt)
    [] pc \in {"fis", "panic"} -> TornPrdt(slot.prdt, Prdt(req))
    [] OTHER -> {slot.prdt}

FetchFis ==
  /\ ci /\ ~err /\ active = None
  /\ \E fis \in FisSeen :
       active' = [cmd |-> fis, prdt |-> ZeroPrdt, ready |-> FALSE, left |-> {},
                  torn |-> Refilling]
  /\ busy' = TRUE
  /\ UNCHANGED <<pc, req, ret, slot, ci, err, bounce, disk, timeouts>>

\* The sectors of a command; a count of 0 stands for all there are.
Sectors(cmd) ==
  IF cmd.op \in {"read", "write"}
  THEN 1 .. (IF cmd.count = 0 THEN COUNT_LIMIT ELSE cmd.count)
  ELSE {}

\* The HBA reads the PRDT when there is data to move; what has no room in it stays
\* where it is.
FetchPrdt ==
  /\ active # None /\ ~active.ready
  /\ \E prdt \in PrdtSeen :
       active' = [cmd |-> active.cmd, prdt |-> prdt, ready |-> TRUE,
                  left |-> {o \in Sectors(active.cmd) : o <= prdt.room},
                  torn |-> active.torn \/ Refilling]
  /\ UNCHANGED <<pc, req, ret, slot, ci, busy, err, bounce, disk, timeouts>>

InFrame(o) == active.prdt.dba = "bounce" /\ o \in Offsets

\* A sector that is not on the disk can only fail the command.  Memory outside the
\* bounce frame is not modelled: what is read from there may be anything.
Transfer(o) ==
  LET s == active.cmd.lba + o - 1 IN
  /\ s \in Lbas
  /\ active' = [active EXCEPT !.left = @ \ {o}]
  /\ IF active.cmd.op = "read"
     THEN /\ bounce' = IF InFrame(o) THEN [bounce EXCEPT ![o] = disk[s]] ELSE bounce
          /\ UNCHANGED disk
     ELSE /\ \E d \in IF InFrame(o) THEN {bounce[o]} ELSE Data :
               disk' = [disk EXCEPT ![s] = d]
          /\ UNCHANGED bounce
  /\ UNCHANGED <<pc, req, ret, slot, ci, busy, err, timeouts>>

Done == active # None /\ active.ready /\ active.left = {}

\* The last register FIS clears BSY in the task file; after that the HBA clears
\* the bit in PxCI.
ClearBusy ==
  /\ Done /\ busy
  /\ busy' = FALSE
  /\ UNCHANGED <<pc, req, ret, slot, ci, err, bounce, disk, active, timeouts>>

ClearIssue ==
  /\ Done /\ ~busy
  /\ ci' = FALSE /\ active' = None
  /\ UNCHANGED <<pc, req, ret, slot, busy, err, bounce, disk, timeouts>>

Fail ==
  /\ CmdErrors
  /\ active # None /\ busy
  /\ err' = TRUE /\ busy' = FALSE /\ active' = None
  /\ UNCHANGED <<pc, req, ret, slot, ci, bounce, disk, timeouts>>

-----------------------------------------------------------------------------
Driver ==
  Reject \/ ZeroTable \/ CopyFis \/ SetPrdt \/ Panic \/ Issue \/ Complete \/ Timeout

Hba ==
  \/ FetchFis \/ FetchPrdt \/ ClearBusy \/ ClearIssue \/ Fail
  \/ active # None /\ \E o \in active.left : Transfer(o)

Next == (\E r \in Requests : Call(r)) \/ Driver \/ Hba

Spec == Init /\ [][Next]_vars

\* The caller's thread runs on.  Nothing is asked of the HBA, which may stop at any
\* time.
FairSpec == Spec /\ WF_vars(Driver)

-----------------------------------------------------------------------------
(* Properties.                                                             *)

\* The HBA moves sectors between the bounce frame and the disk only, and only
\* sectors some caller named, the late ones of calls whose wait ran out included and
\* those it moves for one call with the PRDT entry of another.  There are two
\* exceptions.  One is what the HBA pieces together from a slot the driver is just
\* refilling (port.rs:81-103): that takes a wait that ran out before.  The other is the
\* command of a call for no sectors in a build without overflow checks, which no caller
\* in the kernel makes.
DmaInBounds ==
  active # None /\ active.ready =>
    \/ /\ active.prdt.dba = "bounce"
       /\ \A o \in active.left : o \in Offsets /\ active.cmd.lba + o - 1 \in Lbas
    \/ active.torn /\ timeouts > 0
    \/ active.cmd.count = 0

\* The driver is a synchronous sector store: what it does to the disk and what it
\* answers are steps of SectorStore, those after a wait has run out included.  A call
\* for no sectors is left out, whose command moves what nobody asked for.
IsSectorStore ==
  Store!Init /\ [][(req # None /\ req.count = 0) \/ Store!Next]_(Store!vars)

\* Every call returns, whatever the HBA does (or panics: a call for no sectors), also
\* when the port is busy for ever with an earlier one's command.
EveryCallReturns == (pc \notin {"idle", "panic"}) ~> (pc \in {"idle", "panic"})
===============================================================================
