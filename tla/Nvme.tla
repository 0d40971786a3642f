-------------------------------- MODULE Nvme ---------------------------------
(***************************************************************************)
(* The I/O queue pair of the NVMe driver (kernel/src/nvme): one submission *)
(* ring, one completion ring, one DMA bounce buffer, and a synchronous     *)
(* caller that submits a command and spins until a completion turns up.    *)
(* The controller is external: it fetches commands up to the tail doorbell,*)
(* moves their sectors between disk and bounce buffer in any order, and    *)
(* posts completions under its own phase bit.                              *)
(*                                                                         *)
(* The driver never compares the CID of a completion with the one it       *)
(* submitted; that is sound until a call times out (the 500 million polls  *)
(* run out before the controller has answered), and not after that.        *)
(*                                                                         *)
(* A call for no sectors passes the size test, and count - 1 is below what *)
(* a u16 holds: a build with overflow checks panics, one without them asks *)
(* for as many sectors as a command can name.  The model lets either       *)
(* happen.                                                                 *)
(***************************************************************************)
EXTENDS Naturals, Sequences, SequencesExt

CONSTANTS QUEUE_SIZE,   \* entries of each ring (16 in the code)
          CID_LIMIT,    \* number of command identifiers (2^16 in the code)
          Lbas, Data,   \* sector addresses and contents of the namespace
          MaxCount,     \* sectors that fit the bounce buffer (8 in the code)
          COUNT_LIMIT,  \* sectors one command can name (2^16 in the code)
          Requests,     \* the calls made through kernel/src/storage.rs
          MaxTimeouts,  \* bound: no call is made once so many have timed out
          CmdErrors,    \* TRUE if the controller may fail a command
          None

ASSUME RingAssumption ==
  /\ QUEUE_SIZE \in Nat /\ QUEUE_SIZE >= 2
  /\ CID_LIMIT \in Nat \ {0}
  /\ MaxCount \in Nat \ {0}
  /\ COUNT_LIMIT \in Nat /\ MaxCount < COUNT_LIMIT
  /\ MaxTimeouts \in Nat
  /\ CmdErrors \in BOOLEAN

\* The sectors of a call that fits are on the disk (main.rs only moves the two of a
\* save file); their number is any u16, 0 included.  A buffer has one element per sector:
\* the contents of a write, room to be filled for a read.
ASSUME RequestsAssumption ==
  \A r \in Requests :
    /\ r \in [op : {"read", "write"}, lba : Nat, count : 0 .. COUNT_LIMIT - 1,
              data : Seq(Data \cup {None})]
    /\ r.count <= MaxCount => r.lba .. (r.lba + r.count - 1) \subseteq Lbas
    /\ r # None

VARIABLES
  pc,         \* "idle", "submit", "wait" or "panic": where the caller's thread is
  req, ret,   \* arguments of the call in progress, result of the last one
  sq, tail, cid_counter,     \* SubmissionQueue; tail is also its doorbell
  cq, head, phase,           \* CompletionQueue; head is also its doorbell
  bounce,                    \* the DMA bounce buffer
  disk,                      \* controller: the namespace
  sqHead, running,           \* controller: next fetch, commands in progress
  cqTail, ctlPhase,          \* controller: next completion slot and its phase
  timeouts                   \* history: calls that returned Timeout

driverVars == <<pc, req, ret, tail, cid_counter, head, phase>>
ctlVars == <<sqHead, running, cqTail, ctlPhase>>
vars == <<pc, req, ret, sq, tail, cid_counter, cq, head, phase, bounce, disk,
          sqHead, running, cqTail, ctlPhase, timeouts>>

Slots == 0 .. QUEUE_SIZE - 1
Cids == 0 .. CID_LIMIT - 1
Offsets == 1 .. MaxCount

\* Mutant: the tail is not wrapped.
NextSlotUnwrapped(i) == i + 1
NextSlot(i) == (i + 1) % QUEUE_SIZE

Store == INSTANCE SectorStore WITH late <- timeouts > 0

-----------------------------------------------------------------------------
(* Frames are zeroed when they are allocated: every completion entry has    *)
(* phase 0, every submission entry reads as a Flush.                       *)
ZeroCommand == [op |-> "flush", lba |-> 0, nlb |-> 0, cid |-> 0]

Init ==
  /\ pc = "idle" /\ req = None /\ ret = None
  /\ sq = [i \in Slots |-> ZeroCommand] /\ tail = 0 /\ cid_counter = 0
  /\ cq = [i \in Slots |-> [cid |-> 0, status |-> 0, phase |-> FALSE]]
  /\ head = 0 /\ phase = TRUE
  /\ bounce = [o \in Offsets |-> None]
  /\ disk \in [Lbas -> Data]
  /\ sqHead = 0 /\ running = <<>> /\ cqTail = 0 /\ ctlPhase = TRUE
  /\ timeouts = 0

-----------------------------------------------------------------------------
(* The driver.                                                             *)

\* read_sectors and write_sectors up to the submission.  A buffer or a
\* transfer of the wrong size returns at once; a write fills the bounce buffer
\* before it submits.
TooSmall(r) == Len(r.data) < r.count \/ r.count > MaxCount

Call(r) ==
  /\ pc = "idle"
  /\ timeouts < MaxTimeouts
  /\ req' = r
  /\ ret' = None
  /\ pc' = "submit"
  /\ bounce' = IF r.op = "write" /\ ~TooSmall(r)
               THEN [o \in Offsets |-> IF o <= r.count THEN r.data[o] ELSE bounce[o]]
               ELSE bounce
  /\ UNCHANGED <<sq, tail, cid_counter, cq, head, phase, disk, ctlVars, timeouts>>

Return(status, data) ==
  /\ ret' = [status |-> status, data |-> data]
  /\ req' = None
  /\ pc' = "idle"

Reject ==
  /\ pc = "submit"
  /\ TooSmall(req)
  /\ Return("BufferTooSmall", <<>>)
  /\ UNCHANGED <<sq, tail, cid_counter, cq, head, phase, bounce, disk, ctlVars,
                 timeouts>>

\* count - 1, the 0-based length of a command, as a u16.
\* Mutant: the count is taken as it is.
NlbOneMore(count) == count
Nlb(count) == (count - 1) % COUNT_LIMIT

NewCommand ==
  [op |-> req.op, lba |-> req.lba, nlb |-> Nlb(req.count), cid |-> cid_counter]

\* With overflow checks, count - 1 panics.
Panic ==
  /\ pc = "submit"
  /\ ~TooSmall(req) /\ req.count = 0
  /\ pc' = "panic"
  /\ UNCHANGED <<req, ret, sq, tail, cid_counter, cq, head, phase, bounce, disk, ctlVars,
                 timeouts>>

\* SubmissionQueue::submit: no test whether the ring is full.
Submit ==
  /\ pc = "submit"
  /\ ~TooSmall(req)
  /\ sq' = [sq EXCEPT ![tail] = NewCommand]
  /\ tail' = NextSlot(tail)
  /\ cid_counter' = (cid_counter + 1) % CID_LIMIT
  /\ pc' = "wait"
  /\ UNCHANGED <<req, ret, cq, head, phase, bounce, disk, ctlVars, timeouts>>

\* CompletionQueue::poll takes the entry at head when its phase is the
\* expected one.
Fresh == cq[head].phase = phase

\* Mutants: the expected phase stays when the head wraps; the head stays.
AdvanceSamePhase == head' = (head + 1) % QUEUE_SIZE /\ phase' = phase
AdvanceNot == head' = head /\ phase' = phase

Advance ==
  IF head + 1 >= QUEUE_SIZE
  THEN head' = 0 /\ phase' = ~phase
  ELSE head' = head + 1 /\ phase' = phase

\* What the call returns for the entry poll took.
\* Mutant: the status of the completion is not looked at.
OutcomeUnchecked(cqe) ==
  Return("Ok", IF req.op = "read" THEN SubSeq(bounce, 1, req.count) ELSE <<>>)

Outcome(cqe) ==
  IF cqe.status # 0 THEN Return("CommandError", <<>>)
  ELSE Return("Ok", IF req.op = "read" THEN SubSeq(bounce, 1, req.count) ELSE <<>>)

Complete ==
  /\ pc = "wait"
  /\ Fresh
  /\ Advance
  /\ Outcome(cq[head])
  /\ UNCHANGED <<sq, tail, cid_counter, cq, bounce, disk, ctlVars, timeouts>>

\* wait ran out of polls, which it does whatever the controller does; the command
\* stays with the controller.
Timeout ==
  /\ pc = "wait"
  /\ ~Fresh
  /\ timeouts' = timeouts + 1
  /\ Return("Timeout", <<>>)
  /\ UNCHANGED <<sq, tail, cid_counter, cq, head, phase, bounce, disk, ctlVars>>

-----------------------------------------------------------------------------
(* The controller (external).                                              *)

\* The sectors of a command: the length is 0-based, and a Flush has none.
Sectors(cmd) == IF cmd.op = "flush" THEN {} ELSE 1 .. cmd.nlb + 1

\* A fetched command and the offsets of the sectors it has yet to move.
Fetch ==
  /\ sqHead # tail
  /\ running' = Append(running, [cmd |-> sq[sqHead], left |-> Sectors(sq[sqHead])])
  /\ sqHead' = NextSlot(sqHead)
  /\ UNCHANGED <<driverVars, sq, cq, bounce, disk, cqTail, ctlPhase, timeouts>>

\* One sector of DMA.  A sector that is not on the disk can only fail the command.
\* Memory outside the bounce frame is not modelled: what is read from there may be
\* anything.
Transfer(i, o) ==
  LET s == running[i].cmd.lba + o - 1 IN
  /\ s \in Lbas
  /\ running' = [running EXCEPT ![i].left = @ \ {o}]
  /\ IF running[i].cmd.op = "read"
     THEN /\ bounce' = IF o \in Offsets THEN [bounce EXCEPT ![o] = disk[s]] ELSE bounce
          /\ UNCHANGED disk
     ELSE /\ \E d \in IF o \in Offsets THEN {bounce[o]} ELSE Data :
               disk' = [disk EXCEPT ![s] = d]
          /\ UNCHANGED bounce
  /\ UNCHANGED <<driverVars, sq, cq, sqHead, cqTail, ctlPhase, timeouts>>

\* Post a completion, unless that would fill the ring up to the host's head.
PostStatus(i, status) ==
  /\ NextSlot(cqTail) # head
  /\ running' = RemoveAt(running, i)
  /\ cq' = [cq EXCEPT ![cqTail] = [cid |-> running[i].cmd.cid, status |-> status,
                                   phase |-> ctlPhase]]
  /\ cqTail' = NextSlot(cqTail)
  /\ ctlPhase' = IF cqTail + 1 = QUEUE_SIZE THEN ~ctlPhase ELSE ctlPhase
  /\ UNCHANGED <<driverVars, sq, bounce, disk, sqHead, timeouts>>

Post(i) == running[i].left = {} /\ PostStatus(i, 0)

PostError(i) == CmdErrors /\ PostStatus(i, 1)

-----------------------------------------------------------------------------
Driver == Reject \/ Panic \/ Submit \/ Complete \/ Timeout

Controller ==
  \/ Fetch
  \/ \E i \in DOMAIN running :
       Post(i) \/ PostError(i) \/ \E o \in running[i].left : Transfer(i, o)

Next == (\E r \in Requests : Call(r)) \/ Driver \/ Controller

\* The caller's thread runs on.  Nothing is asked of the controller, which may stop at
\* any time.
Fairness == WF_vars(Driver)

Spec == Init /\ [][Next]_vars
FairSpec == Spec /\ Fairness
-----------------------------------------------------------------------------
(* Properties.                                                             *)

Commands ==
  [op : {"read", "write", "flush"}, lba : Nat, nlb : 0 .. COUNT_LIMIT - 1, cid : Cids]

\* Every variable has its type.
TypeOK ==
  /\ pc \in {"idle", "submit", "wait", "panic"}
  /\ req \in Requests \cup {None}
  /\ (pc = "idle") <=> (req = None)
  /\ sq \in [Slots -> Commands]
  /\ tail \in Slots /\ head \in Slots /\ sqHead \in Slots /\ cqTail \in Slots
  /\ cid_counter \in Cids
  /\ cq \in [Slots -> [cid : Cids, status : {0, 1}, phase : BOOLEAN]]
  /\ phase \in BOOLEAN /\ ctlPhase \in BOOLEAN
  /\ running \in Seq([cmd : Commands, left : SUBSET Nat])
  /\ bounce \in [Offsets -> Data \cup {None}]
  /\ disk \in [Lbas -> Data \cup {None}]
  /\ timeouts \in 0 .. MaxTimeouts /\ (pc # "idle" => timeouts < MaxTimeouts)

\* No command makes the controller move a sector outside the bounce frame or
\* outside the sectors its caller named, those left behind by calls that timed
\* out included (the size test of mod.rs:59-62 and 87-90 and the 0-based length of
\* mod.rs:70 and 107).  The exception is the command of a call for no sectors in a
\* build without overflow checks, which no caller in the kernel makes: its length
\* has wrapped to the largest there is.
DmaInBounds ==
  \A i \in DOMAIN running : \A o \in running[i].left :
    \/ o \in Offsets /\ running[i].cmd.lba + o - 1 \in Lbas
    \/ running[i].cmd.nlb = COUNT_LIMIT - 1

\* The phase bit alone tells the driver what is new: poll takes an entry
\* exactly when the controller has posted one the driver has not taken yet,
\* however often either side has wrapped (queue.rs, CompletionQueue::poll).
PhaseTellsPosted == Fresh <=> head # cqTail

\* The entries of a ring from index i up to, not including, index j.
Distance(i, j) == (j + QUEUE_SIZE - i) % QUEUE_SIZE

Outstanding ==
  Distance(sqHead, tail) + Len(running) + Distance(head, cqTail)

\* Every command is answered once and no answer is dropped: the driver owes
\* the rings one completion for the call it waits for, and one more for every
\* call that timed out.  Nothing ever brings that number down again, so after
\* one timeout each later call can be answered by an earlier one's completion.
OwesOnePerTimeout ==
  Outstanding = timeouts + (IF pc = "wait" THEN 1 ELSE 0)

\* As long as no call has timed out, the completion a call is about to take
\* carries the CID of its own command (the driver does not look,
\* queue.rs:103-136).
AnswersOwnCommand ==
  pc = "wait" /\ Fresh /\ timeouts = 0 =>
    (cq[head].cid + 1) % CID_LIMIT = cid_counter

\* write_sectors returns Ok only when the disk holds the caller's data, the
\* moment at which main.rs:253 logs "World saved".
SavedMeansOnDisk ==
  [][req # None /\ req.op = "write" /\ req' = None /\ ret'.status = "Ok" =>
       \A s \in Store!Span(req) : disk[s] = Store!Part(req, s)]_vars

\* The driver is a synchronous sector store: what it does to the disk and what it
\* answers are steps of SectorStore, those after a call has timed out included.  A
\* call for no sectors is left out, whose command moves what nobody asked for.
IsSectorStore ==
  Store!Init /\ [][(req # None /\ req.count = 0) \/ Store!Next]_(Store!vars)
===============================================================================
