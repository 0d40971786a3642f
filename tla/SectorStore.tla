----------------------------- MODULE SectorStore -----------------------------
(***************************************************************************)
(* What kernel/src/storage.rs promises its one caller, the main loop: a    *)
(* synchronous store of sectors.  A call is made, it persists the sectors  *)
(* of a write one by one in some order, and it returns.  Success means     *)
(* that the disk has taken a write in full, or that a read returns what    *)
(* the disk holds; a failed write may have persisted any part of its       *)
(* sectors.  Nothing reaches the disk when no call is in progress.         *)
(*                                                                         *)
(* All of that ends with the first call that returns Timeout.  Neither     *)
(* driver takes its command back, and the next calls take the late answer  *)
(* for their own: from then on a sector may change at any time, a read may *)
(* return anything, and a write may return before it has begun.            *)
(***************************************************************************)
EXTENDS Naturals, Sequences

CONSTANTS Lbas,      \* sector addresses
          Data,      \* contents of one sector
          MaxCount,  \* most sectors one call can transfer
          Requests,  \* the calls callers make
          None       \* no call in progress, no result yet, an unfilled buffer

\* A request names a range of sectors and a buffer with one element per
\* sector: the contents of a write, room to be filled for a read.

VARIABLES disk,  \* [Lbas -> Data]
          req,   \* the call in progress, or None
          ret,   \* result of the last call that returned, or None
          late   \* a call has returned Timeout

vars == <<disk, req, ret, late>>

Failures == {"BufferTooSmall", "CommandError", "Timeout"}

\* The sectors a request covers, and the part of its buffer each one gets.
Span(r) == r.lba .. (r.lba + r.count - 1)
Part(r, s) == r.data[s - r.lba + 1]

Fits(r) == r.count <= Len(r.data) /\ r.count <= MaxCount

Init ==
  /\ disk \in [Lbas -> Data]
  /\ req = None
  /\ ret = None
  /\ late = FALSE

Call(r) ==
  /\ req = None
  /\ req' = r
  /\ ret' = None
  /\ UNCHANGED <<disk, late>>

Persist ==
  /\ req # None
  /\ req.op = "write" /\ Fits(req)
  /\ \E s \in Span(req) : disk' = [disk EXCEPT ![s] = Part(req, s)]
  /\ UNCHANGED <<req, ret, late>>

ReturnOk ==
  /\ req # None
  /\ Fits(req)
  /\ req.op = "write" => \A s \in Span(req) : disk[s] = Part(req, s)
  /\ ret' = [status |-> "Ok",
             data |-> IF req.op = "write" THEN <<>>
                      ELSE [i \in 1 .. req.count |-> disk[req.lba + i - 1]]]
  /\ req' = None
  /\ UNCHANGED <<disk, late>>

ReturnErr ==
  /\ req # None
  /\ \E e \in Failures :
        /\ (e = "BufferTooSmall") <=> ~Fits(req)
        /\ ret' = [status |-> e, data |-> <<>>]
        /\ late' = (late \/ e = "Timeout")
  /\ req' = None
  /\ UNCHANGED disk

\* A command that was left behind writes what the bounce frame holds by now.
LatePersist(s, d) ==
  /\ late
  /\ disk' = [disk EXCEPT ![s] = d]
  /\ UNCHANGED <<req, ret, late>>

\* The answer to an earlier call; a read copies what the bounce frame holds.
LateOk(data) ==
  /\ late
  /\ req # None
  /\ Fits(req)
  /\ ret' = [status |-> "Ok", data |-> IF req.op = "write" THEN <<>> ELSE data]
  /\ req' = None
  /\ UNCHANGED <<disk, late>>

Next ==
  \/ \E r \in Requests : Call(r)
  \/ Persist
  \/ ReturnOk
  \/ ReturnErr
  \/ \E s \in Lbas, d \in Data \cup {None} : LatePersist(s, d)
  \/ req # None /\ \E data \in [1 .. req.count -> Data \cup {None}] : LateOk(data)

Spec == Init /\ [][Next]_vars
===============================================================================
