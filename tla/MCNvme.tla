------------------------------- MODULE MCNvme --------------------------------
(* Small instances of Nvme: two contents, two sectors, a bounce buffer of   *)
(* two sectors; calls that fit, one too large for the caller's buffer and   *)
(* one for the bounce buffer, one for no sectors.                           *)
EXTENDS Nvme

CONSTANTS a, b

MCData == {a, b}
MCLbas == 0 .. 1

Read(lba, count, room) ==
  [op |-> "read", lba |-> lba, count |-> count, data |-> [i \in 1 .. room |-> None]]
Write(lba, data, count) ==
  [op |-> "write", lba |-> lba, count |-> count, data |-> data]

Misfits == {Write(0, <<b>>, 2), Read(0, 3, 3)}

Empty == Read(0, 0, 0)

MCRequests == {Write(0, <<a, b>>, 2), Read(1, 1, 1), Empty} \cup Misfits

\* Fewer calls where the run looks for a trace instead of all states.
LateRequests == {Write(0, <<a, b>>, 2), Write(0, <<b, b>>, 2), Read(0, 2, 2)}
===============================================================================
