-------------------------------- MODULE MCAhci --------------------------------
(* A small instance of Ahci: two contents, three sectors, a bounce buffer of two; *)
(* calls that fit, calls that do not, one for no sectors.                     *)
EXTENDS Ahci

CONSTANTS a, b

MCData == {a, b}
MCLbas == 0 .. 2

Read(lba, count, room) ==
  [op |-> "read", lba |-> lba, count |-> count, data |-> [i \in 1 .. room |-> None]]
Write(lba, data, count) ==
  [op |-> "write", lba |-> lba, count |-> count, data |-> data]

MCRequests ==
  {Write(0, <<a, b>>, 2), Write(0, <<b, b>>, 2), Write(1, <<a>>, 1), Read(0, 2, 2),
   Read(1, 1, 2), Read(0, 3, 3), Read(0, 0, 0), Write(0, <<b>>, 2)}
===============================================================================
