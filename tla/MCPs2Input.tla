----------------------------- MODULE MCPs2Input -----------------------------
(***************************************************************************)
(* Small instances of Ps2Input.                                            *)
(***************************************************************************)
EXTENDS Ps2Input

OneStep == {1}
BothWays == {-1, 2}
=============================================================================
