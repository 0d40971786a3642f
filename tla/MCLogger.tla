------------------------------- MODULE MCLogger -------------------------------
(* Logger needs no more than its own constants.                              *)
EXTENDS Logger
===============================================================================
