------------------------------- MODULE MCLrm -------------------------------
(* The resource pool on three slots.                                       *)
EXTENDS Lrm
============================================================================
