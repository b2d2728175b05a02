------------------------------ MODULE MCLbRes ------------------------------
(* Instances of LbRes for TLC.                                             *)
EXTENDS LbRes

CONSTANTS t1, t2
=============================================================================
