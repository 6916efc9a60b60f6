------------------------------ MODULE MCNetCal ------------------------------
(* Instances of NetCal for TLC: CalClient and a client that does not wait. *)
EXTENDS NetCal, TLC

CONSTANTS c1, c2
OneAndTwo == c1 :> 1 @@ c2 :> 2
==============================================================================
