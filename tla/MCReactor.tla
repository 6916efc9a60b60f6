------------------------------ MODULE MCReactor ------------------------------
(* Instances of Reactor for TLC. *)
EXTENDS Reactor, TLC

CONSTANTS c1, c2
TwoAndOne == c1 :> <<"good", "good">> @@ c2 :> <<"bad">>
Text == c1 :> {} @@ c2 :> {}
==============================================================================
