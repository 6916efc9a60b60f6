------------------------------ MODULE MCReadLine ------------------------------
(* Instances of ReadLine for TLC. *)
EXTENDS ReadLine

CONSTANT MaxLen
MCStreams == UNION {[1..n -> Bytes] : n \in 0..MaxLen}
\* A request line and a blank line, both ended by a carriage return alone.
MCLoneCr == {<<"x", "CR", "CR">>, <<"x", "CR", "LF", "CR", "LF">>}
==============================================================================
