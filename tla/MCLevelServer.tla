---------------------------- MODULE MCLevelServer ----------------------------
(* Instances of LevelServer for TLC. *)
EXTENDS LevelServer
==============================================================================
