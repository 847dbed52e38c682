---------------------------- MODULE MCGenerator ----------------------------
(* Instances of Generator for TLC. *)
EXTENDS Generator
=============================================================================
