----------------------------- MODULE MCModelRun -----------------------------
(* Instances of ModelRun for TLC. *)
EXTENDS ModelRun
=============================================================================
