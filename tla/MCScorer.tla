------------------------------ MODULE MCScorer ------------------------------
(***************************************************************************)
(* The scoring loop for one host of this shard and one of another, with a  *)
(* window of 4, warm after 2, recomputed every third update: the warm-up   *)
(* ends between two ticks.                                                 *)
(***************************************************************************)
EXTENDS Scorer

MCHosts == <<"host-1", "host-2">>
MCMyShard == {"host-1"}
=============================================================================
