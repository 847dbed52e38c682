-------------------------- MODULE MCSharedObjects --------------------------
(***************************************************************************)
(* The two objects that the threads of the API server share, the pool of   *)
(* connections and the cache of models, for TLC.  No call touches both and *)
(* neither holds its mutex while it calls the other, so that their states  *)
(* do not depend on each other: a behaviour drives one of them and leaves  *)
(* the other as it was created, and the numbers of states add up instead   *)
(* of multiplying.                                                         *)
(***************************************************************************)
EXTENDS DbConnectionPool, PcaModelCache

CONSTANTS small, large, huge

\* A small model fits with another one, two large ones do not fit together, a
\* huge one never fits; three small ones fit in bytes but not in entries.
MCUsage == [p \in Paths |-> CASE p = small -> 2 [] p = large -> 4 [] OTHER -> 7]

SharedInit == PoolInit /\ CacheInit

SharedNext ==
    \/ CacheInit /\ PoolNext /\ UNCHANGED cacheVars
    \/ PoolInit /\ CacheNext /\ UNCHANGED poolVars

SharedSpec == SharedInit /\ [][SharedNext]_<<poolVars, cacheVars>> /\ PoolFairness
=============================================================================
