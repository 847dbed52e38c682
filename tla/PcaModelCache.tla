--------------------------- MODULE PcaModelCache ---------------------------
(***************************************************************************)
(* PcaModelCache (src/pca_model_cache.h and .cpp): an LRU cache of loaded  *)
(* models, bounded in entries and in bytes, with a time to live.  It is    *)
(* used by HandleInference on request threads and by score jobs.           *)
(*                                                                         *)
(* GetOrCreate gives up mutex_ while it loads the artifact, so it is two   *)
(* steps: Lookup, and Insert or LoadFails.  Everything else is one step.   *)
(* The steady clock is a counter that CacheTick advances up to MaxTime.    *)
(* Equal last_access times are evicted in any order, as the iteration      *)
(* order of the unordered_map is unspecified.  The hit, miss and eviction  *)
(* counters decide nothing and are left out.                               *)
(***************************************************************************)
EXTENDS Integers, FiniteSetsExt, Functions

CONSTANTS
    Callers,
    Models,         \* model_run_ids
    Paths,          \* artifact paths
    Usage,          \* path -> EstimateMemoryUsage() of its model
    MaxEntries,     \* max_entries_
    MaxBytes,       \* max_bytes_
    Ttl,            \* ttl_
    MaxTime,        \* bound on the clock
    MaxCounter      \* bound on current_bytes_ before an insertion

ASSUME CacheAssumption ==
    /\ Usage \in [Paths -> Nat]
    /\ MaxEntries \in Nat \ {0}
    /\ MaxBytes \in Nat
    /\ Ttl \in Nat
    /\ MaxTime \in Nat
    /\ MaxCounter \in Nat

VARIABLES
    cache_,         \* partial function: model -> entry
    current_bytes_,
    now,
    call            \* caller -> the load it has in progress, or Idle

cacheVars == <<cache_, current_bytes_, now, call>>

Idle == [model |-> "none"]
Entry == [last_access : 0..MaxTime, artifact_path : Paths, memory_usage : Nat]

CacheTypeOK ==
    /\ DOMAIN cache_ \subseteq Models
    /\ cache_ \in [DOMAIN cache_ -> Entry]
    /\ current_bytes_ \in Nat
    /\ now \in 0..MaxTime
    /\ call \in [Callers -> {Idle} \cup [model : Models, path : Paths, at : 0..MaxTime]]

CacheInit ==
    /\ cache_ = [m \in {} |-> Idle]
    /\ current_bytes_ = 0
    /\ now = 0
    /\ call = [c \in Callers |-> Idle]

Bytes(S) == SumFunctionOnSet([m \in DOMAIN cache_ |-> cache_[m].memory_usage], S)
Without(S) == Restrict(cache_, DOMAIN cache_ \ S)

-----------------------------------------------------------------------------
(* Eviction *)

\* EvictLru, applied repeatedly, removes a set V of entries in an order of
\* non-decreasing last_access.
LruFirst(V) ==
    \A v \in V, k \in DOMAIN cache_ \ V : cache_[v].last_access <= cache_[k].last_access

\* Faulty variant: the bytes to be added are not counted.
EnsureCapacityIgnoresNew(V, additional) ==
    LET over(S) == current_bytes_ - Bytes(S) > MaxBytes
    IN  /\ V = DOMAIN cache_ \/ ~over(V)
        /\ V # {} => \E v \in V : LruFirst(V \ {v}) /\ over(V \ {v})

\* EnsureCapacity stops when the cache is empty or the bytes fit; there is a
\* last entry without whose eviction it would not have stopped.
EnsureCapacity(V, additional) ==
    LET over(S) == current_bytes_ - Bytes(S) + additional > MaxBytes
    IN  /\ V = DOMAIN cache_ \/ ~over(V)
        /\ V # {} => \E v \in V : LruFirst(V \ {v}) /\ over(V \ {v})

\* The sets of entries that GetOrCreate may evict to make room: those of
\* EnsureCapacity, then one more if the number of entries is at its limit.
Victims(additional) ==
    {V \in SUBSET DOMAIN cache_ :
        /\ LruFirst(V)
        /\ \E W \in SUBSET V :
              /\ LruFirst(W)
              /\ EnsureCapacity(W, additional)
              /\ Cardinality(V \ W) =
                    IF Cardinality(DOMAIN cache_ \ W) >= MaxEntries THEN 1 ELSE 0}

-----------------------------------------------------------------------------
(* GetOrCreate *)

Expired(m) == now - cache_[m].last_access > Ttl

Hit(c, m, p) ==
    /\ call[c] = Idle
    /\ m \in DOMAIN cache_
    /\ ~Expired(m)
    /\ cache_[m].artifact_path = p
    /\ cache_' = [cache_ EXCEPT ![m].last_access = now]
    /\ UNCHANGED <<current_bytes_, now, call>>

\* Faulty variant: dropping an entry does not give back its bytes.
MissKeepsBytes(c, m, p) ==
    /\ call[c] = Idle
    /\ m \in DOMAIN cache_ => Expired(m) \/ cache_[m].artifact_path # p
    /\ cache_' = Without({m})
    /\ call' = [call EXCEPT ![c] = [model |-> m, path |-> p, at |-> now]]
    /\ UNCHANGED <<current_bytes_, now>>

\* A miss, an expired entry or an entry of another path: drop the entry, release
\* mutex_ and load.  The time of the call is kept for the new entry.
Miss(c, m, p) ==
    /\ call[c] = Idle
    /\ m \in DOMAIN cache_ => Expired(m) \/ cache_[m].artifact_path # p
    /\ current_bytes_' = current_bytes_ - Bytes({m} \cap DOMAIN cache_)
    /\ cache_' = Without({m})
    /\ call' = [call EXCEPT ![c] = [model |-> m, path |-> p, at |-> now]]
    /\ UNCHANGED now

LoadFails(c) ==
    /\ call[c] # Idle
    /\ call' = [call EXCEPT ![c] = Idle]
    /\ UNCHANGED <<cache_, current_bytes_, now>>

\* The load is done and mutex_ taken again: make room and assign the entry.  Two
\* loads of one model drive the counter up without limit, hence the bound.
Insert(c) ==
    /\ call[c] # Idle
    /\ current_bytes_ <= MaxCounter
    /\ LET m == call[c].model
           usage == Usage[call[c].path]
           entry == [last_access |-> call[c].at, artifact_path |-> call[c].path,
                     memory_usage |-> usage]
       IN  IF usage > MaxBytes
           THEN UNCHANGED <<cache_, current_bytes_>>
           ELSE \E V \in Victims(usage) :
                   /\ cache_' = [k \in (DOMAIN cache_ \ V) \cup {m} |->
                                    IF k = m THEN entry ELSE cache_[k]]
                   /\ current_bytes_' = current_bytes_ - Bytes(V) + usage
    /\ call' = [call EXCEPT ![c] = Idle]
    /\ UNCHANGED now

-----------------------------------------------------------------------------
(* The other operations *)

Invalidate(m) ==
    /\ m \in DOMAIN cache_
    /\ current_bytes_' = current_bytes_ - Bytes({m})
    /\ cache_' = Without({m})
    /\ UNCHANGED <<now, call>>

\* Faulty variant: the counter is reset, the entries stay.
ClearCounterOnly ==
    /\ current_bytes_' = 0
    /\ UNCHANGED <<cache_, now, call>>

Clear ==
    /\ cache_' = [m \in {} |-> Idle]
    /\ current_bytes_' = 0
    /\ UNCHANGED <<now, call>>

CacheTick ==
    /\ now < MaxTime
    /\ now' = now + 1
    /\ UNCHANGED <<cache_, current_bytes_, call>>

GetOrCreate(c) ==
    \/ \E m \in Models, p \in Paths : Hit(c, m, p) \/ Miss(c, m, p)
    \/ LoadFails(c)
    \/ Insert(c)

CacheNext ==
    \/ \E c \in Callers : GetOrCreate(c)
    \/ \E m \in Models : Invalidate(m)
    \/ Clear
    \/ CacheTick

CacheSpec == CacheInit /\ [][CacheNext]_cacheVars

-----------------------------------------------------------------------------
(* Properties *)

\* The memory the cached models really use stays within max_bytes_ and their
\* number within max_entries_, even when concurrent loads make the byte counter
\* drift.
WithinLimits ==
    Bytes(DOMAIN cache_) <= MaxBytes /\ Cardinality(DOMAIN cache_) <= MaxEntries

\* The counter is never below what the entries use, so no subtraction of a
\* size_t wraps around.
NeverUndercounts == current_bytes_ >= Bytes(DOMAIN cache_)

Drift == current_bytes_ - Bytes(DOMAIN cache_)

\* The counter departs from the footprint only when an insertion replaces an entry
\* that another caller made meanwhile, and by exactly that entry's bytes; expiry,
\* changed paths, evictions and failed loads keep it exact.  Clear repairs it.
DriftOnlyByOverwrite ==
    [][\/ Drift' = Drift
       \/ cache_' = [m \in {} |-> Idle] /\ current_bytes_' = 0
       \/ \E c \in Callers :
             /\ call[c] # Idle /\ call'[c] = Idle
             /\ call[c].model \in DOMAIN cache_
             /\ Drift' = Drift + cache_[call[c].model].memory_usage]_cacheVars

\* The limits hold and the counter never lags behind what the entries use.
CacheInv == CacheTypeOK /\ WithinLimits /\ NeverUndercounts
=============================================================================
