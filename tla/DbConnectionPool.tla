-------------------------- MODULE DbConnectionPool --------------------------
(***************************************************************************)
(* PooledDbConnectionManager (src/db_connection_manager.h and .cpp): a     *)
(* bounded pool of PostgreSQL connections handed out through               *)
(* unique_ptrs whose deleter gives the connection back.                    *)
(*                                                                         *)
(* Clients are the threads that call DbClient.  Most DbClient operations   *)
(* hold one connection, but GetScores and GetEvalMetrics (db_client.cpp)   *)
(* call GetModelRun, which takes a second one, while they hold the first:  *)
(* MaxHeld bounds the nesting.                                             *)
(*                                                                         *)
(* wait_for on cv_ is modelled by its states: a client is asleep, awake    *)
(* (notified, or woken spuriously) or expired (its deadline passed), and   *)
(* then takes mutex_ again and re-evaluates the predicate.  Connecting to  *)
(* the database happens with mutex_ held and takes time, so it is two      *)
(* steps; every other operation is one.  pool_ is a FIFO queue in the      *)
(* code; which idle connection is handed out first matters to no property, *)
(* so it is a set here.  The destructor is left out: no call can be in     *)
(* progress when it runs, so no call sees shutdown_ set.                   *)
(***************************************************************************)
EXTENDS Integers, FiniteSets

CONSTANTS
    Clients,
    Conns,      \* identities for pqxx::connection objects
    PoolSize,   \* pool_size_
    MaxHeld,    \* connections one client may hold at a time
    Nobody

ASSUME PoolAssumption ==
    /\ PoolSize \in Nat
    /\ MaxHeld \in Nat
    /\ Nobody \notin Clients

VARIABLES
    pool_,          \* idle connections
    in_use_count_,
    lent,           \* connection -> the client that holds it, or Nobody
    broken,         \* connections for which is_open() is false
    connecting,     \* the client that is connecting with mutex_ held, or Nobody
    pc,             \* client -> where it is in GetConnection, "run" outside it
    outcome         \* client -> how its last GetConnection ended

poolVars == <<pool_, in_use_count_, lent, broken, connecting, pc, outcome>>

Lent == {c \in Conns : lent[c] # Nobody}
Held(cl) == {c \in Conns : lent[c] = cl}

PoolTypeOK ==
    /\ pool_ \in SUBSET Conns
    /\ in_use_count_ \in Nat
    /\ lent \in [Conns -> Clients \cup {Nobody}]
    /\ broken \in SUBSET Conns
    /\ connecting \in Clients \cup {Nobody}
    /\ pc \in [Clients -> {"run", "asleep", "awake", "expired", "creating"}]
    /\ outcome \in [Clients -> {"none", "acquired", "timeout", "failed"}]

PoolInit ==
    /\ pool_ = {}
    /\ in_use_count_ = 0
    /\ lent = [c \in Conns |-> Nobody]
    /\ broken = {}
    /\ connecting = Nobody
    /\ pc = [cl \in Clients |-> "run"]
    /\ outcome = [cl \in Clients |-> "none"]

Unlocked == connecting = Nobody

\* The predicate of the wait, shutdown_ being false.
Available == pool_ # {} \/ in_use_count_ < PoolSize

\* cv_.notify_one(): the possible results of waking one sleeper, if there is one.
NotifyOne(p) ==
    LET sleepers == {w \in Clients : p[w] = "asleep"}
    IN  IF sleepers = {} THEN {p} ELSE {[p EXCEPT ![w] = "awake"] : w \in sleepers}

-----------------------------------------------------------------------------
(* GetConnection *)

\* A client that holds mutex_ and evaluates the predicate: on its first call, or
\* after it was woken, or after its deadline passed.
AtPredicate(cl) ==
    /\ Unlocked
    /\ pc[cl] \in {"run", "awake", "expired"}
    /\ pc[cl] = "run" => Cardinality(Held(cl)) < MaxHeld

\* The predicate is false and the deadline has not passed: release mutex_, sleep.
Sleep(cl) ==
    /\ AtPredicate(cl)
    /\ ~Available
    /\ pc[cl] # "expired"
    /\ pc' = [pc EXCEPT ![cl] = "asleep"]
    /\ UNCHANGED <<pool_, in_use_count_, lent, broken, connecting, outcome>>

\* A spurious wake-up.
Wake(cl) ==
    /\ pc[cl] = "asleep"
    /\ pc' = [pc EXCEPT ![cl] = "awake"]
    /\ UNCHANGED <<pool_, in_use_count_, lent, broken, connecting, outcome>>

\* Faulty variant: an untimed wait.
ExpireNever(cl) == pc[cl] = "asleep" /\ FALSE /\ UNCHANGED poolVars

\* acquire_timeout_ passes while the client sleeps.
Expire(cl) ==
    /\ pc[cl] = "asleep"
    /\ pc' = [pc EXCEPT ![cl] = "expired"]
    /\ UNCHANGED <<pool_, in_use_count_, lent, broken, connecting, outcome>>

\* Faulty variant: gives up at the deadline without looking once more.
TimeoutBlindly(cl) ==
    /\ Unlocked
    /\ pc[cl] = "expired"
    /\ pc' = [pc EXCEPT ![cl] = "run"]
    /\ outcome' = [outcome EXCEPT ![cl] = "timeout"]
    /\ UNCHANGED <<pool_, in_use_count_, lent, broken, connecting>>

\* wait_for re-evaluates the predicate after the deadline and only then gives up.
Timeout(cl) ==
    /\ AtPredicate(cl)
    /\ ~Available
    /\ pc[cl] = "expired"
    /\ pc' = [pc EXCEPT ![cl] = "run"]
    /\ outcome' = [outcome EXCEPT ![cl] = "timeout"]
    /\ UNCHANGED <<pool_, in_use_count_, lent, broken, connecting>>

\* An idle connection is handed out.
TakeIdle(cl) ==
    /\ AtPredicate(cl)
    /\ \E c \in pool_ :
          /\ pool_' = pool_ \ {c}
          /\ lent' = [lent EXCEPT ![c] = cl]
    /\ in_use_count_' = in_use_count_ + 1
    /\ pc' = [pc EXCEPT ![cl] = "run"]
    /\ outcome' = [outcome EXCEPT ![cl] = "acquired"]
    /\ UNCHANGED <<broken, connecting>>

\* Faulty variant: connects although an idle connection is there.
BeginCreateEagerly(cl) ==
    /\ AtPredicate(cl)
    /\ in_use_count_ < PoolSize
    /\ connecting' = cl
    /\ pc' = [pc EXCEPT ![cl] = "creating"]
    /\ UNCHANGED <<pool_, in_use_count_, lent, broken, outcome>>

\* No idle connection but room for one more: connect, keeping mutex_.
BeginCreate(cl) ==
    /\ AtPredicate(cl)
    /\ pool_ = {}
    /\ in_use_count_ < PoolSize
    /\ connecting' = cl
    /\ pc' = [pc EXCEPT ![cl] = "creating"]
    /\ UNCHANGED <<pool_, in_use_count_, lent, broken, outcome>>

CreateSucceeds(cl) ==
    /\ connecting = cl
    /\ \E c \in Conns \ (pool_ \cup Lent) : lent' = [lent EXCEPT ![c] = cl]
    /\ in_use_count_' = in_use_count_ + 1
    /\ connecting' = Nobody
    /\ pc' = [pc EXCEPT ![cl] = "run"]
    /\ outcome' = [outcome EXCEPT ![cl] = "acquired"]
    /\ UNCHANGED <<pool_, broken>>

\* The connection or its initializer fails: in_use_count_ was not incremented.
CreateFails(cl) ==
    /\ connecting = cl
    /\ connecting' = Nobody
    /\ pc' \in NotifyOne([pc EXCEPT ![cl] = "run"])
    /\ outcome' = [outcome EXCEPT ![cl] = "failed"]
    /\ UNCHANGED <<pool_, in_use_count_, lent, broken>>

-----------------------------------------------------------------------------
(* Use and ReleaseConnection *)

\* A lent connection loses its server; its user finds out, is_open() turns false.
Break(c) ==
    /\ lent[c] # Nobody
    /\ c \notin broken
    /\ broken' = broken \cup {c}
    /\ UNCHANGED <<pool_, in_use_count_, lent, connecting, pc, outcome>>

\* Faulty variant: returns every connection to the pool, open or not.
ReleaseUnchecked(c) ==
    /\ Unlocked
    /\ c \in Lent
    /\ pc[lent[c]] = "run"
    /\ in_use_count_' = in_use_count_ - 1
    /\ lent' = [lent EXCEPT ![c] = Nobody]
    /\ pool_' = pool_ \cup {c}
    /\ pc' \in NotifyOne(pc)
    /\ UNCHANGED <<broken, connecting, outcome>>

\* The deleter of a connection that is still open.
ReleaseOpen(c) ==
    /\ Unlocked
    /\ c \in Lent \ broken
    /\ pc[lent[c]] = "run"
    /\ in_use_count_' = in_use_count_ - 1
    /\ lent' = [lent EXCEPT ![c] = Nobody]
    /\ pool_' = pool_ \cup {c}
    /\ pc' \in NotifyOne(pc)
    /\ UNCHANGED <<broken, connecting, outcome>>

\* Faulty variant: the early return comes before the decrement.
ReleaseBrokenLeaks(c) ==
    /\ Unlocked
    /\ c \in Lent \cap broken
    /\ pc[lent[c]] = "run"
    /\ lent' = [lent EXCEPT ![c] = Nobody]
    /\ broken' = broken \ {c}
    /\ UNCHANGED <<pool_, in_use_count_, connecting, pc, outcome>>

\* The deleter of a broken connection: deleted, and nobody is notified.
ReleaseBroken(c) ==
    /\ Unlocked
    /\ c \in Lent \cap broken
    /\ pc[lent[c]] = "run"
    /\ in_use_count_' = in_use_count_ - 1
    /\ lent' = [lent EXCEPT ![c] = Nobody]
    /\ broken' = broken \ {c}
    /\ UNCHANGED <<pool_, connecting, pc, outcome>>

-----------------------------------------------------------------------------

GetConnection(cl) ==
    \/ Sleep(cl)
    \/ Wake(cl)
    \/ Expire(cl)
    \/ Timeout(cl)
    \/ TakeIdle(cl)
    \/ BeginCreate(cl)
    \/ CreateSucceeds(cl)
    \/ CreateFails(cl)

ReleaseConnection(c) == ReleaseOpen(c) \/ ReleaseBroken(c)

PoolNext ==
    \/ \E cl \in Clients : GetConnection(cl)
    \/ \E c \in Conns : Break(c) \/ ReleaseConnection(c)

\* A connection attempt ends; the deadline of a client that keeps going back to
\* sleep passes (strong: the deadline is fixed, waking does not extend it); a
\* client that has been woken or has expired gets mutex_ in the end (strong:
\* mutex_ does not starve a waiter).  Nothing makes a client call or release.
PoolFairness ==
    \A cl \in Clients :
        /\ WF_poolVars(CreateSucceeds(cl) \/ CreateFails(cl))
        /\ SF_poolVars(Expire(cl))
        /\ SF_poolVars(pc[cl] # "run"
                   /\ (Sleep(cl) \/ Timeout(cl) \/ TakeIdle(cl) \/ BeginCreate(cl)))

PoolSpec == PoolInit /\ [][PoolNext]_poolVars
PoolFairSpec == PoolSpec /\ PoolFairness

-----------------------------------------------------------------------------
(* Properties *)

\* in_use_count_ is the number of connections that clients hold: failed connects,
\* broken connections and timeouts neither leak nor double a count.
InUseIsLent == in_use_count_ = Cardinality(Lent)

\* "Bounded connection pool": idle, lent and being-opened connections together
\* never exceed pool_size_, although the wait predicate compares only
\* in_use_count_ with it.
BoundedConnections ==
    Cardinality(pool_) + Cardinality(Lent) + (IF Unlocked THEN 0 ELSE 1) <= PoolSize

\* An idle connection is open and nobody holds it: a broken connection is never
\* handed to another client, and no connection is used by two.
IdleIsUsable == pool_ \cap (Lent \cup broken) = {}

\* "DB connection acquisition timeout" is thrown only while every connection of a
\* full pool is lent, never when a connection or space came free before the
\* client looked for the last time.
TimeoutOnlyWhenExhausted ==
    [][\A cl \in Clients :
          pc[cl] = "expired" /\ pc'[cl] = "run" /\ outcome'[cl] = "timeout"
          => pool_ = {} /\ Cardinality(Lent) >= PoolSize]_poolVars

\* Every GetConnection returns or throws, even when each client holds one
\* connection and waits for a second.
GetConnectionReturns == \A cl \in Clients : pc[cl] # "run" ~> pc[cl] = "run"

\* No client is left asleep while there is a connection or space for it and
\* nobody is on the way to look (db_connection_manager.cpp:30: "Wait for a
\* connection to be available or for space to create a new one").
SleeperWokenForSpace ==
    Unlocked /\ Available /\ (\E cl \in Clients : pc[cl] = "asleep")
    => \E cl \in Clients : pc[cl] \in {"awake", "expired"}

\* Every connection is accounted for: what in_use_count_ counts is lent, and what is
\* not lent is open and used by nobody.
ConnectionsAccounted == InUseIsLent /\ IdleIsUsable
=============================================================================
