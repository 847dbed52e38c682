------------------------------- MODULE Scorer -------------------------------
(***************************************************************************)
(* The scoring loop (src/scorer_main.cpp): at every second one record per  *)
(* host of this shard goes through Detector A, the gate, the PCA model     *)
(* (Detector B) and the AlertManager.                                      *)
(*                                                                         *)
(* The values of the records are free; the program's simulation is one     *)
(* choice of them.  Detector B's verdict is free as well.  One metric      *)
(* stands for the five: they only share the update count, and their flags  *)
(* are or-ed.                                                              *)
(***************************************************************************)
EXTENDS Integers, Sequences, FiniteSetsExt, DetectorA, AlertManager

CONSTANTS
    Hosts,      \* sequence of host ids, in the order of the loop
    MyShard,    \* the hosts whose hash falls into this shard
    Values,     \* metric values
    Period,     \* gating period in seconds
    MaxTime     \* number of seconds simulated

ASSUME ScorerAssumption ==
    /\ Hosts \in Seq(STRING) /\ Hosts # <<>>
    /\ \A i, j \in DOMAIN Hosts : Hosts[i] = Hosts[j] => i = j
    /\ Values \subseteq Int
    /\ Period \in Nat \ {0}
    /\ MaxTime \in Nat

VARIABLES
    now,            \* current_time; the first second is 1
    turn,           \* position in Hosts
    detectors_a,    \* host -> state of the metric
    update_count,   \* host -> updates of its detector, modulo RecomputeInterval
    last_b_run,     \* host -> last_b_run, 0 is the epoch
    fusion,         \* host -> FusionState
    trail           \* history: host -> what was found at each second

vars == <<now, turn, detectors_a, update_count, last_b_run, fusion, trail>>

HostSet == {Hosts[i] : i \in DOMAIN Hosts}
Entry == [a : BOOLEAN, b : {"normal", "anomaly", "skipped"},
          alert : {"none", "MEDIUM", "HIGH", "CRITICAL"}]

TypeOK ==
    /\ now \in 1..(MaxTime + 1)
    /\ turn \in 1..Len(Hosts)
    /\ update_count \in [HostSet -> 0..(RecomputeInterval - 1)]
    /\ last_b_run \in [HostSet -> 0..MaxTime]
    /\ fusion \in [HostSet -> [consecutive : Nat, last_alert : 0..MaxTime]]
    /\ trail \in [HostSet -> Seq(Entry)]

Init ==
    /\ now = 1
    /\ turn = 1
    /\ detectors_a = [h \in HostSet |-> InitMetricState]
    /\ update_count = [h \in HostSet |-> 0]
    /\ last_b_run = [h \in HostSet |-> 0]
    /\ fusion = [h \in HostSet |-> InitFusionState]
    /\ trail = [h \in HostSet |-> <<>>]

Advance ==
    IF turn = Len(Hosts) THEN turn' = 1 /\ now' = now + 1
    ELSE turn' = turn + 1 /\ UNCHANGED now

\* Another shard scores this host.
NotMyShard ==
    /\ now <= MaxTime
    /\ Hosts[turn] \notin MyShard
    /\ Advance
    /\ UNCHANGED <<detectors_a, update_count, last_b_run, fusion, trail>>

\* Faulty variant: only the schedule counts.
RunBScheduledOnly(h, flag_a) == now - last_b_run[h] >= Period

\* The gate.  The epoch is far away: the first record is always scheduled.
RunB(h, flag_a) == flag_a \/ last_b_run[h] = 0 \/ now - last_b_run[h] >= Period

ScoreRecord ==
    /\ now <= MaxTime
    /\ Hosts[turn] \in MyShard
    /\ \E v \in Values, anomaly_b \in BOOLEAN :
          LET h == Hosts[turn]
              st == Scored(detectors_a[h], update_count[h])
              flag_a == Flagged(st, v)
              run_b == RunB(h, flag_a)
              flag_b == run_b /\ anomaly_b
              flag == flag_a \/ flag_b
          IN  /\ ~run_b => ~anomaly_b
              /\ detectors_a' = [detectors_a EXCEPT ![h] = Update(@, update_count[h], v)]
              /\ update_count' = [update_count EXCEPT ![h] = (@ + 1) % RecomputeInterval]
              /\ last_b_run' = [last_b_run EXCEPT ![h] = IF run_b THEN now ELSE @]
              /\ fusion' = [fusion EXCEPT ![h] = Evaluate(@, now, flag)]
              /\ trail' = [trail EXCEPT ![h] = Append(@,
                   [a |-> flag_a,
                    b |-> IF ~run_b THEN "skipped" ELSE IF flag_b THEN "anomaly" ELSE "normal",
                    alert |-> IF Raises(fusion[h], now, flag)
                              THEN Severity(flag_a, flag_b, Exceeds(st, v, 10)) ELSE "none"])]
    /\ Advance

Next == NotMyShard \/ ScoreRecord
Spec == Init /\ [][Next]_vars

-----------------------------------------------------------------------------
(* Properties *)

Anomalous(e) == e.a \/ e.b = "anomaly"
Alert(e) == e.alert # "none"

\* Two alerts of a host are at least the cooldown apart.
AlertsApart ==
    \A h \in HostSet : \A i, j \in DOMAIN trail[h] :
        i < j /\ Alert(trail[h][i]) /\ Alert(trail[h][j]) => j - i >= Cooldown

\* An alert confirms that the last Hysteresis records were all anomalous and that
\* none of them has been used for an earlier alert.
AlertIsConfirmed ==
    \A h \in HostSet : \A j \in DOMAIN trail[h] : Alert(trail[h][j]) =>
        /\ j >= Hysteresis
        /\ \A i \in (j - Hysteresis + 1)..j :
              Anomalous(trail[h][i]) /\ (i < j => ~Alert(trail[h][i]))

\* An anomaly that persists is reported: among as many anomalous records in a row as
\* both the hysteresis and the cooldown (in seconds) ask for there is an alert.
PersistentAnomalyAlerts ==
    \A h \in HostSet : \A j \in DOMAIN trail[h] :
        LET first == j - Max({Hysteresis, Cooldown, 1}) + 1
        IN  first >= 1 /\ (\A i \in first..j : Anomalous(trail[h][i]))
                => \E i \in first..j : Alert(trail[h][i])

\* Detector B sees every record that Detector A flags, and otherwise at least one in
\* every Period seconds, however triggered and scheduled evaluations mix.
GateLetsThrough ==
    \A h \in HostSet : \A j \in DOMAIN trail[h] :
        /\ trail[h][j].a => trail[h][j].b # "skipped"
        /\ j >= Period => \E i \in (j - Period + 1)..j : trail[h][i].b # "skipped"

\* The running sums are those of the window, whatever was pushed, dropped and
\* skipped.
SumsMatchWindow ==
    \A h \in HostSet : LET st == detectors_a[h] IN
        /\ Len(st.buffer) <= WindowSize
        /\ st.sum = Sum(st.buffer)
        /\ st.sum_sq = Sum(Squares(st.buffer))

\* A record is scored against the initial zeros of median and MAD only between the end
\* of the warm-up and the first recompute tick from there on: fewer than
\* RecomputeInterval records, and none at all where the interval divides MinHistory,
\* as it does in the default configuration.
ScoredWithStats ==
    \A h \in HostSet :
        LET st == Scored(detectors_a[h], update_count[h])
        IN  Warm(st) => \/ st.computed
                        \/ /\ Len(trail[h]) >= MinHistory
                           /\ \A n \in MinHistory..Len(trail[h]) : n % RecomputeInterval # 0

\* Every alert is justified: far enough from the one before, and confirmed by records
\* of its own.
AlertsJustified == AlertsApart /\ AlertIsConfirmed

\* The statistics that Detector A scores with belong to its window, and are there from
\* the first tick after the warm-up on.
WindowInv == SumsMatchWindow /\ ScoredWithStats
=============================================================================
