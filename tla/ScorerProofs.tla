---------------------------- MODULE ScorerProofs ----------------------------
(***************************************************************************)
(* Proofs about                                                            *)
(*  - Scorer, the scoring loop, for any hosts, shard, metric values,       *)
(*    detector parameters, gating period, hysteresis, cooldown and length  *)
(*    of the simulation;                                                   *)
(*  - DbConnectionPool, for any number of clients and connections, every   *)
(*    pool size (zero included) and every nesting depth.                   *)
(***************************************************************************)
EXTENDS Scorer, DbConnectionPool, FiniteSetTheorems, WellFoundedInduction, TLAPS

-----------------------------------------------------------------------------
(* Scorer *)

\* A host has one entry per second that it was scored at: entry i is of second i.
TimeInv ==
    \A k \in DOMAIN Hosts :
        Len(trail[Hosts[k]]) = IF Hosts[k] \notin MyShard THEN 0
                               ELSE IF k < turn THEN now ELSE now - 1

\* last_alert_time is the second of the last alert.
LastAlertInv(h) ==
    /\ fusion[h].last_alert \in 0..Len(trail[h])
    /\ fusion[h].last_alert > 0 => Alert(trail[h][fusion[h].last_alert])
    /\ \A i \in DOMAIN trail[h] : i > fusion[h].last_alert => ~Alert(trail[h][i])

\* Entry i of host h is anomalous and raised no alert.
Pending(h, i) == Anomalous(trail[h][i]) /\ ~Alert(trail[h][i])

\* The hysteresis counter is the length of the longest run of such entries at the end.
CounterInv(h) ==
    /\ fusion[h].consecutive \in 0..Len(trail[h])
    /\ \A i \in DOMAIN trail[h] :
          i > Len(trail[h]) - fusion[h].consecutive => Pending(h, i)
    /\ fusion[h].consecutive < Len(trail[h])
       => ~Pending(h, Len(trail[h]) - fusion[h].consecutive)

\* last_b_run is the second at which Detector B last saw a record, from the first on.
GateInv(h) ==
    /\ last_b_run[h] \in 0..Len(trail[h])
    /\ last_b_run[h] = 0 <=> Len(trail[h]) = 0
    /\ last_b_run[h] > 0 => trail[h][last_b_run[h]].b # "skipped"

IInv ==
    /\ TypeOK
    /\ TimeInv
    /\ \A h \in HostSet : LastAlertInv(h) /\ CounterInv(h) /\ GateInv(h)
    /\ AlertsApart
    /\ AlertIsConfirmed
    /\ PersistentAnomalyAlerts
    /\ GateLetsThrough

-----------------------------------------------------------------------------
(* What one record does *)

\* The longest wait of a persistent anomaly is the larger of hysteresis and cooldown.
LEMMA LongestWait ==
    LET m == Max({Hysteresis, Cooldown, 1})
    IN  m \in Nat /\ m >= Hysteresis /\ m >= Cooldown /\ m >= 1
<1> DEFINE S == {Hysteresis, Cooldown, 1}
<1>1. \E x \in S : \A y \in S : x >= y
  <2>1. CASE Hysteresis >= Cooldown /\ Hysteresis >= 1
      BY <2>1, AlertAssumption
  <2>2. CASE Cooldown >= Hysteresis /\ Cooldown >= 1
      BY <2>2, AlertAssumption
  <2>3. CASE 1 >= Hysteresis /\ 1 >= Cooldown
      BY <2>3, AlertAssumption
  <2> QED
      BY <2>1, <2>2, <2>3, AlertAssumption
<1>2. Max(S) \in S /\ \A y \in S : Max(S) >= y
    BY <1>1, Zenon DEF Max
<1> QED
    BY <1>2, AlertAssumption

\* ScoreRecord as the trail sees it: one entry, which decides over the alert, the
\* hysteresis and the gate.
LEMMA OneEntry ==
    ASSUME ScoreRecord
    PROVE  LET h == Hosts[turn] IN
           \E e \in Entry :
              /\ trail' = [trail EXCEPT ![h] = Append(@, e)]
              /\ fusion' = [fusion EXCEPT ![h] = Evaluate(@, now, Anomalous(e))]
              /\ Alert(e) <=> Raises(fusion[h], now, Anomalous(e))
              /\ last_b_run' = [last_b_run EXCEPT ![h] = IF e.b # "skipped" THEN now ELSE @]
              /\ e.b # "skipped" <=> RunB(h, e.a)
              /\ update_count' = [update_count EXCEPT ![h] = (@ + 1) % RecomputeInterval]
<1> DEFINE h == Hosts[turn]
<1>1. PICK v \in Values, anomaly_b \in BOOLEAN :
          LET st == Scored(detectors_a[h], update_count[h])
              flag_a == Flagged(st, v)
              run_b == RunB(h, flag_a)
              flag_b == run_b /\ anomaly_b
              flag == flag_a \/ flag_b
          IN  /\ update_count' = [update_count EXCEPT ![h] = (@ + 1) % RecomputeInterval]
              /\ last_b_run' = [last_b_run EXCEPT ![h] = IF run_b THEN now ELSE @]
              /\ fusion' = [fusion EXCEPT ![h] = Evaluate(@, now, flag)]
              /\ trail' = [trail EXCEPT ![h] = Append(@,
                   [a |-> flag_a,
                    b |-> IF ~run_b THEN "skipped" ELSE IF flag_b THEN "anomaly" ELSE "normal",
                    alert |-> IF Raises(fusion[h], now, flag)
                              THEN Severity(flag_a, flag_b, Exceeds(st, v, 10)) ELSE "none"])]
    BY Zenon DEF ScoreRecord
<1> DEFINE st == Scored(detectors_a[h], update_count[h])
           flag_a == Flagged(st, v)
           run_b == RunB(h, flag_a)
           flag_b == run_b /\ anomaly_b
           raises == Raises(fusion[h], now, flag_a \/ flag_b)
           severity == Severity(flag_a, flag_b, Exceeds(st, v, 10))
           e == [a |-> flag_a,
                 b |-> IF ~run_b THEN "skipped" ELSE IF flag_b THEN "anomaly" ELSE "normal",
                 alert |-> IF raises THEN severity ELSE "none"]
<1>2. flag_a \in BOOLEAN /\ flag_b \in BOOLEAN /\ run_b \in BOOLEAN
    BY DEF Flagged, RunB
<1>3. severity \in {"MEDIUM", "HIGH", "CRITICAL"}
    BY DEF Severity
<1>4. e \in Entry
    BY <1>2, <1>3 DEF Entry
<1>5. Anomalous(e) = (flag_a \/ flag_b)
    BY <1>2 DEF Anomalous
<1>6. Alert(e) <=> raises
    BY <1>3 DEF Alert
<1>7. e.b # "skipped" <=> run_b
    BY <1>2
<1> QED
    BY <1>1, <1>4, <1>5, <1>6, <1>7, Zenon

-----------------------------------------------------------------------------
(* The inductive invariant *)

\* It holds before the first second.
LEMMA InitInv == Init => IInv
<1> SUFFICES ASSUME Init PROVE IInv
    OBVIOUS
<1>1. Len(Hosts) \in Nat \ {0} /\ DOMAIN Hosts = 1..Len(Hosts)
    BY ScorerAssumption
<1>2. \A h \in HostSet : trail[h] = <<>>
    BY DEF Init
<1>3. TypeOK
    BY <1>1, ScorerAssumption, DetectorAssumption DEF Init, TypeOK, InitFusionState
<1>4. TimeInv
    BY <1>1, <1>2 DEF Init, TimeInv, HostSet
<1>5. \A h \in HostSet : LastAlertInv(h) /\ CounterInv(h) /\ GateInv(h)
    BY <1>2 DEF Init, InitFusionState, LastAlertInv, CounterInv, GateInv
<1>6. AlertsApart /\ AlertIsConfirmed /\ PersistentAnomalyAlerts /\ GateLetsThrough
    BY <1>2 DEF AlertsApart, AlertIsConfirmed, PersistentAnomalyAlerts, GateLetsThrough
<1> QED BY <1>3, <1>4, <1>5, <1>6, Zenon DEF IInv

\* Scoring a record preserves it.
LEMMA ScoreStep ==
    ASSUME IInv, ScoreRecord
    PROVE  IInv'
<1>a. turn \in 1..Len(Hosts) /\ DOMAIN Hosts = 1..Len(Hosts) /\ Len(Hosts) \in Nat
    BY ScorerAssumption DEF IInv, TypeOK
<1>b. now <= MaxTime /\ Hosts[turn] \in MyShard /\ Advance
    BY Zenon DEF ScoreRecord
<1>c. PICK h \in HostSet : h = Hosts[turn]
    BY <1>a DEF HostSet
<1>1. PICK e \in Entry :
          /\ trail' = [trail EXCEPT ![h] = Append(@, e)]
          /\ fusion' = [fusion EXCEPT ![h] = Evaluate(@, now, Anomalous(e))]
          /\ Alert(e) <=> Raises(fusion[h], now, Anomalous(e))
          /\ last_b_run' = [last_b_run EXCEPT ![h] = IF e.b # "skipped" THEN now ELSE @]
          /\ e.b # "skipped" <=> RunB(h, e.a)
          /\ update_count' = [update_count EXCEPT ![h] = (@ + 1) % RecomputeInterval]
    BY <1>c, OneEntry
<1>2. /\ turn \in DOMAIN Hosts /\ h \in HostSet /\ h \in MyShard /\ h = Hosts[turn]
      /\ now \in 1..MaxTime /\ Len(trail[h]) = now - 1
      /\ trail[h] \in Seq(Entry)
  <2>1. Len(trail[Hosts[turn]]) = IF Hosts[turn] \notin MyShard THEN 0
                                  ELSE IF turn < turn THEN now ELSE now - 1
      BY <1>a DEF IInv, TimeInv
  <2>2. now \in 1..MaxTime
      BY <1>b, ScorerAssumption DEF IInv, TypeOK
  <2>3. trail[h] \in Seq(Entry)
      BY <1>c DEF IInv, TypeOK
  <2> QED BY <1>a, <1>b, <1>c, <2>1, <2>2, <2>3
<1>3. \A q \in HostSet : q # h =>
          trail'[q] = trail[q] /\ fusion'[q] = fusion[q] /\ last_b_run'[q] = last_b_run[q]
    BY <1>1 DEF IInv, TypeOK
<1>4. /\ trail'[h] \in Seq(Entry) /\ Len(trail'[h]) = now
      /\ DOMAIN trail'[h] = 1..now /\ DOMAIN trail[h] = 1..(now - 1)
      /\ trail'[h][now] = e
      /\ \A i \in 1..(now - 1) : trail'[h][i] = trail[h][i]
  <2>1. trail'[h] = Append(trail[h], e)
      BY <1>1, <1>2 DEF IInv, TypeOK
  <2> QED
      BY <1>2, <2>1
<1>5. /\ fusion[h] \in [consecutive : Nat, last_alert : 0..MaxTime]
      /\ fusion'[h] = Evaluate(fusion[h], now, Anomalous(e))
      /\ last_b_run[h] \in 0..MaxTime
      /\ last_b_run'[h] = IF e.b # "skipped" THEN now ELSE last_b_run[h]
    BY <1>1, <1>2 DEF IInv, TypeOK
<1>6. fusion'[h] = IF Alert(e) THEN [consecutive |-> 0, last_alert |-> now]
                   ELSE [consecutive |-> IF Anomalous(e) THEN fusion[h].consecutive + 1 ELSE 0,
                         last_alert |-> fusion[h].last_alert]
    BY <1>1, <1>5 DEF Evaluate
<1>7. Alert(e) => Anomalous(e)
    BY <1>1 DEF Raises
<1>8. LastAlertInv(h) /\ CounterInv(h) /\ GateInv(h)
    BY <1>2 DEF IInv
<1>9. TypeOK'
  <2>1. now' \in 1..(MaxTime + 1) /\ turn' \in 1..Len(Hosts)
      BY <1>a, <1>b, <1>2, ScorerAssumption DEF Advance, IInv, TypeOK
  <2>2. update_count' \in [HostSet -> 0..(RecomputeInterval - 1)]
      BY <1>1, <1>2, DetectorAssumption DEF IInv, TypeOK
  <2>3. last_b_run' \in [HostSet -> 0..MaxTime]
      BY <1>1, <1>2, ScorerAssumption DEF IInv, TypeOK
  <2>4. fusion'[h] \in [consecutive : Nat, last_alert : 0..MaxTime]
      BY <1>2, <1>5, <1>6, ScorerAssumption
  <2>5. fusion' \in [HostSet -> [consecutive : Nat, last_alert : 0..MaxTime]]
      BY <1>1, <1>2, <2>4, Zenon DEF IInv, TypeOK
  <2>6. trail' \in [HostSet -> Seq(Entry)]
      BY <1>1, <1>2, <1>4 DEF IInv, TypeOK
  <2> QED BY <2>1, <2>2, <2>3, <2>5, <2>6, Zenon DEF TypeOK
<1>10. TimeInv'
  <2> SUFFICES ASSUME NEW k \in DOMAIN Hosts
               PROVE  Len(trail'[Hosts[k]]) = IF Hosts[k] \notin MyShard THEN 0
                                              ELSE IF k < turn' THEN now' ELSE now' - 1
      BY DEF TimeInv
  <2>1. Hosts[k] = h <=> k = turn
      BY <1>2, ScorerAssumption
  <2>2. Hosts[k] \in HostSet
      BY DEF HostSet
  <2>3. /\ k < turn \/ k = turn \/ k > turn
        /\ k >= 1 /\ k <= Len(Hosts)
        /\ Len(trail[Hosts[k]]) = IF Hosts[k] \notin MyShard THEN 0
                                  ELSE IF k < turn THEN now ELSE now - 1
      BY <1>a DEF IInv, TimeInv
  <2>4. CASE k = turn
      BY <1>a, <1>b, <1>2, <1>4, <2>1, <2>4 DEF Advance
  <2>5. CASE k # turn
    <3>1. Len(trail'[Hosts[k]]) = Len(trail[Hosts[k]])
        BY <1>3, <2>1, <2>2, <2>5, Zenon
    <3> QED BY <1>a, <1>b, <1>2, <2>3, <2>5, <3>1 DEF Advance
  <2> QED
      BY <2>4, <2>5
<1>11. ASSUME NEW q \in HostSet
       PROVE  (LastAlertInv(q) /\ CounterInv(q) /\ GateInv(q))'
  <2>1. CASE q # h
      BY <1>3, <2>1, Zenon DEF IInv, LastAlertInv, CounterInv, GateInv, Pending
  <2>2. LastAlertInv(h)'
    <3>1. CASE Alert(e)
      <4>1. fusion'[h].last_alert = now
          BY <1>6, <3>1
      <4> QED BY <1>2, <1>4, <3>1, <4>1 DEF LastAlertInv
    <3>2. CASE ~Alert(e)
      <4>1. fusion'[h].last_alert = fusion[h].last_alert
          BY <1>6, <3>2
      <4>2. /\ fusion[h].last_alert \in 0..(now - 1)
            /\ fusion[h].last_alert > 0 => Alert(trail[h][fusion[h].last_alert])
            /\ \A i \in 1..(now - 1) : i > fusion[h].last_alert => ~Alert(trail[h][i])
          BY <1>2, <1>4, <1>8, Zenon DEF LastAlertInv
      <4>3. fusion[h].last_alert > 0 => Alert(trail'[h][fusion[h].last_alert])
          BY <1>2, <1>4, <4>2
      <4>4. \A i \in 1..now : i > fusion[h].last_alert => ~Alert(trail'[h][i])
          BY <1>2, <1>4, <3>2, <4>2
      <4> QED BY <1>2, <1>4, <4>1, <4>2, <4>3, <4>4 DEF LastAlertInv
    <3> QED BY <3>1, <3>2
  <2>3. CounterInv(h)'
    <3> DEFINE After(i) == Anomalous(trail'[h][i]) /\ ~Alert(trail'[h][i])
    <3>0. /\ fusion[h].consecutive \in 0..(now - 1)
          /\ \A i \in 1..(now - 1) : i > now - 1 - fusion[h].consecutive => Pending(h, i)
          /\ fusion[h].consecutive < now - 1 => ~Pending(h, now - 1 - fusion[h].consecutive)
        BY <1>2, <1>4, <1>8, Zenon DEF CounterInv
    <3>1. \A i \in 1..(now - 1) : After(i) <=> Pending(h, i)
        BY <1>4 DEF Pending
    <3>2. After(now) <=> Anomalous(e) /\ ~Alert(e)
        BY <1>4, Zenon DEF Pending
    <3> HIDE DEF After
    <3>3. CASE Anomalous(e) /\ ~Alert(e)
      <4>1. fusion'[h].consecutive = fusion[h].consecutive + 1
          BY <1>6, <3>3
      <4>2. \A i \in 1..now : i > now - (fusion[h].consecutive + 1) => After(i)
          BY <1>2, <3>0, <3>1, <3>2, <3>3
      <4>3. fusion[h].consecutive + 1 < now
            => ~After(now - (fusion[h].consecutive + 1))
          BY <1>2, <3>0, <3>1
      <4> QED BY <1>2, <1>4, <3>0, <4>1, <4>2, <4>3 DEF CounterInv, Pending, After
    <3>4. CASE ~(Anomalous(e) /\ ~Alert(e))
      <4>1. fusion'[h].consecutive = 0
          BY <1>6, <1>7, <3>4
      <4> QED BY <1>2, <1>4, <3>2, <3>4, <4>1 DEF CounterInv, Pending, After
    <3> QED BY <3>3, <3>4, Zenon
  <2>4. GateInv(h)'
      BY <1>1, <1>2, <1>4, <1>5, <1>8 DEF GateInv, RunB
  <2> QED BY <2>1, <2>2, <2>3, <2>4, Zenon
<1>12. AlertsApart'
  <2> SUFFICES ASSUME NEW q \in HostSet, NEW i \in DOMAIN trail'[q], NEW j \in DOMAIN trail'[q],
                      i < j, Alert(trail'[q][i]), Alert(trail'[q][j])
               PROVE  j - i >= Cooldown
      BY DEF AlertsApart
  <2>0. CASE q # h
      BY <1>3, <2>0 DEF IInv, AlertsApart
  <2>1. CASE q = h /\ j # now
    <3>1. i \in 1..(now - 1) /\ j \in 1..(now - 1)
        BY <1>2, <1>4, <2>1
    <3> QED BY <1>2, <1>4, <2>1, <3>1, Zenon DEF IInv, AlertsApart
  <2>2. CASE q = h /\ j = now
    <3>1. i \in DOMAIN trail[h] /\ Alert(trail[h][i])
        BY <1>2, <1>4, <2>2
    <3>2. i <= fusion[h].last_alert
        BY <1>2, <1>4, <1>5, <1>8, <3>1 DEF LastAlertInv
    <3>3. fusion[h].last_alert > 0 /\ now - fusion[h].last_alert >= Cooldown
        BY <1>1, <1>2, <1>4, <1>5, <2>2, <3>1, <3>2 DEF Raises
    <3> QED BY <1>2, <1>4, <1>5, <2>2, <3>1, <3>2, <3>3, AlertAssumption
  <2> QED BY <2>0, <2>1, <2>2
<1>13. AlertIsConfirmed'
  <2> SUFFICES ASSUME NEW q \in HostSet, NEW j \in DOMAIN trail'[q], Alert(trail'[q][j])
               PROVE  /\ j >= Hysteresis
                      /\ \A i \in (j - Hysteresis + 1)..j :
                            Anomalous(trail'[q][i]) /\ (i < j => ~Alert(trail'[q][i]))
      BY DEF AlertIsConfirmed, Anomalous, Alert
  <2>1. CASE q # h
      BY <1>3, <2>1 DEF IInv, AlertIsConfirmed
  <2>2. CASE q = h /\ j # now
    <3>1. j \in DOMAIN trail[h] /\ Alert(trail[h][j]) /\ j \in 1..(now - 1)
        BY <1>2, <1>4, <2>2
    <3>2. j >= Hysteresis /\ \A i \in (j - Hysteresis + 1)..j :
              Anomalous(trail[h][i]) /\ (i < j => ~Alert(trail[h][i]))
        BY <1>2, <3>1, Zenon DEF IInv, AlertIsConfirmed
    <3>3. \A i \in (j - Hysteresis + 1)..j : trail'[h][i] = trail[h][i]
        BY <1>2, <1>4, <3>1, <3>2, AlertAssumption
    <3> QED BY <2>2, <3>2, <3>3, Zenon
  <2>3. CASE q = h /\ j = now
    <3>1. Alert(e) /\ Anomalous(e) /\ fusion[h].consecutive + 1 >= Hysteresis
        BY <1>1, <1>4, <1>7, <2>3, Zenon DEF Raises
    <3>2. fusion[h].consecutive \in 0..(now - 1)
        BY <1>2, <1>8 DEF CounterInv
    <3>3. \A i \in 1..(now - 1) : i > now - 1 - fusion[h].consecutive => Pending(h, i)
        BY <1>2, <1>4, <1>8, Zenon DEF CounterInv
    <3>4. now >= Hysteresis
        BY <1>2, <3>1, <3>2, AlertAssumption
    <3>5. ASSUME NEW i \in (now - Hysteresis + 1)..now
          PROVE  Anomalous(trail'[h][i]) /\ (i < now => ~Alert(trail'[h][i]))
      <4>1. CASE i = now
          BY <1>2, <1>4, <3>1, <4>1
      <4>2. CASE i < now
        <5>1. i \in 1..(now - 1) /\ i > now - 1 - fusion[h].consecutive
            BY <1>2, <3>1, <3>2, <3>4, <4>2, AlertAssumption
        <5> QED BY <1>4, <3>3, <5>1, Zenon DEF Pending
      <4> QED BY <1>2, <4>1, <4>2, AlertAssumption
    <3> QED BY <2>3, <3>4, <3>5, Zenon
  <2> QED BY <2>1, <2>2, <2>3, Zenon
<1>14. PersistentAnomalyAlerts'
  <2> DEFINE m == Max({Hysteresis, Cooldown, 1})
  <2>0. m \in Nat /\ m >= Hysteresis /\ m >= Cooldown /\ m >= 1
      BY LongestWait, Zenon
  <2> HIDE DEF m
  <2>1. \A q \in HostSet : \A j \in DOMAIN trail[q] :
            j - m + 1 >= 1 /\ (\A i \in (j - m + 1)..j : Anomalous(trail[q][i]))
            => \E i \in (j - m + 1)..j : Alert(trail[q][i])
      BY Zenon DEF IInv, PersistentAnomalyAlerts, m
  <2> SUFFICES ASSUME NEW q \in HostSet, NEW j \in DOMAIN trail'[q], j - m + 1 >= 1,
                      \A i \in (j - m + 1)..j : Anomalous(trail'[q][i])
               PROVE  \E i \in (j - m + 1)..j : Alert(trail'[q][i])
      BY Zenon DEF PersistentAnomalyAlerts, Anomalous, Alert, m
  <2>2. CASE q # h
      BY <1>3, <2>1, <2>2
  <2>3. CASE q = h /\ j # now
    <3>1. j \in 1..(now - 1) /\ j \in DOMAIN trail[h]
        BY <1>2, <1>4, <2>3
    <3>2. \A i \in (j - m + 1)..j : trail'[h][i] = trail[h][i]
        BY <1>2, <1>4, <2>0, <3>1
    <3> QED BY <1>2, <2>1, <2>3, <3>1, <3>2
  <2>4. CASE q = h /\ j = now
    <3> SUFFICES ASSUME \A i \in (now - m + 1)..now : ~Alert(trail'[h][i])
                 PROVE  FALSE
        BY <2>4
    <3>1. now \in (now - m + 1)..now /\ now - m + 1 >= 1
        BY <1>2, <2>0, <2>4
    <3>2. Anomalous(e) /\ ~Alert(e)
        BY <1>4, <2>4, <3>1, Zenon
    <3>3. \A i \in 1..(now - 1) : i > now - m => Pending(h, i)
        BY <1>2, <1>4, <2>0, <2>4 DEF Pending
    <3>4. fusion[h].consecutive >= m - 1
      <4>1. fusion[h].consecutive \in 0..(now - 1)
          BY <1>2, <1>8, Zenon DEF CounterInv
      <4>2. fusion[h].consecutive < now - 1 => ~Pending(h, now - 1 - fusion[h].consecutive)
          BY <1>2, <1>8, Zenon DEF CounterInv
      <4>3. ASSUME fusion[h].consecutive < m - 1 PROVE FALSE
        <5>1. /\ now - 1 - fusion[h].consecutive \in 1..(now - 1)
              /\ now - 1 - fusion[h].consecutive > now - m
              /\ fusion[h].consecutive < now - 1
            BY <1>2, <2>0, <3>1, <4>1, <4>3
        <5> QED BY <3>3, <4>2, <5>1, Zenon
      <4> QED BY <2>0, <4>1, <4>3
    <3>5. fusion[h].last_alert > 0 => now - fusion[h].last_alert >= m
      <4>1. fusion[h].last_alert \in 0..(now - 1)
          BY <1>2, <1>8, Zenon DEF LastAlertInv
      <4>2. fusion[h].last_alert > 0 => ~Pending(h, fusion[h].last_alert)
          BY <1>8 DEF LastAlertInv, Pending
      <4> QED BY <1>2, <2>0, <3>3, <4>1, <4>2
    <3> QED BY <1>1, <1>2, <1>5, <2>0, <3>2, <3>4, <3>5, AlertAssumption DEF Raises
  <2> QED BY <2>2, <2>3, <2>4
<1>15. GateLetsThrough'
  <2> SUFFICES ASSUME NEW q \in HostSet, NEW j \in DOMAIN trail'[q]
               PROVE  /\ trail'[q][j].a => trail'[q][j].b # "skipped"
                      /\ j >= Period => \E i \in (j - Period + 1)..j :
                                           trail'[q][i].b # "skipped"
      BY DEF GateLetsThrough
  <2>1. CASE q # h
      BY <1>3, <2>1 DEF IInv, GateLetsThrough
  <2>2. CASE q = h /\ j # now
    <3>1. j \in 1..(now - 1) /\ j \in DOMAIN trail[h] /\ trail'[h][j] = trail[h][j]
        BY <1>2, <1>4, <2>2
    <3>2. j >= Period => \A i \in (j - Period + 1)..j : trail'[h][i] = trail[h][i]
        BY <1>2, <1>4, <3>1, ScorerAssumption
    <3> QED BY <1>2, <2>2, <3>1, <3>2 DEF IInv, GateLetsThrough
  <2>3. CASE q = h /\ j = now
    <3>1. e.a => e.b # "skipped"
        BY <1>1 DEF RunB
    <3>2. CASE e.b # "skipped"
      <4>1. now \in (now - Period + 1)..now
          BY <1>2, ScorerAssumption
      <4> QED BY <1>4, <2>3, <3>1, <3>2, <4>1, Zenon
    <3>3. CASE e.b = "skipped"
      <4>1. last_b_run[h] \in 1..(now - 1) /\ now - last_b_run[h] < Period
          BY <1>1, <1>2, <1>5, <1>8, <3>3, ScorerAssumption, SMTT(30) DEF RunB, GateInv
      <4>2. trail'[h][last_b_run[h]].b # "skipped"
          BY <1>4, <1>8, <4>1 DEF GateInv
      <4>3. last_b_run[h] \in (now - Period + 1)..now
          BY <1>2, <4>1, ScorerAssumption
      <4> QED BY <1>4, <2>3, <3>1, <4>2, <4>3, Zenon
    <3> QED BY <3>2, <3>3
  <2> QED BY <2>1, <2>2, <2>3, Zenon
<1> QED
    BY <1>9, <1>10, <1>11, <1>12, <1>13, <1>14, <1>15, Zenon DEF IInv

\* A host of another shard, and stuttering, preserve it.
LEMMA SkipStep ==
    ASSUME IInv, NotMyShard \/ UNCHANGED vars
    PROVE  IInv'
<1>1. UNCHANGED <<detectors_a, update_count, last_b_run, fusion, trail>>
    BY DEF NotMyShard, vars
<1>2. TypeOK'
    BY <1>1, ScorerAssumption DEF NotMyShard, Advance, vars, IInv, TypeOK
<1>3. TimeInv'
    BY <1>1, ScorerAssumption DEF NotMyShard, Advance, vars, IInv, TypeOK, TimeInv
<1>4. \A q \in HostSet : (LastAlertInv(q) /\ CounterInv(q) /\ GateInv(q))'
    BY <1>1, Zenon DEF IInv, LastAlertInv, CounterInv, GateInv, Pending
<1>5. (AlertsApart /\ AlertIsConfirmed /\ PersistentAnomalyAlerts /\ GateLetsThrough)'
    BY <1>1 DEF IInv, AlertsApart, AlertIsConfirmed, PersistentAnomalyAlerts, GateLetsThrough
<1> QED BY <1>2, <1>3, <1>4, <1>5 DEF IInv

-----------------------------------------------------------------------------
(* The running sums of a window *)

\* A set of naturals has a least element.
LEMMA LeastElement == ASSUME NEW T, T \subseteq Nat, T # {} PROVE \E m \in T : \A k \in T : m <= k
<1> DEFINE R == {ss \in Nat \X Nat : ss[1] < ss[2]}
<1>1. IsWellFoundedOn(R, Nat)
    BY NatLessThanWellFounded DEF OpToRel
<1>2. \A k, m \in Nat : k < m => <<k, m>> \in R
    OBVIOUS
<1> HIDE DEF R
<1>3. PICK m \in T : \A k \in T : ~(<<k, m>> \in R)
    BY <1>1, WFMin, Zenon
<1>4. \A k \in T : k \in Nat /\ m \in Nat /\ ~(k < m)
    BY <1>2, <1>3, Zenon
<1>5. \A k \in T : m <= k
    BY <1>4
<1> QED BY <1>5

\* Induction up to a bound, with a set for the predicate.
LEMMA BoundedInduction ==
    ASSUME NEW n \in Nat, NEW X, 0 \in X, \A k \in 0..(n - 1) : k \in X => k + 1 \in X
    PROVE  \A k \in 0..n : k \in X
<1> DEFINE T == {k \in 0..n : k \notin X}
<1> SUFFICES ASSUME T # {} PROVE FALSE
    OBVIOUS
<1>1. PICK m \in T : \A k \in T : m <= k
  <2>1. T \subseteq Nat
      OBVIOUS
  <2> HIDE DEF T
  <2> QED BY <2>1, LeastElement, Zenon
<1>2. m \in 0..n /\ m \notin X /\ m # 0
    BY <1>1
<1>3. m - 1 \in 0..(n - 1) /\ m - 1 \in 0..n /\ ~(m <= m - 1) /\ (m - 1) + 1 = m
    BY <1>2
<1>4. m - 1 \in X
    BY <1>1, <1>3
<1> QED BY <1>2, <1>3, <1>4

\* F has the sums of the first n elements of s for all n.
PartialSums(F, s) == F = [n \in 0..Len(s) |-> IF n = 0 THEN 0 ELSE F[n - 1] + s[n]]

\* There is such a function.
LEMMA PartialSumsExist ==
    ASSUME NEW s \in Seq(Int)
    PROVE  \E F : PartialSums(F, s)
<1> DEFINE Upto(F, m) == F = [n \in 0..m |-> IF n = 0 THEN 0 ELSE F[n - 1] + s[n]]
           X == {m \in 0..Len(s) : \E F : Upto(F, m)}
<1>1. Len(s) \in Nat
    OBVIOUS
<1>2. 0 \in X
  <2> DEFINE G == [n \in 0..0 |-> 0]
  <2>1. Upto(G, 0)
      OBVIOUS
  <2> HIDE DEF Upto
  <2> QED BY <1>1, <2>1
<1>3. ASSUME NEW m \in 0..(Len(s) - 1), m \in X PROVE m + 1 \in X
  <2>1. PICK F : Upto(F, m)
      BY <1>3
  <2> DEFINE G == [n \in 0..(m + 1) |-> IF n = m + 1 THEN F[m] + s[m + 1] ELSE F[n]]
  <2>2. \A n \in 0..m : F[n] = IF n = 0 THEN 0 ELSE F[n - 1] + s[n]
      BY <2>1
  <2>3. \A n \in 0..(m + 1) : G[n] = IF n = 0 THEN 0 ELSE G[n - 1] + s[n]
      BY <1>1, <2>2
  <2>4. G = [n \in 0..(m + 1) |-> G[n]]
      OBVIOUS
  <2> HIDE DEF G
  <2>5. Upto(G, m + 1)
      BY <2>3, <2>4, Zenon
  <2> HIDE DEF Upto
  <2> QED BY <1>1, <2>5
<1> HIDE DEF X
<1>4. Len(s) \in X
  <2>1. \A k \in 0..(Len(s) - 1) : k \in X => k + 1 \in X
      BY <1>3
  <2>2. Len(s) \in Nat
      BY <1>1
  <2>3. \A k \in 0..Len(s) : k \in X
      BY <1>2, <2>1, <2>2, BoundedInduction, Zenon
  <2> QED BY <2>2, <2>3
<1> QED BY <1>4 DEF X, PartialSums

\* The sum is the last of the partial sums, which are integers.
LEMMA SumIsLast ==
    ASSUME NEW s \in Seq(Int)
    PROVE  \E F : /\ Sum(s) = F[Len(s)]
                  /\ \A n \in 0..Len(s) : F[n] \in Int
                  /\ F[0] = 0
                  /\ \A n \in 1..Len(s) : F[n] = F[n - 1] + s[n]
<1> DEFINE F == CHOOSE G : PartialSums(G, s)
<1>1. PartialSums(F, s)
    BY PartialSumsExist
<1>2. Sum(s) = F[Len(s)]
    BY Zenon DEF Sum, PartialSums
<1> HIDE DEF F
<1>3. F[0] = 0 /\ \A n \in 1..Len(s) : F[n] = F[n - 1] + s[n]
  <2>1. \A n \in 0..Len(s) : F[n] = IF n = 0 THEN 0 ELSE F[n - 1] + s[n]
      BY <1>1, Zenon DEF PartialSums
  <2>2. Len(s) \in Nat
      OBVIOUS
  <2> QED BY <2>1, <2>2
<1> DEFINE X == {n \in 0..Len(s) : F[n] \in Int}
<1>4. 0 \in X
    BY <1>3
<1>5. ASSUME NEW k \in 0..(Len(s) - 1), k \in X PROVE k + 1 \in X
  <2>1. k + 1 \in 1..Len(s) /\ s[k + 1] \in Int /\ (k + 1) - 1 = k
      OBVIOUS
  <2>2. F[k + 1] = F[k] + s[k + 1]
      BY <1>3, <2>1, Zenon
  <2> QED BY <1>5, <2>1, <2>2
<1> HIDE DEF X
<1>6. \A n \in 0..Len(s) : n \in X
  <2>1. \A k \in 0..(Len(s) - 1) : k \in X => k + 1 \in X
      BY <1>5
  <2>2. Len(s) \in Nat
      OBVIOUS
  <2> QED BY <1>4, <2>1, <2>2, BoundedInduction, Zenon
<1> QED BY <1>2, <1>3, <1>6, Zenon DEF X

LEMMA SumEmpty == Sum(<< >>) = 0
<1>1. << >> \in Seq(Int) /\ Len(<< >>) = 0
    OBVIOUS
<1> QED BY <1>1, SumIsLast, Zenon

\* A value that enters.
LEMMA SumAppend ==
    ASSUME NEW s \in Seq(Int), NEW v \in Int
    PROVE  Sum(s) \in Int /\ Sum(Append(s, v)) = Sum(s) + v
<1> DEFINE t == Append(s, v)
<1>1. /\ t \in Seq(Int) /\ Len(t) = Len(s) + 1 /\ Len(s) \in Nat /\ t[Len(s) + 1] = v
      /\ \A n \in 1..Len(s) : t[n] = s[n]
    OBVIOUS
<1> HIDE DEF t
<1>2. PICK F : /\ Sum(s) = F[Len(s)] /\ \A n \in 0..Len(s) : F[n] \in Int
               /\ F[0] = 0 /\ \A n \in 1..Len(s) : F[n] = F[n - 1] + s[n]
    BY SumIsLast
<1>3. PICK G : /\ Sum(t) = G[Len(t)] /\ \A n \in 0..Len(t) : G[n] \in Int
               /\ G[0] = 0 /\ \A n \in 1..Len(t) : G[n] = G[n - 1] + t[n]
    BY <1>1, SumIsLast, Zenon
<1> DEFINE X == {n \in 0..Len(s) : F[n] = G[n]}
<1>4. 0 \in X
    BY <1>1, <1>2, <1>3
<1>5. ASSUME NEW k \in 0..(Len(s) - 1), k \in X PROVE k + 1 \in X
  <2>1. k + 1 \in 1..Len(s) /\ k + 1 \in 1..Len(t) /\ (k + 1) - 1 = k
      BY <1>1
  <2>2. F[k + 1] = F[k] + s[k + 1] /\ G[k + 1] = G[k] + t[k + 1] /\ t[k + 1] = s[k + 1]
      BY <1>1, <1>2, <1>3, <2>1, Zenon
  <2> QED BY <1>5, <2>1, <2>2
<1> HIDE DEF X
<1>6. Len(s) \in X
  <2>1. \A k \in 0..(Len(s) - 1) : k \in X => k + 1 \in X
      BY <1>5
  <2>2. Len(s) \in Nat
      BY <1>1
  <2>3. \A k \in 0..Len(s) : k \in X
      BY <1>4, <2>1, <2>2, BoundedInduction, Zenon
  <2> QED BY <2>2, <2>3
<1>7. F[Len(s)] = G[Len(s)]
    BY <1>6 DEF X
<1>8. Len(s) + 1 \in 1..Len(t) /\ (Len(s) + 1) - 1 = Len(s) /\ Len(s) \in 0..Len(s)
    BY <1>1
<1>9. Sum(t) = Sum(s) + v /\ Sum(s) \in Int
    BY <1>1, <1>2, <1>3, <1>7, <1>8, Zenon
<1> QED BY <1>9 DEF t

\* A value that leaves.
LEMMA SumTail ==
    ASSUME NEW s \in Seq(Int), s # << >>
    PROVE  Sum(s) \in Int /\ Sum(Tail(s)) = Sum(s) - Head(s)
<1> DEFINE t == Tail(s)
<1>1. /\ t \in Seq(Int) /\ Len(t) = Len(s) - 1 /\ Len(s) \in Nat \ {0} /\ Head(s) = s[1]
      /\ \A n \in 1..Len(t) : t[n] = s[n + 1] /\ s[1] \in Int
    OBVIOUS
<1>0. s[1] \in Int
    BY <1>1
<1> HIDE DEF t
<1>2. PICK F : /\ Sum(s) = F[Len(s)] /\ \A n \in 0..Len(s) : F[n] \in Int
               /\ F[0] = 0 /\ \A n \in 1..Len(s) : F[n] = F[n - 1] + s[n]
    BY SumIsLast
<1>3. PICK G : /\ Sum(t) = G[Len(t)] /\ \A n \in 0..Len(t) : G[n] \in Int
               /\ G[0] = 0 /\ \A n \in 1..Len(t) : G[n] = G[n - 1] + t[n]
    BY <1>1, SumIsLast, Zenon
<1> DEFINE X == {n \in 0..Len(t) : G[n] = F[n + 1] - s[1]}
<1>4. 0 \in X
  <2>1. 1 \in 1..Len(s) /\ 1 - 1 = 0 /\ 0 + 1 = 1 /\ 0 \in 0..Len(t)
      BY <1>1
  <2>2. F[1] = 0 + s[1]
      BY <1>2, <2>1
  <2>3. G[0] = F[0 + 1] - s[1]
      BY <1>0, <1>3, <2>1, <2>2
  <2> QED BY <2>1, <2>3
<1>5. ASSUME NEW k \in 0..(Len(t) - 1), k \in X PROVE k + 1 \in X
  <2>1. /\ k + 1 \in 1..Len(t) /\ (k + 1) - 1 = k /\ k + 1 \in 0..Len(t)
        /\ (k + 1) + 1 \in 1..Len(s) /\ ((k + 1) + 1) - 1 = k + 1 /\ k + 1 \in 0..Len(s)
      BY <1>1
  <2>2. G[k + 1] = G[k] + t[k + 1] /\ t[k + 1] = s[(k + 1) + 1]
      BY <1>1, <1>3, <2>1, Zenon
  <2>3. F[(k + 1) + 1] = F[k + 1] + s[(k + 1) + 1]
      BY <1>2, <2>1, Zenon
  <2>4. F[k + 1] \in Int /\ s[(k + 1) + 1] \in Int
      BY <1>2, <2>1
  <2>5. G[k + 1] = F[(k + 1) + 1] - s[1]
      BY <1>0, <1>5, <2>2, <2>3, <2>4
  <2> QED BY <2>1, <2>5, Zenon
<1> HIDE DEF X
<1>6. Len(t) \in X
  <2>1. \A k \in 0..(Len(t) - 1) : k \in X => k + 1 \in X
      BY <1>5
  <2>2. Len(t) \in Nat
      BY <1>1
  <2>3. \A k \in 0..Len(t) : k \in X
      BY <1>4, <2>1, <2>2, BoundedInduction, Zenon
  <2> QED BY <2>2, <2>3
<1>7. G[Len(t)] = F[Len(t) + 1] - s[1] /\ Len(t) + 1 = Len(s) /\ Len(s) \in 0..Len(s)
    BY <1>1, <1>6 DEF X
<1>8. Sum(t) = Sum(s) - s[1] /\ Sum(s) \in Int
    BY <1>2, <1>3, <1>7, Zenon
<1> QED BY <1>1, <1>8 DEF t

-----------------------------------------------------------------------------
(* Detector A *)

\* The state of a metric, whatever sorting puts into median and mad.
MetricState(st) ==
    \E M, D : st \in [buffer : Seq(Int), sum : Int, sum_sq : Int, median : M, mad : D,
                      computed : BOOLEAN]

\* The sums belong to the window.
MetricInv(st) ==
    /\ MetricState(st)
    /\ Len(st.buffer) <= WindowSize
    /\ st.sum = Sum(st.buffer)
    /\ st.sum_sq = Sum(Squares(st.buffer))

\* After n updates without a recompute the warm-up is not over and every record has
\* entered the window, or no tick has come since its end.
WarmupInv(st, count, n) ==
    /\ count = n % RecomputeInterval
    /\ \/ st.computed
       \/ ~Warm(st) /\ n = Len(st.buffer)
       \/ Warm(st) /\ n >= MinHistory /\ \A m \in MinHistory..(n - 1) : m % RecomputeInterval # 0

DetectorInv ==
    /\ detectors_a = [h \in HostSet |-> detectors_a[h]]
    /\ \A h \in HostSet :
          MetricInv(detectors_a[h]) /\ WarmupInv(detectors_a[h], update_count[h], Len(trail[h]))

\* Squares go with their values.
LEMMA SquaresStep ==
    ASSUME NEW s \in Seq(Int), NEW v \in Int
    PROVE  /\ Squares(s) \in Seq(Int) /\ v * v \in Int
           /\ Squares(Append(s, v)) = Append(Squares(s), v * v)
           /\ s # << >> => /\ Squares(Tail(s)) = Tail(Squares(s)) /\ Squares(s) # << >>
                           /\ Head(Squares(s)) = Head(s) * Head(s)
<1>1. v * v \in Int /\ \A i \in 1..Len(s) : s[i] * s[i] \in Int
    OBVIOUS
<1>2. Squares(s) \in Seq(Int) /\ Len(Squares(s)) = Len(s)
    BY <1>1 DEF Squares
<1>3. Squares(Append(s, v)) = Append(Squares(s), v * v)
    BY <1>1, <1>2 DEF Squares
<1>4. ASSUME s # << >>
      PROVE  /\ Squares(Tail(s)) = Tail(Squares(s)) /\ Squares(s) # << >>
             /\ Head(Squares(s)) = Head(s) * Head(s)
  <2>1. /\ Tail(s) \in Seq(Int) /\ Len(Tail(s)) = Len(s) - 1 /\ Len(s) \in Nat \ {0}
        /\ \A i \in 1..(Len(s) - 1) : Tail(s)[i] = s[i + 1]
      BY <1>4
  <2>2. Squares(s) # << >> /\ Head(Squares(s)) = Head(s) * Head(s)
      BY <1>2, <2>1 DEF Squares
  <2> DEFINE q == Squares(s)
             a == Squares(Tail(s))
             d == Tail(q)
  <2>3. \A i \in 1..Len(s) : q[i] = s[i] * s[i]
      BY DEF Squares
  <2>4. d \in Seq(Int) /\ Len(d) = Len(s) - 1 /\ \A i \in 1..(Len(s) - 1) : d[i] = q[i + 1]
    <3> HIDE DEF q
    <3>1. q \in Seq(Int) /\ Len(q) = Len(s) /\ q # << >>
        BY <1>2, <2>2, Zenon DEF q
    <3> QED BY <3>1, <2>1
  <2>5. /\ DOMAIN a = 1..(Len(s) - 1)
        /\ \A i \in 1..(Len(s) - 1) : a[i] = Tail(s)[i] * Tail(s)[i]
        /\ a = [i \in 1..(Len(s) - 1) |-> a[i]]
      BY <2>1 DEF Squares
  <2>6. \A i \in 1..(Len(s) - 1) : a[i] = d[i]
    <3> HIDE DEF a, d, q
    <3> SUFFICES ASSUME NEW i \in 1..(Len(s) - 1) PROVE a[i] = d[i]
        OBVIOUS
    <3>1. i + 1 \in 1..Len(s)
        BY <2>1
    <3>2. d[i] = s[i + 1] * s[i + 1]
        BY <2>3, <2>4, <3>1, Zenon
    <3>3. a[i] = s[i + 1] * s[i + 1]
        BY <2>1, <2>5, Zenon
    <3> QED BY <3>2, <3>3
  <2>7. d = [i \in 1..(Len(s) - 1) |-> d[i]]
    <3> HIDE DEF d
    <3> QED BY <2>1, <2>4
  <2>8. a = d
    <3> HIDE DEF a, d
    <3> QED BY <2>5, <2>6, <2>7, Zenon
  <2> QED BY <2>2, <2>8, Zenon
<1> QED BY <1>1, <1>2, <1>3, <1>4, Zenon

\* What Push and UpdateRobustStats replace.
WithWindow(st, x, y, z) == [st EXCEPT !.buffer = x, !.sum = y, !.sum_sq = z]
WithStats(st, m, d) == [st EXCEPT !.median = m, !.computed = TRUE, !.mad = d]

\* An update of the window and its sums by fields.
LEMMA WindowFields ==
    ASSUME NEW st, MetricState(st), NEW x \in Seq(Int), NEW y \in Int, NEW z \in Int
    PROVE  /\ MetricState(WithWindow(st, x, y, z))
           /\ WithWindow(st, x, y, z).buffer = x /\ WithWindow(st, x, y, z).sum = y
           /\ WithWindow(st, x, y, z).sum_sq = z
           /\ WithWindow(st, x, y, z).computed = st.computed
<1> DEFINE r == WithWindow(st, x, y, z)
<1>1. PICK M, D : st \in [buffer : Seq(Int), sum : Int, sum_sq : Int, median : M, mad : D,
                          computed : BOOLEAN]
    BY DEF MetricState
<1>2. r \in [buffer : Seq(Int), sum : Int, sum_sq : Int, median : M, mad : D, computed : BOOLEAN]
    BY <1>1, Zenon DEF WithWindow
<1>3. r.buffer = x /\ r.sum = y /\ r.sum_sq = z /\ r.computed = st.computed
    BY <1>1 DEF WithWindow
<1> QED BY <1>2, <1>3, Zenon DEF MetricState

\* An update of the statistics by fields.
LEMMA StatsFields ==
    ASSUME NEW st, MetricState(st), NEW m, NEW d
    PROVE  /\ MetricState(WithStats(st, m, d)) /\ WithStats(st, m, d).computed = TRUE
           /\ WithStats(st, m, d).buffer = st.buffer /\ WithStats(st, m, d).sum = st.sum
           /\ WithStats(st, m, d).sum_sq = st.sum_sq
<1> DEFINE r == WithStats(st, m, d)
<1>1. PICK M, D : st \in [buffer : Seq(Int), sum : Int, sum_sq : Int, median : M, mad : D,
                          computed : BOOLEAN]
    BY DEF MetricState
<1>2. r \in [buffer : Seq(Int), sum : Int, sum_sq : Int, median : {m}, mad : {d},
             computed : BOOLEAN]
    BY <1>1, Zenon DEF WithStats
<1>3. r.computed = TRUE /\ r.buffer = st.buffer /\ r.sum = st.sum /\ r.sum_sq = st.sum_sq
    BY <1>1 DEF WithStats
<1> QED BY <1>2, <1>3, Zenon DEF MetricState

\* Push: the sums follow the window.
LEMMA PushStep ==
    ASSUME NEW st, MetricInv(st), NEW v \in Int
    PROVE  /\ MetricInv(Push(st, v)) /\ Push(st, v).computed = st.computed
           /\ Len(st.buffer) < WindowSize => Len(Push(st, v).buffer) = Len(st.buffer) + 1
           /\ Len(Push(st, v).buffer) >= Len(st.buffer)
<1> DEFINE b == Append(st.buffer, v)
           old == IF Len(b) > WindowSize THEN <<Head(b)>> ELSE <<>>
           r == Push(st, v)
<1>1. /\ st.buffer \in Seq(Int) /\ b \in Seq(Int) /\ Len(b) = Len(st.buffer) + 1 /\ b # << >>
      /\ Head(b) \in Int /\ WindowSize \in Nat /\ Len(st.buffer) \in Nat
      /\ Tail(b) \in Seq(Int) /\ Len(Tail(b)) = Len(st.buffer)
  <2>1. st.buffer \in Seq(Int) /\ WindowSize \in Nat
      BY DetectorAssumption DEF MetricInv, MetricState
  <2>2. /\ b \in Seq(Int) /\ Len(b) = Len(st.buffer) + 1 /\ Len(st.buffer) \in Nat /\ b # << >>
      BY <2>1
  <2> HIDE DEF b
  <2>3. Head(b) \in Int /\ Tail(b) \in Seq(Int) /\ Len(Tail(b)) = Len(st.buffer)
      BY <2>2
  <2> QED BY <2>1, <2>2, <2>3
<1>2. /\ r.buffer = (IF old = <<>> THEN b ELSE Tail(b)) /\ r.computed = st.computed
      /\ r.sum = st.sum + v - Sum(old) /\ r.sum_sq = st.sum_sq + v * v - Sum(Squares(old))
      /\ MetricState(r)
  <2>1. old \in Seq(Int)
      BY <1>1
  <2>2. MetricState(st) /\ st.sum \in Int /\ st.sum_sq \in Int
      BY DEF MetricInv, MetricState
  <2> DEFINE x == IF old = <<>> THEN b ELSE Tail(b)
             y == st.sum + v - Sum(old)
             z == st.sum_sq + v * v - Sum(Squares(old))
  <2>3. Sum(old) \in Int /\ Sum(Squares(old)) \in Int /\ v * v \in Int
    <3> HIDE DEF old
    <3> QED BY <2>1, SumAppend, SquaresStep, Zenon
  <2>4. x \in Seq(Int) /\ y \in Int /\ z \in Int
    <3> HIDE DEF old, b
    <3> QED BY <1>1, <2>2, <2>3, SMTT(30)
  <2>5. r = WithWindow(st, x, y, z)
      BY Zenon DEF Push, WithWindow
  <2> HIDE DEF x, y, z, r, old, b
  <2>6. /\ r.buffer = x /\ r.sum = y /\ r.sum_sq = z /\ r.computed = st.computed
        /\ MetricState(r)
      BY <2>2, <2>4, <2>5, WindowFields
  <2> QED BY <2>6, Zenon DEF x, y, z
<1>3. /\ Sum(b) = Sum(st.buffer) + v /\ Sum(st.buffer) \in Int
      /\ Sum(Squares(b)) = Sum(Squares(st.buffer)) + v * v /\ Sum(Squares(st.buffer)) \in Int
      /\ v * v \in Int
    BY <1>1, SumAppend, SquaresStep, Zenon
<1> HIDE DEF b
<1>4. CASE Len(b) > WindowSize
  <2>1. old = <<Head(b)>> /\ old # <<>>
      BY <1>4
  <2>2. Sum(old) = Head(b) /\ Sum(Squares(old)) = Head(b) * Head(b)
    <3>1. << >> \in Seq(Int) /\ old = Append(<< >>, Head(b)) /\ Squares(<< >>) = << >>
        BY <2>1 DEF Squares
    <3>2. Squares(old) = Append(<< >>, Head(b) * Head(b)) /\ Head(b) * Head(b) \in Int
        BY <1>1, <3>1, SquaresStep, Zenon
    <3>3. /\ Sum(Append(<< >>, Head(b))) = 0 + Head(b)
          /\ Sum(Append(<< >>, Head(b) * Head(b))) = 0 + Head(b) * Head(b)
        BY <1>1, <3>1, <3>2, SumAppend, SumEmpty, Zenon
    <3> QED BY <1>1, <3>1, <3>2, <3>3
  <2>3. Sum(Tail(b)) = Sum(b) - Head(b) /\ Sum(Squares(Tail(b))) = Sum(Squares(b)) - Head(b) * Head(b)
      BY <1>1, SumTail, SquaresStep, Zenon
  <2>4. r.buffer = Tail(b) /\ Len(st.buffer) = WindowSize
      BY <1>1, <1>2, <1>4, <2>1 DEF MetricInv
  <2>5. r.sum = Sum(r.buffer) /\ r.sum_sq = Sum(Squares(r.buffer))
    <3>1. st.sum = Sum(st.buffer) /\ st.sum_sq = Sum(Squares(st.buffer))
        BY DEF MetricInv
    <3>2. Head(b) * Head(b) \in Int
        BY <1>1
    <3> HIDE DEF r, old
    <3>3. r.sum = Sum(Tail(b)) /\ r.sum_sq = Sum(Squares(Tail(b)))
        BY <1>1, <1>2, <1>3, <2>2, <2>3, <3>1, <3>2
    <3> QED BY <2>4, <3>3
  <2>6. r.buffer \in Seq(Int) /\ Len(r.buffer) <= WindowSize
      BY <1>1, <2>4
  <2> HIDE DEF r
  <2>8. MetricInv(r)
      BY <1>2, <2>5, <2>6, Zenon DEF MetricInv
  <2> QED BY <1>1, <1>2, <2>4, <2>8 DEF r
<1>5. CASE ~(Len(b) > WindowSize)
  <2>1. old = <<>> /\ Squares(<<>>) = <<>>
      BY <1>5 DEF Squares
  <2>2. Sum(old) = 0 /\ Sum(Squares(old)) = 0
      BY <2>1, SumEmpty, Zenon
  <2>4. r.buffer = b
      BY <1>2, <2>1, Zenon
  <2>5. r.sum = Sum(r.buffer) /\ r.sum_sq = Sum(Squares(r.buffer))
    <3>1. st.sum = Sum(st.buffer) /\ st.sum_sq = Sum(Squares(st.buffer))
        BY DEF MetricInv
    <3> HIDE DEF r, old
    <3>3. r.sum = Sum(b) /\ r.sum_sq = Sum(Squares(b))
        BY <1>2, <1>3, <2>2, <3>1
    <3> QED BY <2>4, <3>3, Zenon
  <2>6. r.buffer \in Seq(Int) /\ Len(r.buffer) <= WindowSize /\ Len(r.buffer) = Len(st.buffer) + 1
      BY <1>1, <1>5, <2>4
  <2> HIDE DEF r
  <2>8. MetricInv(r)
      BY <1>2, <2>5, <2>6, Zenon DEF MetricInv
  <2> QED BY <1>1, <1>2, <2>6, <2>8 DEF r
<1> QED BY <1>4, <1>5

\* A recompute touches neither window nor sums.
LEMMA ScoredStep ==
    ASSUME NEW st, NEW count, MetricInv(st)
    PROVE  LET s == Scored(st, count) IN
           /\ MetricInv(s) /\ s.buffer = st.buffer
           /\ s.computed = (st.computed \/ (NeedsRecompute(count) /\ Warm(st)))
<1>1. CASE NeedsRecompute(count) /\ Warm(st)
  <2>1. /\ Scored(st, count) = UpdateRobustStats(st)
      BY <1>1 DEF Scored
  <2> DEFINE s == UpdateRobustStats(st)
  <2>2. /\ s.buffer = st.buffer /\ s.sum = st.sum /\ s.sum_sq = st.sum_sq /\ s.computed = TRUE
        /\ MetricState(s)
    <3> DEFINE m == UpperMedian(st.buffer)
               d == UpperMedian([i \in DOMAIN st.buffer |-> Abs(st.buffer[i] - m)])
    <3>1. s = WithStats(st, m, d)
        BY DEF UpdateRobustStats, WithStats
    <3>2. MetricState(st)
        BY DEF MetricInv
    <3> HIDE DEF m, d, s
    <3> QED BY <3>1, <3>2, StatsFields, ZenonT(30)
  <2> HIDE DEF s
  <2>3. MetricInv(s)
      BY <2>2 DEF MetricInv
  <2> QED BY <1>1, <2>1, <2>2, <2>3, Zenon DEF s
<1>2. CASE ~(NeedsRecompute(count) /\ Warm(st))
  <2>1. Scored(st, count) = st
      BY <1>2, Zenon DEF Scored
  <2>2. st.computed \in BOOLEAN
      BY DEF MetricInv, MetricState
  <2> QED BY <1>2, <2>1, <2>2
<1> QED BY <1>1, <1>2, Zenon

\* Division with remainder: no multiple but 0 is smaller than the divisor.
LEMMA SmallMultiple ==
    ASSUME NEW d \in Int, NEW k \in Nat \ {0}, k * d < k, -k < k * d
    PROVE  d = 0
<1>1. CASE d >= 1
    BY <1>1
<1>2. CASE d <= -1
    BY <1>2
<1> QED BY <1>1, <1>2

\* Quotient and remainder exist ...
LEMMA DivMod ==
    ASSUME NEW n \in Nat, NEW k \in Nat \ {0}
    PROVE  \E q \in Int : n = k * q + (n % k) /\ n % k \in 0..(k - 1)
<1>1. n \div k \in Int /\ n % k \in 0..(k - 1) /\ n = k * (n \div k) + (n % k)
    OBVIOUS
<1> QED BY <1>1, Zenon

\* ... and the remainder is unique.
LEMMA ModUnique ==
    ASSUME NEW n \in Nat, NEW k \in Nat \ {0}, NEW q \in Int, NEW r \in 0..(k - 1), n = k * q + r
    PROVE  n % k = r
<1>1. PICK p \in Int : n = k * p + (n % k) /\ n % k \in 0..(k - 1)
    BY DivMod, Zenon
<1> DEFINE t == n % k
<1>2. t \in 0..(k - 1) /\ n = k * p + t
    BY <1>1
<1> HIDE DEF t
<1>3. k * (p - q) = k * p - k * q /\ k * p \in Int /\ k * q \in Int
    OBVIOUS
<1>4. k * (p - q) = r - t
    BY <1>2, <1>3
<1>5. k * (p - q) < k /\ -k < k * (p - q)
    BY <1>2, <1>4
<1>6. p - q = 0
    BY <1>5, SmallMultiple
<1>7. k * (p - q) = 0
    BY <1>6
<1>8. r = t
    BY <1>7, <1>4, <1>2
<1> QED BY <1>8 DEF t

\* The update count keeps step with a window that only grows.
LEMMA CountStep ==
    ASSUME NEW n \in Nat, NEW k \in Nat \ {0}
    PROVE  ((n % k) + 1) % k = (n + 1) % k
<1>1. PICK q \in Int : n = k * q + (n % k) /\ n % k \in 0..(k - 1)
    BY DivMod, Zenon
<1> DEFINE r == n % k
<1>2. r \in 0..(k - 1) /\ n = k * q + r /\ k * q \in Int
    BY <1>1
<1> HIDE DEF r
<1>3. CASE r + 1 < k
  <2>1. n + 1 = k * q + (r + 1) /\ r + 1 = k * 0 + (r + 1) /\ r + 1 \in 0..(k - 1)
      BY <1>2, <1>3
  <2>2. (n + 1) % k = r + 1 /\ (r + 1) % k = r + 1
      BY <1>2, <2>1, ModUnique
  <2> QED BY <2>2 DEF r
<1>4. CASE ~(r + 1 < k)
  <2>1. r + 1 = k
      BY <1>2, <1>4
  <2>2. k * (q + 1) = k * q + k /\ k * 1 = k
      OBVIOUS
  <2>3. n + 1 = k * (q + 1) + 0 /\ r + 1 = k * 1 + 0 /\ 0 \in 0..(k - 1)
      BY <1>2, <2>1, <2>2
  <2>4. (n + 1) % k = 0 /\ (r + 1) % k = 0
      BY <1>2, <2>3, ModUnique
  <2> QED BY <2>4 DEF r
<1> QED BY <1>3, <1>4

\* A metric through one Update, its (n + 1)-st: before the warm-up is over nothing is
\* skipped or dropped, and the first tick from then on recomputes.
LEMMA UpdateStep ==
    ASSUME NEW st, NEW n \in Nat, NEW v \in Int,
           MetricInv(st), NEW count, WarmupInv(st, count, n)
    PROVE  /\ MetricInv(Update(st, count, v))
           /\ WarmupInv(Update(st, count, v), (count + 1) % RecomputeInterval, n + 1)
           /\ Warm(Scored(st, count)) =>
                 \/ Scored(st, count).computed
                 \/ n >= MinHistory /\ \A m \in MinHistory..n : m % RecomputeInterval # 0
<1> DEFINE s == Scored(st, count)
           u == Update(st, count, v)
<1>1. /\ MetricInv(s) /\ s.buffer = st.buffer
      /\ s.computed = (st.computed \/ (NeedsRecompute(count) /\ Warm(st)))
    BY ScoredStep
<1>2. u = IF Skipped(s, v) THEN s ELSE Push(s, v)
    BY DEF Update
<1> HIDE DEF s, u
<1>3. /\ MetricInv(Push(s, v)) /\ Push(s, v).computed = s.computed
      /\ Len(s.buffer) < WindowSize => Len(Push(s, v).buffer) = Len(s.buffer) + 1
      /\ Len(Push(s, v).buffer) >= Len(s.buffer)
    BY <1>1, PushStep, Zenon
<1>4. /\ WindowSize \in Nat /\ MinHistory \in 1..WindowSize /\ RecomputeInterval \in Nat \ {0}
    BY DetectorAssumption
<1>5. /\ Len(st.buffer) \in Nat /\ st.computed \in BOOLEAN
      /\ Len(s.buffer) \in Nat /\ Len(Push(s, v).buffer) \in Nat
    BY <1>1, <1>3 DEF MetricInv, MetricState
<1>6. count = n % RecomputeInterval /\ (count + 1) % RecomputeInterval = (n + 1) % RecomputeInterval
    BY <1>4, CountStep, Zenon DEF WarmupInv
<1>7. ASSUME ~s.computed, Warm(s)
      PROVE  n >= MinHistory /\ \A m \in MinHistory..n : m % RecomputeInterval # 0
  <2>1. ~st.computed /\ Warm(st) /\ ~NeedsRecompute(count)
      BY <1>1, <1>5, <1>7, Zenon DEF Warm
  <2>2. n >= MinHistory /\ \A m \in MinHistory..(n - 1) : m % RecomputeInterval # 0
      BY <2>1, Zenon DEF WarmupInv
  <2>3. (n % RecomputeInterval) % RecomputeInterval # 0
      BY <1>6, <2>1 DEF NeedsRecompute
  <2>4. n % RecomputeInterval # 0
      BY <1>4, <2>3
  <2>5. \A m \in MinHistory..n : m = n \/ m \in MinHistory..(n - 1)
      BY <1>4, <2>2
  <2> QED BY <2>2, <2>4, <2>5, Zenon
<1>8. WarmupInv(u, (count + 1) % RecomputeInterval, n + 1)
  <2>1. CASE s.computed
      BY <1>2, <1>3, <1>6, <2>1, Zenon DEF WarmupInv
  <2>2. CASE ~s.computed /\ Warm(s)
    <3>1. Warm(u)
        BY <1>2, <1>3, <1>4, <1>5, <2>2 DEF Warm
    <3>2. n + 1 >= MinHistory /\ (n + 1) - 1 = n
        BY <1>4, <1>7, <2>2
    <3> QED BY <1>6, <1>7, <2>2, <3>1, <3>2, Zenon DEF WarmupInv
  <2>3. CASE ~s.computed /\ ~Warm(s)
    <3>1. ~Warm(st) /\ n = Len(st.buffer) /\ n < MinHistory
      <4>1. ~Warm(st) /\ ~st.computed
          BY <1>1, <1>5, <2>3, Zenon DEF Warm
      <4> QED BY <1>4, <1>5, <4>1 DEF WarmupInv, Warm
    <3>2. u = Push(s, v)
        BY <1>2, <2>3, Zenon DEF Skipped
    <3>3. Len(u.buffer) = n + 1
        BY <1>1, <1>3, <1>4, <3>1, <3>2
    <3>4. CASE Warm(u)
      <4>1. n + 1 >= MinHistory /\ MinHistory..((n + 1) - 1) = {}
          BY <1>4, <3>1, <3>3, <3>4 DEF Warm
      <4>2. \A m \in MinHistory..((n + 1) - 1) : m % RecomputeInterval # 0
          BY <4>1, Zenon
      <4> QED BY <1>6, <3>4, <4>1, <4>2, Zenon DEF WarmupInv
    <3>5. CASE ~Warm(u)
        BY <1>6, <3>3, <3>5, Zenon DEF WarmupInv
    <3> QED BY <3>4, <3>5, Zenon
  <2> QED BY <2>1, <2>2, <2>3, Zenon
<1>9. MetricInv(u)
    BY <1>1, <1>2, <1>3
<1> QED BY <1>7, <1>8, <1>9, Zenon DEF s, u

\* The empty windows of the start.
LEMMA InitDetectors == Init => DetectorInv
<1> SUFFICES ASSUME Init PROVE DetectorInv
    OBVIOUS
<1>1. /\ WindowSize \in Nat /\ MinHistory \in 1..WindowSize /\ RecomputeInterval \in Nat \ {0}
    BY DetectorAssumption
<1>2. /\ detectors_a = [h \in HostSet |-> InitMetricState]
      /\ \A h \in HostSet : /\ detectors_a[h] = InitMetricState /\ update_count[h] = 0
                             /\ trail[h] = << >>
    BY Zenon DEF Init
<1>3. /\ InitMetricState \in [buffer : Seq(Int), sum : Int, sum_sq : Int, median : {0}, mad : {0},
                              computed : BOOLEAN]
      /\ InitMetricState.buffer = << >> /\ InitMetricState.sum = 0 /\ InitMetricState.sum_sq = 0
    BY DEF InitMetricState
<1>4. Len(<< >>) = 0 /\ Squares(<< >>) = << >> /\ Sum(<< >>) = 0 /\ 0 % RecomputeInterval = 0
    BY <1>1, SumEmpty DEF Squares
<1>5. MetricInv(InitMetricState)
  <2>1. MetricState(InitMetricState)
      BY <1>3 DEF MetricState
  <2> QED BY <1>1, <1>3, <1>4, <2>1 DEF MetricInv
<1>6. WarmupInv(InitMetricState, 0, Len(<< >>))
    BY <1>1, <1>3, <1>4 DEF WarmupInv, Warm
<1> QED BY <1>2, <1>5, <1>6, Zenon DEF DetectorInv

\* A record updates the detector of its host and no other.
LEMMA NextDetectors == TypeOK /\ DetectorInv /\ [Next]_vars => DetectorInv'
<1> SUFFICES ASSUME TypeOK, DetectorInv, [Next]_vars PROVE DetectorInv'
    OBVIOUS
<1>1. CASE ScoreRecord
  <2> DEFINE g == Hosts[turn]
  <2>1. PICK v \in Values :
            /\ detectors_a' = [detectors_a EXCEPT ![g] = Update(@, update_count[g], v)]
            /\ update_count' = [update_count EXCEPT ![g] = (@ + 1) % RecomputeInterval]
      BY <1>1, Zenon DEF ScoreRecord
  <2>10. PICK e \in Entry : trail' = [trail EXCEPT ![g] = Append(@, e)]
      BY <1>1, OneEntry, Zenon
  <2>2. v \in Int /\ g \in HostSet
      BY ScorerAssumption DEF HostSet, TypeOK
  <2> HIDE DEF g
  <2>3. /\ detectors_a = [h \in HostSet |-> detectors_a[h]]
        /\ update_count \in [HostSet -> 0..(RecomputeInterval - 1)]
        /\ trail \in [HostSet -> Seq(Entry)]
      BY DEF DetectorInv, TypeOK
  <2>11. /\ Len(trail[g]) \in Nat /\ Len(trail'[g]) = Len(trail[g]) + 1
         /\ \A h \in HostSet \ {g} : trail'[h] = trail[h]
      BY <2>2, <2>3, <2>10
  <2> DEFINE u == Update(detectors_a[g], update_count[g], v)
  <2>4. /\ MetricInv(u)
        /\ WarmupInv(u, (update_count[g] + 1) % RecomputeInterval, Len(trail[g]) + 1)
      BY <2>2, <2>11, UpdateStep, Zenon DEF DetectorInv
  <2>5. detectors_a' = [detectors_a EXCEPT ![g] = u]
      BY <2>1
  <2> HIDE DEF u
  <2>6. /\ detectors_a' = [h \in HostSet |-> detectors_a'[h]]
        /\ detectors_a'[g] = u /\ update_count'[g] = (update_count[g] + 1) % RecomputeInterval
        /\ \A h \in HostSet \ {g} : /\ detectors_a'[h] = detectors_a[h]
                                    /\ update_count'[h] = update_count[h]
      BY <2>1, <2>2, <2>3, <2>5, Zenon
  <2>7. ASSUME NEW h \in HostSet
        PROVE  /\ MetricInv(detectors_a'[h])
               /\ WarmupInv(detectors_a'[h], update_count'[h], Len(trail'[h]))
    <3>1. CASE h = g
        BY <2>4, <2>6, <2>11, <3>1, Zenon
    <3>2. CASE h # g
        BY <2>6, <2>11, <3>2, Zenon DEF DetectorInv
    <3> QED BY <3>1, <3>2, Zenon
  <2> QED BY <2>6, <2>7 DEF DetectorInv, MetricInv, MetricState, WarmupInv, Warm
<1>2. CASE NotMyShard \/ UNCHANGED vars
  <2>1. UNCHANGED <<detectors_a, update_count, trail>>
      BY <1>2 DEF NotMyShard, vars
  <2> QED BY <2>1 DEF DetectorInv, MetricInv, MetricState, WarmupInv, Warm
<1> QED BY <1>1, <1>2 DEF Next

\* What the detectors keep gives the statistics their meaning.
LEMMA DetectorsGiveWindow == TypeOK /\ DetectorInv => WindowInv
<1> SUFFICES ASSUME TypeOK, DetectorInv PROVE WindowInv
    OBVIOUS
<1>1. SumsMatchWindow
    BY Zenon DEF DetectorInv, MetricInv, SumsMatchWindow
<1>2. ScoredWithStats
  <2> SUFFICES ASSUME NEW h \in HostSet
               PROVE  LET st == Scored(detectors_a[h], update_count[h])
                      IN  Warm(st) => \/ st.computed
                                      \/ /\ Len(trail[h]) >= MinHistory
                                         /\ \A n \in MinHistory..Len(trail[h]) :
                                               n % RecomputeInterval # 0
      BY Zenon DEF ScoredWithStats
  <2>1. /\ MetricInv(detectors_a[h]) /\ WarmupInv(detectors_a[h], update_count[h], Len(trail[h]))
        /\ 0 \in Int /\ Len(trail[h]) \in Nat
      BY DEF DetectorInv, TypeOK
  <2> QED BY <2>1, UpdateStep, Zenon
<1> QED BY <1>1, <1>2, Zenon DEF WindowInv

-----------------------------------------------------------------------------
(* Theorems *)

\* The inductive invariant holds of every behaviour.
THEOREM Invariance == Spec => []IInv
<1>1. IInv /\ [Next]_vars => IInv'
    BY ScoreStep, SkipStep DEF Next
<1> QED BY InitInv, <1>1, PTL DEF Spec

\* The scoring loop keeps its types.
THEOREM TypesHold == Spec => []TypeOK
BY Invariance, PTL DEF IInv

\* Hysteresis and cooldown of AlertManager: between any two alerts of a host lies the
\* cooldown, and an alert rests on enough anomalous records in a row of which none has
\* served another alert.
THEOREM AlertsAreJustified == Spec => []AlertsJustified
BY Invariance, PTL DEF IInv, AlertsJustified

\* Hysteresis and cooldown never silence an anomaly that persists.
THEOREM PersistentAnomalyReported == Spec => []PersistentAnomalyAlerts
BY Invariance, PTL DEF IInv

\* The gate passes every record that Detector A flags and one per period.
THEOREM GateSound == Spec => []GateLetsThrough
BY Invariance, PTL DEF IInv

\* Detector A's sliding window: the running sums are those of the values in it, whatever
\* was pushed, dropped and skipped, and once the warm-up is over records are scored
\* against the initial zeros only up to the next recompute tick.
THEOREM WindowsHold == Spec => []WindowInv
<1>1. DetectorInv /\ TypeOK /\ [Next]_vars => DetectorInv'
    BY NextDetectors
<1> QED BY TypesHold, InitDetectors, <1>1, DetectorsGiveWindow, PTL DEF Spec

-----------------------------------------------------------------------------
(* DbConnectionPool *)

\* A client that is connecting holds mutex_, found no idle connection and room
\* for one more; nothing can change that before it is done.
CreatingInv ==
    ~Unlocked => /\ pc[connecting] = "creating"
                  /\ pool_ = {}
                  /\ in_use_count_ < PoolSize

\* Only lent connections break.
BrokenInv == broken \subseteq Lent

\* The counts: idle and lent connections are finitely many and fit in the pool.
CountInv ==
    /\ IsFiniteSet(pool_)
    /\ IsFiniteSet(Lent)
    /\ InUseIsLent
    /\ Cardinality(pool_) + in_use_count_ <= PoolSize

PoolInv ==
    /\ PoolTypeOK
    /\ CreatingInv
    /\ BrokenInv
    /\ IdleIsUsable
    /\ CountInv

\* Waking a sleeper leaves pc well typed and moves nobody else.
LEMMA NotifyOneType ==
    ASSUME NEW p \in [Clients -> {"run", "asleep", "awake", "expired", "creating"}],
           NEW q \in NotifyOne(p)
    PROVE  /\ q \in [Clients -> {"run", "asleep", "awake", "expired", "creating"}]
           /\ \A cl \in Clients : p[cl] = "creating" <=> q[cl] = "creating"
BY DEF NotifyOne

\* Steps that move no connection: waiting, waking, giving up, starting or failing
\* to connect, a lent connection breaking, and stuttering.
LEMMA WaitStep ==
    ASSUME PoolInv,
           \/ \E cl \in Clients : \/ Sleep(cl)
                                  \/ Wake(cl)
                                  \/ Expire(cl)
                                  \/ Timeout(cl)
                                  \/ BeginCreate(cl)
                                  \/ CreateFails(cl)
           \/ \E c \in Conns : Break(c)
           \/ UNCHANGED poolVars
    PROVE  PoolInv'
<1> USE DEF Sleep, Wake, Expire, Timeout, BeginCreate, CreateFails, Break, poolVars
<1>1. UNCHANGED <<pool_, in_use_count_, lent>> /\ Lent' = Lent
    BY Zenon DEF Lent
<1>2. /\ pc' \in [Clients -> {"run", "asleep", "awake", "expired", "creating"}]
      /\ \A cl \in Clients : connecting' = cl => pc'[cl] = "creating"
  <2>1. CASE \E cl \in Clients : CreateFails(cl)
    <3> PICK cl \in Clients : CreateFails(cl)
        BY <2>1, Zenon
    <3>1. [pc EXCEPT ![cl] = "run"]
            \in [Clients -> {"run", "asleep", "awake", "expired", "creating"}]
        BY DEF PoolInv, PoolTypeOK
    <3>2. pc' \in [Clients -> {"run", "asleep", "awake", "expired", "creating"}]
        BY <3>1, NotifyOneType, Zenon
    <3> QED
        BY <3>2, PoolAssumption
  <2>2. CASE ~ \E cl \in Clients : CreateFails(cl)
    <3> HIDE DEF CreateFails
    <3> QED
        BY <2>2, PoolAssumption
        DEF PoolInv, PoolTypeOK, CreatingInv, Unlocked, AtPredicate
  <2> QED
      BY <2>1, <2>2
<1>3. PoolTypeOK'
    BY <1>1, <1>2, Zenon DEF PoolInv, PoolTypeOK
<1>4. CreatingInv'
    BY <1>1, <1>2, PoolAssumption, Zenon DEF PoolInv, PoolTypeOK, CreatingInv, Unlocked, AtPredicate
<1>5. (BrokenInv /\ IdleIsUsable)'
  <2>1. BrokenInv'
      BY <1>1, Zenon DEF PoolInv, BrokenInv, Lent
  <2>2. pool_ \cap Lent = {}
      BY DEF PoolInv, IdleIsUsable
  <2> QED
      BY <1>1, <2>1, <2>2 DEF BrokenInv, IdleIsUsable
<1>6. CountInv'
    BY <1>1 DEF PoolInv, CountInv, InUseIsLent
<1> QED
    BY <1>3, <1>4, <1>5, <1>6 DEF PoolInv

\* An idle connection is handed out: pool_ loses what Lent gains.
LEMMA TakeStep ==
    ASSUME PoolInv, NEW cl \in Clients, TakeIdle(cl)
    PROVE  PoolInv'
<1>1. PICK c \in pool_ : /\ pool_' = pool_ \ {c}
                         /\ lent' = [lent EXCEPT ![c] = cl]
    BY Zenon DEF TakeIdle
<1>2. c \in Conns /\ c \notin Lent /\ Lent' = Lent \cup {c}
    BY <1>1, PoolAssumption DEF PoolInv, PoolTypeOK, IdleIsUsable, Lent
<1>3. (PoolTypeOK /\ CreatingInv)'
    BY <1>1, <1>2 DEF PoolInv, PoolTypeOK, CreatingInv, TakeIdle, AtPredicate, Unlocked
<1>4. (BrokenInv /\ IdleIsUsable)'
    BY <1>1, <1>2 DEF PoolInv, PoolTypeOK, BrokenInv, IdleIsUsable, TakeIdle
<1>5. CountInv'
  <2>1. /\ IsFiniteSet(pool_ \ {c})
        /\ Cardinality(pool_ \ {c}) = Cardinality(pool_) - 1
      BY FS_RemoveElement DEF PoolInv, CountInv
  <2>2. /\ IsFiniteSet(Lent \cup {c})
        /\ Cardinality(Lent \cup {c}) = Cardinality(Lent) + 1
      BY <1>2, FS_AddElement DEF PoolInv, CountInv
  <2>3. Cardinality(pool_) \in Nat
      BY FS_CardinalityType DEF PoolInv, CountInv
  <2>4. in_use_count_' = in_use_count_ + 1
      BY DEF TakeIdle
  <2>5. InUseIsLent' /\ IsFiniteSet(pool_') /\ IsFiniteSet(Lent')
      BY <1>1, <1>2, <2>1, <2>2, <2>4 DEF PoolInv, CountInv, InUseIsLent
  <2>6. Cardinality(pool_') + in_use_count_' <= PoolSize
      BY <1>1, <2>1, <2>3, <2>4, PoolAssumption DEF PoolInv, PoolTypeOK, CountInv
  <2> QED
      BY <2>5, <2>6 DEF CountInv
<1> QED
    BY <1>3, <1>4, <1>5 DEF PoolInv

\* A new connection is lent: pool_ is empty and there is room by CreatingInv.
LEMMA CreateStep ==
    ASSUME PoolInv, NEW cl \in Clients, CreateSucceeds(cl)
    PROVE  PoolInv'
<1>1. PICK c \in Conns \ (pool_ \cup Lent) : lent' = [lent EXCEPT ![c] = cl]
    BY Zenon DEF CreateSucceeds
<1>2. Lent' = Lent \cup {c}
    BY <1>1, PoolAssumption DEF PoolInv, PoolTypeOK, Lent
<1>3. pool_ = {} /\ in_use_count_ < PoolSize
    BY PoolAssumption DEF PoolInv, CreatingInv, Unlocked, CreateSucceeds
<1>4. (PoolTypeOK /\ CreatingInv)'
    BY <1>1 DEF PoolInv, PoolTypeOK, CreatingInv, CreateSucceeds, Unlocked
<1>5. (BrokenInv /\ IdleIsUsable)'
    BY <1>2, <1>3 DEF PoolInv, PoolTypeOK, BrokenInv, IdleIsUsable, CreateSucceeds
<1>6. CountInv'
  <2>1. /\ IsFiniteSet(Lent \cup {c})
        /\ Cardinality(Lent \cup {c}) = Cardinality(Lent) + 1
      BY <1>1, FS_AddElement DEF PoolInv, CountInv
  <2>2. Cardinality(pool_) = 0
      BY <1>3, FS_EmptySet
  <2> QED
      BY <1>2, <1>3, <2>1, <2>2, PoolAssumption
      DEF PoolInv, PoolTypeOK, CountInv, InUseIsLent, CreateSucceeds
<1> QED
    BY <1>4, <1>5, <1>6 DEF PoolInv

\* A connection comes back: to the pool when it is open, to nowhere otherwise.
LEMMA ReleaseStep ==
    ASSUME PoolInv, NEW c \in Conns, ReleaseConnection(c)
    PROVE  PoolInv'
<1> USE DEF ReleaseConnection, ReleaseOpen, ReleaseBroken
<1>1. c \in Lent /\ c \notin pool_ /\ Lent' = Lent \ {c}
    BY PoolAssumption DEF PoolInv, PoolTypeOK, IdleIsUsable, Lent
<1>2. /\ IsFiniteSet(Lent')
      /\ Cardinality(Lent') = in_use_count_ - 1
      /\ Cardinality(Lent') \in Nat
    BY <1>1, FS_RemoveElement, FS_CardinalityType DEF PoolInv, CountInv, InUseIsLent
<1>3. (PoolTypeOK /\ CreatingInv)'
    BY <1>2, NotifyOneType DEF PoolInv, PoolTypeOK, CreatingInv, Unlocked
<1>4. (BrokenInv /\ IdleIsUsable)'
    BY <1>1 DEF PoolInv, PoolTypeOK, BrokenInv, IdleIsUsable
<1>5. CountInv'
  <2>1. /\ IsFiniteSet(pool_ \cup {c})
        /\ Cardinality(pool_ \cup {c}) = Cardinality(pool_) + 1
        /\ Cardinality(pool_) \in Nat
      BY <1>1, FS_AddElement, FS_CardinalityType DEF PoolInv, CountInv
  <2>2. in_use_count_' = in_use_count_ - 1
      BY DEF ReleaseConnection
  <2>3. pool_' = pool_ \cup {c} \/ pool_' = pool_
      BY DEF ReleaseConnection
  <2>4. /\ IsFiniteSet(pool_')
        /\ Cardinality(pool_') \in Nat
        /\ Cardinality(pool_') <= Cardinality(pool_) + 1
    <3> HIDE DEF ReleaseConnection
    <3>1. IsFiniteSet(pool_)
        BY DEF PoolInv, CountInv
    <3>2. Cardinality(pool_) + 1 \in Nat /\ Cardinality(pool_) <= Cardinality(pool_) + 1
        BY <2>1
    <3>3. CASE pool_' = pool_
        BY <2>1, <3>1, <3>2, <3>3
    <3>4. CASE pool_' = pool_ \cup {c}
        BY <2>1, <3>2, <3>4
    <3> QED
        BY <2>3, <3>3, <3>4
  <2>5. Cardinality(pool_') + in_use_count_' <= PoolSize
      BY <2>1, <2>2, <2>4, PoolAssumption DEF PoolInv, PoolTypeOK, CountInv
  <2> QED
      BY <1>2, <2>2, <2>4, <2>5 DEF CountInv, InUseIsLent
<1> QED
    BY <1>3, <1>4, <1>5 DEF PoolInv

\* A new pool satisfies the invariant.
LEMMA PoolInitInv == PoolInit => PoolInv
<1> SUFFICES ASSUME PoolInit PROVE PoolInv
    OBVIOUS
<1>1. Lent = {} /\ pool_ = {}
    BY DEF PoolInit, Lent
<1>2. CountInv
    BY <1>1, FS_EmptySet, PoolAssumption DEF PoolInit, CountInv, InUseIsLent
<1> QED
    BY <1>1, <1>2
    DEF PoolInit, PoolInv, PoolTypeOK, CreatingInv, BrokenInv, IdleIsUsable, Unlocked

\* Every step of GetConnection and of the deleter preserves it.
LEMMA PoolNextInv == PoolInv /\ [PoolNext]_poolVars => PoolInv'
BY WaitStep, TakeStep, CreateStep, ReleaseStep
DEF PoolNext, GetConnection

\* The inductive invariant holds of every behaviour.
THEOREM PoolInvariance == PoolSpec => []PoolInv
BY PoolInitInv, PoolNextInv, PTL DEF PoolSpec

\* GetConnection and the deleter keep the pool sound for every pool size and any
\* number of clients: the count of lent connections is exact, connections never
\* outnumber pool_size_, and an idle connection is open and free.
THEOREM PoolSafety ==
    PoolSpec => [](PoolTypeOK /\ InUseIsLent /\ BoundedConnections /\ IdleIsUsable)
<1>1. PoolInv => PoolTypeOK /\ InUseIsLent /\ IdleIsUsable
    BY DEF PoolInv, CountInv
<1>2. PoolInv => BoundedConnections
  <2> SUFFICES ASSUME PoolInv PROVE BoundedConnections
      OBVIOUS
  <2>1. CASE Unlocked
      BY <2>1, FS_CardinalityType, PoolAssumption
      DEF PoolInv, PoolTypeOK, CountInv, InUseIsLent, BoundedConnections
  <2>2. CASE ~Unlocked
      BY <2>2, FS_EmptySet, PoolAssumption
      DEF PoolInv, PoolTypeOK, CountInv, CreatingInv, InUseIsLent, BoundedConnections
  <2> QED
      BY <2>1, <2>2
<1> QED
    BY <1>1, <1>2, PoolInvariance, PTL

\* The state keeps its type; in_use_count_, a size_t, never wraps around.
THEOREM PoolTypesHold == PoolSpec => []PoolTypeOK
BY PoolSafety, PTL

\* Idle, lent and being-opened connections together never outnumber pool_size_.
THEOREM ConnectionsBounded == PoolSpec => []BoundedConnections
BY PoolSafety, PTL

\* in_use_count_ is the number of connections lent; a connection in the pool is lent
\* to nobody and was open when it came back.
THEOREM ConnectionsKnown == PoolSpec => []ConnectionsAccounted
BY PoolSafety, PTL DEF ConnectionsAccounted

\* A timeout is thrown only when the whole pool is lent.
THEOREM TimeoutHonest == PoolSpec => TimeoutOnlyWhenExhausted
<1>1. ASSUME PoolInv, [PoolNext]_poolVars
      PROVE  [\A cl \in Clients :
                pc[cl] = "expired" /\ pc'[cl] = "run" /\ outcome'[cl] = "timeout"
                => pool_ = {} /\ Cardinality(Lent) >= PoolSize]_poolVars
  <2> SUFFICES ASSUME PoolNext, NEW cl \in Clients, pc[cl] = "expired",
                      pc'[cl] = "run", outcome'[cl] = "timeout"
               PROVE  pool_ = {} /\ Cardinality(Lent) >= PoolSize
      BY <1>1
  <2>1. Timeout(cl)
    <3>1. ASSUME NEW p \in [Clients -> {"run", "asleep", "awake", "expired", "creating"}],
                 p[cl] = "expired", NEW q \in NotifyOne(p)
          PROVE  q[cl] = "expired"
        BY <3>1 DEF NotifyOne
    <3> QED
        BY <1>1, <3>1, Zenon
        DEF PoolNext, GetConnection, ReleaseConnection, PoolInv, PoolTypeOK, CreatingInv,
            Unlocked, Sleep, Wake, Expire, Timeout, TakeIdle, BeginCreate,
            CreateSucceeds, CreateFails, Break, ReleaseOpen, ReleaseBroken
  <2> QED
      BY <1>1, <2>1, PoolAssumption
      DEF Timeout, Available, PoolInv, PoolTypeOK, CountInv, InUseIsLent
<1> QED
    BY <1>1, PoolInvariance, PTL DEF PoolSpec, TimeoutOnlyWhenExhausted
=============================================================================
