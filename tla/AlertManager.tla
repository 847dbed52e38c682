---------------------------- MODULE AlertManager ----------------------------
(***************************************************************************)
(* AlertManager::Evaluate (src/alert_manager.cpp) on the FusionState of    *)
(* one host: hysteresis, cooldown and the severity of the alert.  Time 0   *)
(* is the epoch, the initial last_alert_time.                              *)
(***************************************************************************)
EXTENDS Integers

CONSTANTS Hysteresis, Cooldown

ASSUME AlertAssumption == Hysteresis \in Nat /\ Cooldown \in Nat

InitFusionState == [consecutive |-> 0, last_alert |-> 0]

\* Faulty variant: the cooldown is not looked at.
RaisesAlways(st, ts, flag) == flag /\ st.consecutive + 1 >= Hysteresis

Raises(st, ts, flag) ==
    /\ flag
    /\ st.consecutive + 1 >= Hysteresis
    /\ st.last_alert > 0 => ts - st.last_alert >= Cooldown

\* Faulty variant: the count goes on after an alert and after a normal record.
EvaluateKeepsCount(st, ts, flag) ==
    IF Raises(st, ts, flag) THEN [consecutive |-> 0, last_alert |-> ts]
    ELSE [st EXCEPT !.consecutive = IF flag THEN @ + 1 ELSE @]

\* Faulty variant: anomalies within the cooldown are not counted.
EvaluateForgets(st, ts, flag) ==
    IF Raises(st, ts, flag) THEN [consecutive |-> 0, last_alert |-> ts]
    ELSE [st EXCEPT !.consecutive =
            IF flag /\ (st.last_alert = 0 \/ ts - st.last_alert >= Cooldown) THEN @ + 1 ELSE 0]

Evaluate(st, ts, flag) ==
    IF Raises(st, ts, flag) THEN [consecutive |-> 0, last_alert |-> ts]
    ELSE [st EXCEPT !.consecutive = IF flag THEN @ + 1 ELSE 0]

\* high_a: Detector A's score is above 10.
Severity(a, b, high_a) ==
    CASE a /\ b -> "CRITICAL"
      [] ~a /\ b -> "HIGH"
      [] OTHER -> IF high_a THEN "HIGH" ELSE "MEDIUM"
=============================================================================
