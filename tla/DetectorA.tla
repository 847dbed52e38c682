----------------------------- MODULE DetectorA ------------------------------
(***************************************************************************)
(* Detector A (src/detectors/detector_a.cpp): per metric a sliding window  *)
(* with its running sums and a median and median absolute deviation (MAD)  *)
(* that are recomputed every few updates.                                  *)
(*                                                                         *)
(* Metric values are integers.  A MAD of 0 stands for the 1e-6 that the    *)
(* code puts in its place, with which any deviation is a huge robust z.    *)
(***************************************************************************)
EXTENDS Integers, Sequences, TLC

CONSTANTS
    WindowSize, RecomputeInterval, MinHistory,  \* WindowConfig
    RobustZThreshold, PoisonSkipThreshold,      \* OutlierConfig
    EnablePoisonMitigation

\* The window can hold the warm-up.  The defaults are 60, 10 and 10; nothing makes the
\* warm-up end on a recompute tick.
ASSUME DetectorAssumption ==
    /\ WindowSize \in Nat /\ MinHistory \in 1..WindowSize
    /\ RecomputeInterval \in Nat \ {0}
    /\ RobustZThreshold \in Nat /\ PoisonSkipThreshold \in Nat
    /\ EnablePoisonMitigation \in BOOLEAN

Abs(x) == IF x < 0 THEN -x ELSE x
Sum(s) == LET F[n \in 0..Len(s)] == IF n = 0 THEN 0 ELSE F[n - 1] + s[n] IN F[Len(s)]
Squares(s) == [i \in DOMAIN s |-> s[i] * s[i]]

\* What nth_element leaves at position n / 2.
UpperMedian(s) == SortSeq(s, <)[(Len(s) \div 2) + 1]

\* MetricState; computed is not in the code: it tells the initial zeros of median and
\* mad from computed ones.
InitMetricState == [buffer |-> <<>>, sum |-> 0, sum_sq |-> 0, median |-> 0, mad |-> 0,
                    computed |-> FALSE]

UpdateRobustStats(st) ==
    LET m == UpperMedian(st.buffer)
    IN  [st EXCEPT !.median = m, !.computed = TRUE,
                   !.mad = UpperMedian([i \in DOMAIN st.buffer |-> Abs(st.buffer[i] - m)])]

Warm(st) == Len(st.buffer) >= MinHistory

\* robust_z > threshold
Exceeds(st, v, threshold) ==
    IF st.mad = 0 THEN v # st.median ELSE Abs(v - st.median) > threshold * st.mad

\* Faulty variant: the old value stays in the sums.
PushKeepsSum(st, v) ==
    LET b == Append(st.buffer, v)
    IN  [st EXCEPT !.buffer = IF Len(b) > WindowSize THEN Tail(b) ELSE b,
                   !.sum = @ + v, !.sum_sq = @ + v * v]

\* The value enters the window, the oldest one leaves it and the sums.
Push(st, v) ==
    LET b == Append(st.buffer, v)
        old == IF Len(b) > WindowSize THEN <<Head(b)>> ELSE <<>>
    IN  [st EXCEPT !.buffer = IF old = <<>> THEN b ELSE Tail(b),
                   !.sum = @ + v - Sum(old), !.sum_sq = @ + v * v - Sum(Squares(old))]

\* Faulty variant: the tick is noticed at the update after it.
NeedsRecomputeLate(count) == count % RecomputeInterval = 1 % RecomputeInterval

NeedsRecompute(count) == count % RecomputeInterval = 0

\* One metric of Update: recompute, score, push unless skipped.
Scored(st, count) == IF NeedsRecompute(count) /\ Warm(st) THEN UpdateRobustStats(st) ELSE st
Skipped(st, v) == EnablePoisonMitigation /\ Warm(st) /\ Exceeds(st, v, PoisonSkipThreshold)
Flagged(st, v) == Warm(st) /\ Exceeds(st, v, RobustZThreshold)
Update(st, count, v) ==
    LET s == Scored(st, count) IN IF Skipped(s, v) THEN s ELSE Push(s, v)
=============================================================================
