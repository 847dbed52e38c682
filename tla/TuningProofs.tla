---------------------------- MODULE TuningProofs ----------------------------
(***************************************************************************)
(* Proofs about Tuning for every accepted hpo_config and any number of     *)
(* crashes, refused starts and failing statements.                         *)
(***************************************************************************)
EXTENDS TuningReports, DataLemmas

Early == {"none", "submitted", "claim", "recheck", "create"}
Late == {"loop", "start", "poll", "cancel"}

\* The rows of the trials are inserted in order, after the parent's and before the first
\* trial is started.
RowsInv ==
    /\ status[0] = "NONE" => orch.pc = "none"
    /\ orch.pc \in Early \ {"create"} => \A t \in Trials : status[t] = "NONE"
    /\ orch.pc = "create" => \E t \in Trials : status[t] = "NONE"
    /\ orch.pc \in Late => \A t \in Trials : status[t] # "NONE"
    /\ \A s, t \in Trials : s <= t /\ status[s] = "NONE" => status[t] = "NONE"

\* Jobs are started in order, for rows that exist; only a job makes its row RUNNING.
JobsInv ==
    /\ orch.pc \in Early => \A t \in Trials : trial[t] = "none"
    /\ orch.pc \in Late => \A t \in Trials : t >= orch.next => trial[t] = "none"
    /\ \A t \in Trials : /\ trial[t] # "none" => status[t] # "NONE"
                         /\ status[t] = "RUNNING" => trial[t] # "none"

\* The trials that are RUNNING or may still become so.
MayRun == {t \in Trials : \/ status[t] = "RUNNING"
                          \/ trial[t] = "claim" /\ status[t] = "PENDING"}

\* While the orchestrator is in its loop it counts all of them as active.
ConcurrencyInv ==
    /\ Cardinality(MayRun) <= MaxConcurrency
    /\ orch.pc \in Late => MayRun \subseteq orch.active

\* Until something fails, a trial that could be selected without a metric is one whose
\* job is about to write it.
MetricInv ==
    faults = 0 => \A t \in Trials :
        status[t] = "COMPLETED" /\ eligible[t] /\ metric[t] # "threshold" => trial[t] = "eligible"

DeletePc == {"idle", "list", "cancel", "status", "eligible", "stop", "write", "answered"}

\* The DELETE request writes to rows that exist, and until something fails it leaves
\* behind terminal rows only.
DeleteInv ==
    /\ del.pc \in {"idle", "list"} => del.seen = {} /\ del.todo = {}
    /\ del.pc \in {"cancel", "status", "eligible"} => del.todo # {}
    /\ del.pc \in {"stop", "write", "answered"} => del.todo = {}
    /\ \A t \in del.todo : status[t] # "NONE"
    /\ del.pc \notin {"idle", "answered"} => status[del.run] # "NONE"
    /\ faults = 0 => \A t \in del.seen \ del.todo : status[t] \in Terminal
    /\ faults = 0 /\ del.pc = "eligible" => status[NextToCancel] \in Terminal

IInv == TypeOK /\ RowsInv /\ JobsInv /\ ConcurrencyInv /\ MetricInv /\ DeleteInv

-----------------------------------------------------------------------------
(* The trials of a request, and least elements *)

\* What ValidateHpoConfig lets through.
LEMMA Accepted ==
    \A hpo : ValidateHpoConfig(hpo) = {} =>
        /\ hpo.algorithm \in {"grid", "random"}
        /\ hpo.max_trials \in 1..50 /\ hpo.max_concurrency \in 1..10
        /\ ~(hpo.algorithm = "grid" /\ Combinations(hpo) > 100)
<1> TAKE hpo
<1>1. ASSUME NEW A, NEW B, NEW C, NEW D, NEW E, NEW F, NEW G, UNION {A, B, C, D, E, F, G} = {}
      PROVE  A = {} /\ B = {} /\ C = {} /\ G = {}
    BY <1>1
<1> DEFINE A == IF hpo.algorithm \notin {"grid", "random"} THEN {"algorithm"} ELSE {}
           B == IF hpo.max_trials \notin 1..50 THEN {"max_trials"} ELSE {}
           C == IF hpo.max_concurrency \notin 1..10 THEN {"max_concurrency"} ELSE {}
           D == IF hpo.n_components = <<>> /\ hpo.percentile = <<>>
                THEN {"search_space"} ELSE {}
           E == IF \E i \in DOMAIN hpo.n_components : hpo.n_components[i] \notin 1..5
                THEN {"search_space.n_components"} ELSE {}
           F == IF \E i \in DOMAIN hpo.percentile : hpo.percentile[i] \notin 5000..9999
                THEN {"search_space.percentile"} ELSE {}
           G == IF hpo.algorithm = "grid" /\ Combinations(hpo) > 100
                THEN {"search_space"} ELSE {}
<1>2. ValidateHpoConfig(hpo) = UNION {A, B, C, D, E, F, G}
    BY DEF ValidateHpoConfig
<1> HAVE ValidateHpoConfig(hpo) = {}
<1> HIDE DEF A, B, C, D, E, F, G
<1>3. A = {} /\ B = {} /\ C = {} /\ G = {}
    BY <1>1, <1>2
<1>4. hpo.algorithm \in {"grid", "random"}
    BY <1>3 DEF A
<1>5. hpo.max_trials \in 1..50
    BY <1>3 DEF B
<1>6. hpo.max_concurrency \in 1..10
    BY <1>3 DEF C
<1>7. ~(hpo.algorithm = "grid" /\ Combinations(hpo) > 100)
    BY <1>3 DEF G
<1> QED BY <1>4, <1>5, <1>6, <1>7, Zenon

\* The search spaces are never empty.
LEMMA Spaces ==
    ASSUME NEW hpo, hpo.n_components \in Seq(Int), hpo.percentile \in Seq(Int)
    PROVE  /\ NSpace(hpo) \in Seq(Int) /\ PSpace(hpo) \in Seq(Int)
           /\ Len(NSpace(hpo)) \in Nat \ {0} /\ Len(PSpace(hpo)) \in Nat \ {0}
           /\ Combinations(hpo) \in Nat \ {0}
<1>1. /\ NSpace(hpo) \in Seq(Int) /\ PSpace(hpo) \in Seq(Int)
      /\ Len(NSpace(hpo)) \in Nat \ {0} /\ Len(PSpace(hpo)) \in Nat \ {0}
    BY DEF NSpace, PSpace
<1> QED BY <1>1 DEF Combinations

LEMMA MinOfTwo ==
    ASSUME NEW a \in Nat, NEW b \in Nat
    PROVE  Min({a, b}) = IF a <= b THEN a ELSE b
BY DEF Min

\* The number of trials that GenerateTrials produces.
LEMMA TrialCount ==
    ASSUME NEW hpo, hpo.n_components \in Seq(Int), hpo.percentile \in Seq(Int),
           hpo.max_trials \in Nat, NEW draws
    PROVE  Len(GenerateTrials(hpo, draws))
             = IF hpo.algorithm = "grid" /\ Combinations(hpo) <= hpo.max_trials
               THEN Combinations(hpo) ELSE hpo.max_trials
<1> DEFINE P == Len(PSpace(hpo))
           m == Min({Combinations(hpo), hpo.max_trials})
<1>1. m = IF Combinations(hpo) <= hpo.max_trials THEN Combinations(hpo) ELSE hpo.max_trials
    BY Spaces, MinOfTwo, Zenon
<1>2. CASE hpo.algorithm = "grid"
  <2>1. GenerateTrials(hpo, draws)
          = [i \in 1..m |-> Trial(hpo, ((i - 1) \div P) + 1, ((i - 1) % P) + 1)]
      BY <1>2 DEF GenerateTrials
  <2>2. m \in Nat
      BY <1>1, Spaces
  <2> HIDE DEF m, P
  <2>3. Len(GenerateTrials(hpo, draws)) = m
      BY <2>1, <2>2
  <2> QED BY <1>1, <1>2, <2>3
<1>3. CASE hpo.algorithm # "grid"
  <2>1. GenerateTrials(hpo, draws)
          = [i \in 1..hpo.max_trials |-> Trial(hpo, draws[i][1], draws[i][2])]
      BY <1>3 DEF GenerateTrials
  <2> QED BY <1>3, <2>1
<1> QED BY <1>2, <1>3

\* An accepted hpo_config has at least one trial, and its concurrency is not clamped.
LEMMA TrialsRange ==
    /\ \E N \in Nat \ {0} : Trials = 1..N /\ Cardinality(Trials) = N
    /\ MaxConcurrency \in Nat \ {0}
<1>1. /\ Hpo.max_trials \in 1..50 /\ Hpo.max_concurrency \in 1..10
      /\ Hpo.n_components \in Seq(Int) /\ Hpo.percentile \in Seq(Int)
    BY Accepted, TuningAssumption
<1>2. ASSUME NEW x \in 1..50 PROVE x \in Nat \ {0}
    OBVIOUS
<1>3. Hpo.max_trials \in Nat \ {0}
    BY <1>1, <1>2, Zenon
<1>4. \E N \in Nat \ {0} : Trials = 1..N
  <2> DEFINE draws == [i \in 1..Hpo.max_trials |-> <<1, 1>>]
  <2>1. Len(GenerateTrials(Hpo, draws)) \in Nat \ {0}
    <3> HIDE DEF draws
    <3> QED BY <1>1, <1>3, Spaces, TrialCount, Zenon
  <2>2. Trials = 1..Len(GenerateTrials(Hpo, draws))
      BY DEF Trials
  <2> QED BY <2>1, <2>2
<1>5. MaxConcurrency \in Nat \ {0}
    BY <1>1 DEF MaxConcurrency, Clamp
<1> QED BY <1>4, <1>5, FS_Interval

\* Min of a nonempty set of trials is its least element.
LEMMA LeastTrial ==
    ASSUME NEW S, S \subseteq Trials, S # {}
    PROVE  Min(S) \in S /\ \A t \in S : Min(S) <= t
<1>1. S \subseteq Nat
    BY TrialsRange
<1>2. PICK x \in S : \A y \in S : ~(<<y, x>> \in OpToRel(<, Nat))
    BY <1>1, NatLessThanWellFounded, WFMin, Zenon
<1>3. \A y \in S : x <= y
  <2> SUFFICES ASSUME NEW y \in S, y < x PROVE FALSE
      BY <1>1
  <2>1. <<y, x>> \in Nat \X Nat /\ <<y, x>>[1] < <<y, x>>[2]
      BY <1>1
  <2>2. <<y, x>> \in OpToRel(<, Nat)
      BY <2>1 DEF OpToRel
  <2> QED BY <1>2, <2>2, Zenon
<1> QED BY <1>3 DEF Min

\* What the proofs below use of the trials.
LEMMA TrialsFacts ==
    /\ IsFiniteSet(Trials) /\ Trials # {} /\ Trials \subseteq Nat \ {0}
    /\ \A t \in Trials : t \in 1..Cardinality(Trials)
    /\ \A s, t \in Trials : s + 1 \notin Trials => t <= s
    /\ Cardinality(Trials) \in Nat \ {0} /\ 1 \in 1..(Cardinality(Trials) + 1)
    /\ 0 \in Runs /\ 0 \notin Trials /\ Runs = Trials \cup {0}
<1>1. PICK N \in Nat \ {0} : Trials = 1..N /\ Cardinality(Trials) = N
    BY TrialsRange
<1>2. IsFiniteSet(Trials)
    BY <1>1, FS_Interval
<1> QED BY <1>1, <1>2 DEF Runs

\* A set of trials within an old bound, or within one more than a strict one.
LEMMA Bounded ==
    ASSUME NEW S, NEW T, S \subseteq Trials, T \subseteq S
    PROVE  Cardinality(T) <= Cardinality(S) /\ Cardinality(T) \in Nat /\ Cardinality(S) \in Nat
BY TrialsFacts, FS_Subset, FS_CardinalityType, Zenon

-----------------------------------------------------------------------------
(* Preservation, one step per action *)

\* Statements and starts that are executed or fail keep the count of faults in range.
LEMMA FaultsType == ASSUME TypeOK, Executed \/ Failed PROVE faults' \in 0..MaxFaults
BY TuningAssumption DEF TypeOK, Executed, Failed

\* What is written by DbClient keeps its type.
LEMMA RowTypes ==
    ASSUME TypeOK
    PROVE  /\ \A r \in Runs, s \in Active \cup Terminal :
                SetStatus(r, s) => status' \in [Runs -> Active \cup Terminal \cup {"NONE"}]
           /\ \A t \in Trials, b \in BOOLEAN, m \in {"zero", "threshold"} :
                UpdateTrialEligibility(t, b, m) =>
                    /\ eligible' \in [Trials -> BOOLEAN]
                    /\ metric' \in [Trials -> {"null", "zero", "threshold"}]
<1>1. \A r \in Runs, s \in Active \cup Terminal :
        SetStatus(r, s) => status' \in [Runs -> Active \cup Terminal \cup {"NONE"}]
    BY DEF TypeOK, SetStatus
<1>2. \A t \in Trials, b \in BOOLEAN, m \in {"zero", "threshold"} :
        UpdateTrialEligibility(t, b, m) => eligible' \in [Trials -> BOOLEAN]
    BY Zenon DEF TypeOK, UpdateTrialEligibility, row
<1>3. \A t \in Trials, b \in BOOLEAN, m \in {"zero", "threshold"} :
        UpdateTrialEligibility(t, b, m) => metric' \in [Trials -> {"null", "zero", "threshold"}]
    BY DEF TypeOK, UpdateTrialEligibility, row
<1> QED BY <1>1, <1>2, <1>3

\* Raised and reset flags are Booleans.
LEMMA FlagTypes ==
    ASSUME TypeOK
    PROVE  /\ DeleteTrialCancel => stop_flag' \in [Runs -> BOOLEAN]
           /\ DeleteCancel => stop_flag' \in [Runs -> BOOLEAN]
           /\ Shutdown => stop_flag' \in [Runs -> BOOLEAN]
           /\ ProcessEnds => stop_flag' \in [Runs -> BOOLEAN]
<1>1. DeleteTrialCancel => stop_flag' \in [Runs -> BOOLEAN]
    BY Zenon DEF TypeOK, DeleteTrialCancel
<1>2. DeleteCancel => stop_flag' \in [Runs -> BOOLEAN]
    BY Zenon DEF TypeOK, DeleteCancel
<1>3. Shutdown => stop_flag' \in [Runs -> BOOLEAN]
    BY DEF Shutdown
<1>4. ProcessEnds => stop_flag' \in [Runs -> BOOLEAN]
    BY Zenon DEF TypeOK, ProcessEnds
<1> QED BY <1>1, <1>2, <1>3, <1>4

\* No step but the start of a trial adds to what may run.
LEMMA FewerMayRun ==
    ASSUME ConcurrencyInv, MayRun' \subseteq MayRun,
           orch'.pc \in Late => MayRun' \subseteq orch'.active
    PROVE  ConcurrencyInv'
<1>1. /\ Cardinality(MayRun') <= Cardinality(MayRun) /\ Cardinality(MayRun') \in Nat
      /\ Cardinality(MayRun) \in Nat
    BY Bounded DEF MayRun
<1> QED BY <1>1, TrialsRange DEF ConcurrencyInv

\* A row does not vanish, and one that has ended stays so.
StatusMoves(r) == /\ status[r] # "NONE" => status'[r] # "NONE"
                  /\ status[r] \in Terminal => status'[r] \in Terminal

\* The next trial to cancel is one that is still to be cancelled.
LEMMA NextIsTodo ==
    ASSUME TypeOK, del.todo # {}
    PROVE  NextToCancel \in del.todo /\ NextToCancel \in Trials /\ NextToCancel \in Runs
BY LeastTrial DEF TypeOK, NextToCancel, Runs

\* What the DELETE request relies on survives the steps of others.
LEMMA DeleteKept ==
    ASSUME TypeOK, DeleteInv, UNCHANGED del, faults' = 0 => faults = 0,
           \A r \in Runs : StatusMoves(r)
    PROVE  DeleteInv'
<1>1. del.pc = "eligible" => NextToCancel \in Runs
    BY NextIsTodo DEF DeleteInv
<1>2. UNCHANGED NextToCancel
    BY DEF NextToCancel
<1>3. del.run \in Runs /\ del.todo \subseteq Runs /\ del.seen \subseteq Runs
    BY DEF TypeOK, Runs
<1> QED BY <1>1, <1>2, <1>3, Zenon DEF DeleteInv, StatusMoves, Terminal

\* The job of a trial preserves it.
LEMMA TrialStep == ASSUME IInv, NEW u \in Trials, RunPcaTraining(u) PROVE IInv'
<1> USE TrialsFacts DEF IInv, Active, Terminal, Executed, Failed, SetStatus, row, Step
<1>0. UNCHANGED <<orch, stop_flag, del, server>> /\ u \in Runs /\ u # 0
    BY DEF RunPcaTraining
<1>1. CASE ClaimTrial(u)
  <2> USE <1>0, <1>1 DEF ClaimTrial
  <2>1. TypeOK'
    <3>1. /\ status' \in [Runs -> Active \cup Terminal \cup {"NONE"}]
          /\ trial' \in [Trials -> TrialLive \cup {"none", "done"}]
        BY DEF TypeOK, TrialLive
    <3>2. eligible' \in [Trials -> BOOLEAN] /\ metric' \in [Trials -> {"null", "zero", "threshold"}]
        BY RowTypes DEF TypeOK
    <3>3. faults' \in 0..MaxFaults
        BY FaultsType, Zenon DEF UpdateTrialEligibility
    <3> QED BY <3>1, <3>2, <3>3, Zenon DEF TypeOK, Runs
  <2>2. RowsInv' BY DEF TypeOK, RowsInv, JobsInv
  <2>3. JobsInv' BY DEF TypeOK, JobsInv
  <2>4. ConcurrencyInv'
    <3>1. ASSUME NEW t \in Trials, t \in MayRun' PROVE t \in MayRun
        BY <3>1 DEF TypeOK, MayRun
    <3>2. MayRun' \subseteq MayRun
        BY <3>1, Zenon DEF MayRun
    <3> QED BY <3>2, FewerMayRun, Zenon DEF ConcurrencyInv
  <2>5. MetricInv' BY DEF TypeOK, MetricInv
  <2>6. DeleteInv'
    <3>1. \A r \in Runs : StatusMoves(r)
        BY DEF TypeOK, StatusMoves
    <3>2. faults' = 0 => faults = 0
        BY DEF TypeOK
    <3> QED BY <3>1, <3>2, DeleteKept
  <2> QED BY <2>1, <2>2, <2>3, <2>4, <2>5, <2>6, Zenon
<1>2. CASE RecheckTrial(u)
  <2> USE <1>0, <1>2 DEF RecheckTrial
  <2>1. TypeOK'
    <3>1. /\ status' \in [Runs -> Active \cup Terminal \cup {"NONE"}]
          /\ trial' \in [Trials -> TrialLive \cup {"none", "done"}]
        BY DEF TypeOK, TrialLive
    <3>2. eligible' \in [Trials -> BOOLEAN] /\ metric' \in [Trials -> {"null", "zero", "threshold"}]
        BY RowTypes DEF TypeOK
    <3>3. faults' \in 0..MaxFaults
        BY FaultsType, Zenon DEF UpdateTrialEligibility
    <3> QED BY <3>1, <3>2, <3>3, Zenon DEF TypeOK, Runs
  <2>2. RowsInv' BY DEF TypeOK, RowsInv, JobsInv
  <2>3. JobsInv' BY DEF TypeOK, JobsInv
  <2>4. ConcurrencyInv'
    <3>1. ASSUME NEW t \in Trials, t \in MayRun' PROVE t \in MayRun
        BY <3>1 DEF TypeOK, MayRun
    <3>2. MayRun' \subseteq MayRun
        BY <3>1, Zenon DEF MayRun
    <3> QED BY <3>2, FewerMayRun, Zenon DEF ConcurrencyInv
  <2>5. MetricInv' BY DEF TypeOK, MetricInv
  <2>6. DeleteInv'
    <3>1. \A r \in Runs : StatusMoves(r)
        BY DEF TypeOK, StatusMoves
    <3>2. faults' = 0 => faults = 0
        BY DEF TypeOK
    <3> QED BY <3>1, <3>2, DeleteKept
  <2> QED BY <2>1, <2>2, <2>3, <2>4, <2>5, <2>6, Zenon
<1>3. CASE TrainTrial(u)
  <2> USE <1>0, <1>3 DEF TrainTrial
  <2>1. TypeOK'
    <3>1. /\ status' \in [Runs -> Active \cup Terminal \cup {"NONE"}]
          /\ trial' \in [Trials -> TrialLive \cup {"none", "done"}]
        BY DEF TypeOK, TrialLive
    <3>2. eligible' \in [Trials -> BOOLEAN] /\ metric' \in [Trials -> {"null", "zero", "threshold"}]
        BY RowTypes DEF TypeOK
    <3>3. faults' \in 0..MaxFaults
        BY FaultsType DEF UpdateTrialEligibility
    <3> QED BY <3>1, <3>2, <3>3, Zenon DEF TypeOK, Runs
  <2>2. RowsInv' BY DEF TypeOK, RowsInv, JobsInv
  <2>3. JobsInv' BY DEF TypeOK, JobsInv
  <2>4. ConcurrencyInv'
    <3>1. ASSUME NEW t \in Trials, t \in MayRun' PROVE t \in MayRun
        BY <3>1 DEF TypeOK, MayRun
    <3>2. MayRun' \subseteq MayRun
        BY <3>1, Zenon DEF MayRun
    <3> QED BY <3>2, FewerMayRun, Zenon DEF ConcurrencyInv
  <2>5. MetricInv' BY DEF TypeOK, MetricInv
  <2>6. DeleteInv'
    <3>1. \A r \in Runs : StatusMoves(r)
        BY DEF TypeOK, StatusMoves
    <3>2. faults' = 0 => faults = 0
        BY DEF TypeOK
    <3> QED BY <3>1, <3>2, DeleteKept
  <2> QED BY <2>1, <2>2, <2>3, <2>4, <2>5, <2>6, Zenon
<1>4. CASE ReportTrial(u)
  <2> USE <1>0, <1>4 DEF ReportTrial, UpdateModelRunStatus
  <2>1. TypeOK'
    <3>1. /\ status' \in [Runs -> Active \cup Terminal \cup {"NONE"}]
          /\ trial' \in [Trials -> TrialLive \cup {"none", "done"}]
        BY DEF TypeOK, TrialLive, UpdateTrialEligibility
    <3>2. eligible' \in [Trials -> BOOLEAN] /\ metric' \in [Trials -> {"null", "zero", "threshold"}]
        BY RowTypes, Zenon DEF TypeOK
    <3>3. faults' \in 0..MaxFaults
        BY FaultsType DEF UpdateTrialEligibility
    <3> QED BY <3>1, <3>2, <3>3, Zenon DEF TypeOK, Runs
  <2>2. RowsInv' BY DEF TypeOK, RowsInv, JobsInv, UpdateTrialEligibility
  <2>3. JobsInv' BY DEF TypeOK, JobsInv, UpdateTrialEligibility
  <2>4. ConcurrencyInv'
    <3>1. ASSUME NEW t \in Trials, t \in MayRun' PROVE t \in MayRun
        BY <3>1 DEF TypeOK, MayRun, UpdateTrialEligibility
    <3>2. MayRun' \subseteq MayRun
        BY <3>1, Zenon DEF MayRun
    <3> QED BY <3>2, FewerMayRun, Zenon DEF ConcurrencyInv
  <2>5. MetricInv' BY DEF TypeOK, MetricInv, UpdateTrialEligibility
  <2>6. DeleteInv'
    <3>1. \A r \in Runs : StatusMoves(r)
        BY DEF TypeOK, StatusMoves, UpdateTrialEligibility
    <3>2. faults' = 0 => faults = 0
        BY DEF TypeOK, UpdateTrialEligibility
    <3> QED BY <3>1, <3>2, DeleteKept
  <2> QED BY <2>1, <2>2, <2>3, <2>4, <2>5, <2>6, Zenon
<1> QED BY <1>1, <1>2, <1>3, <1>4, Zenon DEF RunPcaTraining

\* Submitting and claiming the parent preserve it.
LEMMA ParentStep ==
    ASSUME IInv, Submit \/ StartOrchestrator \/ ClaimParent \/ RecheckParent \/ OrchestratorCancelled
    PROVE  IInv'
<1> USE TrialsFacts DEF IInv, Active, Terminal, Executed, Failed, SetStatus,
        UpdateModelRunStatus, row, Goto, Return, NoOrch, Early, Late, OrchLive
<1> USE DEF Submit, StartOrchestrator, ClaimParent, RecheckParent, OrchestratorCancelled
<1>1. TypeOK'
  <2>1. faults' \in 0..MaxFaults
      BY FaultsType DEF TypeOK
  <2>2. status' \in [Runs -> Active \cup Terminal \cup {"NONE"}]
      BY DEF TypeOK
  <2>3. orch' \in [pc : OrchLive \cup {"none", "submitted", "done"},
                   next : 1..(Cardinality(Trials) + 1),
                   active : SUBSET Trials, poll : SUBSET Trials]
      BY DEF TypeOK
  <2> QED BY <2>1, <2>2, <2>3 DEF TypeOK, Runs
<1>2. /\ \A t \in Trials : status'[t] = status[t]
      /\ UNCHANGED <<eligible, metric, trial, del>>
      /\ orch'.active = orch.active \/ orch'.pc = "done"
      /\ orch'.next = orch.next \/ orch'.pc = "done"
    BY DEF TypeOK
<1>3. RowsInv' BY <1>2 DEF TypeOK, RowsInv
<1>4. JobsInv' BY <1>2 DEF TypeOK, RowsInv, JobsInv
<1>5. ConcurrencyInv'
  <2>1. MayRun' = MayRun
      BY <1>2, Zenon DEF MayRun
  <2>2. orch'.pc \in Late => MayRun = {}
      BY DEF TypeOK, MayRun, JobsInv, RowsInv
  <2> QED BY <2>1, <2>2, FewerMayRun, Zenon
<1>6. MetricInv' BY <1>2 DEF TypeOK, MetricInv
<1>7. DeleteInv'
  <2>1. \A r \in Runs : StatusMoves(r)
      BY DEF TypeOK, StatusMoves
  <2>2. faults' = 0 => faults = 0
      BY DEF TypeOK
  <2> QED BY <1>2, <2>1, <2>2, DeleteKept, Zenon
<1> QED BY <1>1, <1>3, <1>4, <1>5, <1>6, <1>7, Zenon

\* The insertion of a trial's row preserves it.
LEMMA CreateStep == ASSUME IInv, CreateTrial PROVE IInv'
<1> USE DEF IInv, Executed, Failed, SetStatus, row, Goto, Return, NoOrch
<1> DEFINE N == {i \in Trials : status[i] = "NONE"}
           t == Min(N)
<1>1. t \in N /\ \A i \in N : t <= i
    BY LeastTrial DEF CreateTrial, RowsInv
<1>2. /\ orch.pc = "create" /\ UNCHANGED <<eligible, metric, trial, stop_flag, del, server>>
      /\ \/ /\ Executed /\ status' = [status EXCEPT ![t] = "PENDING"]
            /\ orch' = [orch EXCEPT !.pc = IF t + 1 \in Trials THEN "create" ELSE "loop"]
         \/ Failed /\ orch' = [NoOrch EXCEPT !.pc = "done"] /\ status' = status
    BY DEF CreateTrial
<1> HIDE DEF t
<1>3. t \in Trials /\ t \in Runs /\ t # 0 /\ status[t] = "NONE" /\ t \in Nat
    BY <1>1, TrialsFacts, Zenon
<1>4. \A i \in Trials : i < t => status[i] # "NONE"
    BY <1>1, TrialsFacts
<1>5. \A i \in Trials : trial[i] = "none" /\ status[i] # "RUNNING"
    BY <1>2, Zenon DEF JobsInv, Early
<1> USE <1>2, <1>3, TrialsFacts
<1>6. TypeOK'
  <2>1. faults' \in 0..MaxFaults
      BY FaultsType
  <2>2. status' \in [Runs -> Active \cup Terminal \cup {"NONE"}]
      BY DEF TypeOK, Active
  <2>3. orch' \in [pc : OrchLive \cup {"none", "submitted", "done"},
                   next : 1..(Cardinality(Trials) + 1),
                   active : SUBSET Trials, poll : SUBSET Trials]
      BY DEF TypeOK, OrchLive
  <2> QED BY <2>1, <2>2, <2>3, Zenon DEF TypeOK, Runs
<1>7. RowsInv'
  <2>1. CASE status' = status
      BY <2>1 DEF TypeOK, RowsInv, Early, Late
  <2>2. CASE /\ status' = [status EXCEPT ![t] = "PENDING"]
             /\ orch' = [orch EXCEPT !.pc = IF t + 1 \in Trials THEN "create" ELSE "loop"]
    <3>1. status'[0] = status[0] /\ \A i \in Trials : status'[i] = IF i = t THEN "PENDING" ELSE status[i]
        BY <2>2 DEF TypeOK
    <3>2. orch'.pc = IF t + 1 \in Trials THEN "create" ELSE "loop"
        BY <2>2 DEF TypeOK
    <3>3. t + 1 \in Trials => status'[t + 1] = "NONE"
        BY <3>1 DEF RowsInv
    <3>4. t + 1 \notin Trials => \A i \in Trials : status'[i] # "NONE"
        BY <1>4, <3>1
    <3>5. \A i, k \in Trials : i <= k /\ status'[i] = "NONE" => status'[k] = "NONE"
        BY <1>4, <3>1 DEF RowsInv
    <3> QED BY <3>1, <3>2, <3>3, <3>4, <3>5, Zenon DEF RowsInv, Early, Late
  <2> QED BY <2>1, <2>2, Zenon
<1>8. JobsInv'
    BY <1>5 DEF TypeOK, JobsInv, Early, Late
<1>9. ConcurrencyInv'
  <2>1. MayRun' = {}
      BY <1>5 DEF MayRun, TypeOK
  <2> QED BY <2>1, FewerMayRun, Zenon
<1>10. MetricInv'
    BY DEF TypeOK, MetricInv
<1>11. DeleteInv'
  <2>1. \A r \in Runs : StatusMoves(r)
      BY DEF TypeOK, StatusMoves, Terminal
  <2>2. faults' = 0 => faults = 0
      BY DEF TypeOK
  <2> QED BY <2>1, <2>2, DeleteKept, Zenon
<1> QED BY <1>6, <1>7, <1>8, <1>9, <1>10, <1>11, Zenon

\* The loop of the orchestrator, which writes no row, preserves it.
LEMMA LoopStep == ASSUME IInv, LoopHead \/ StartTrial \/ Wait \/ PollTrial PROVE IInv'
<1> USE TrialsFacts DEF IInv, Executed, Failed, Goto, Return, NoOrch, row
<1>1. /\ orch.pc \in {"loop", "start", "poll"}
      /\ UNCHANGED <<status, eligible, metric, stop_flag, del, server>>
      /\ Executed \/ Failed
    BY Zenon DEF LoopHead, StartTrial, Wait, PollTrial
<1>2. faults' \in 0..MaxFaults /\ (faults' = 0 => faults = 0)
    BY <1>1, FaultsType DEF TypeOK
<1>3. DeleteInv'
  <2>1. \A r \in Runs : StatusMoves(r)
      BY <1>1 DEF StatusMoves
  <2> QED BY <1>1, <1>2, <2>1, DeleteKept, Zenon
<1>4. CASE /\ UNCHANGED trial
           /\ orch'.pc \in {"loop", "start", "poll", "cancel", "done"}
           /\ orch'.next \in 1..(Cardinality(Trials) + 1)
           /\ orch'.pc # "done" => orch'.next = orch.next /\ MayRun \subseteq orch'.active
           /\ orch' \in [pc : OrchLive \cup {"none", "submitted", "done"},
                         next : 1..(Cardinality(Trials) + 1),
                         active : SUBSET Trials, poll : SUBSET Trials]
  <2>1. TypeOK'
      BY <1>1, <1>2, <1>4, Zenon DEF TypeOK, Runs
  <2>2. RowsInv'
      BY <1>1, <1>4, Zenon DEF RowsInv, Early, Late
  <2>3. JobsInv'
      BY <1>1, <1>4, Zenon DEF JobsInv, Early, Late
  <2>4. ConcurrencyInv'
    <3>1. MayRun' = MayRun
        BY <1>1, <1>4, Zenon DEF MayRun
    <3> QED BY <1>4, <3>1, FewerMayRun, Zenon DEF Late
  <2>5. MetricInv'
      BY <1>1, <1>2, <1>4, Zenon DEF MetricInv
  <2> QED BY <1>3, <2>1, <2>2, <2>3, <2>4, <2>5, Zenon
<1>5. MayRun \subseteq orch.active
    BY <1>1 DEF ConcurrencyInv, Late
<1>6. CASE LoopHead \/ Wait
  <2>1. /\ orch' \in [pc : OrchLive \cup {"none", "submitted", "done"},
                      next : 1..(Cardinality(Trials) + 1),
                      active : SUBSET Trials, poll : SUBSET Trials]
        /\ orch'.pc \in {"loop", "start", "poll", "cancel", "done"}
        /\ orch'.pc # "done" => orch'.next = orch.next /\ orch'.active = orch.active
    <3>1. ASSUME NEW p \in {"cancel", "start"}, Goto(p)
          PROVE  /\ orch' \in [pc : OrchLive \cup {"none", "submitted", "done"},
                               next : 1..(Cardinality(Trials) + 1),
                               active : SUBSET Trials, poll : SUBSET Trials]
                 /\ orch'.pc = p /\ orch'.next = orch.next /\ orch'.active = orch.active
        BY <3>1 DEF TypeOK, OrchLive
    <3>2. CASE Return
        BY <3>2 DEF OrchLive
    <3>3. CASE Wait
        BY <3>3, ZenonT(30) DEF Wait, TypeOK, OrchLive
    <3>4. LoopHead => Return \/ Goto("cancel") \/ Goto("start")
        BY DEF LoopHead
    <3> QED BY <1>6, <3>1, <3>2, <3>3, <3>4, Zenon
  <2>2. orch'.next \in 1..(Cardinality(Trials) + 1)
      BY <2>1
  <2>3. UNCHANGED trial
      BY <1>6 DEF LoopHead, Wait
  <2> QED BY <1>4, <1>5, <2>1, <2>2, <2>3, Zenon
<1>7. CASE PollTrial
  <2>1. CASE Failed /\ Return
      BY <1>4, <1>7, <2>1, ZenonT(30) DEF PollTrial, OrchLive
  <2>2. ASSUME NEW t \in orch.poll,
               orch' = [orch EXCEPT !.poll = @ \ {t},
                                    !.active = IF status[t] \in Finished THEN @ \ {t} ELSE @,
                                    !.pc = IF orch.poll = {t} THEN "loop" ELSE @]
        PROVE  IInv'
    <3>1. /\ orch'.pc \in {"loop", "poll"} /\ orch'.next = orch.next
          /\ orch'.active = IF status[t] \in Finished THEN orch.active \ {t} ELSE orch.active
          /\ orch' \in [pc : OrchLive \cup {"none", "submitted", "done"},
                        next : 1..(Cardinality(Trials) + 1),
                        active : SUBSET Trials, poll : SUBSET Trials]
        BY <1>7, <2>2, Zenon DEF PollTrial, TypeOK, OrchLive
    <3>2. MayRun \subseteq orch'.active
        BY <1>5, <3>1, Zenon DEF MayRun, Finished, Terminal
    <3> QED BY <1>4, <1>7, <3>1, <3>2, ZenonT(30) DEF PollTrial, TypeOK
  <2> QED BY <1>7, <2>1, <2>2, Zenon DEF PollTrial
<1>8. CASE StartTrial
  <2>1. CASE Return /\ UNCHANGED trial
      BY <1>4, <2>1, Zenon DEF OrchLive
  <2>2. CASE /\ trial' = [trial EXCEPT ![orch.next] = "claim"]
             /\ orch' = [orch EXCEPT !.active = @ \cup {orch.next}, !.next = @ + 1]
    <3> DEFINE t == orch.next
    <3>1. t \in Trials /\ orch.pc = "start" /\ Cardinality(orch.active) < MaxConcurrency
        BY <1>8 DEF StartTrial, MayStart
    <3>2. /\ orch'.pc = "start" /\ orch'.next = t + 1 /\ orch'.active = orch.active \cup {t}
          /\ orch'.poll = orch.poll
          /\ \A i \in Trials : trial'[i] = IF i = t THEN "claim" ELSE trial[i]
        BY <2>2, <3>1, Zenon DEF TypeOK
    <3>3. /\ status[t] # "NONE" /\ trial[t] = "none" /\ t \in Nat /\ t + 1 \in 1..(Cardinality(Trials) + 1)
        BY <3>1 DEF RowsInv, JobsInv, Late, TypeOK
    <3>4. TypeOK'
      <4>1. trial' \in [Trials -> TrialLive \cup {"none", "done"}]
          BY <2>2, Zenon DEF TypeOK, TrialLive
      <4>2. orch' \in [pc : OrchLive \cup {"none", "submitted", "done"},
                       next : 1..(Cardinality(Trials) + 1),
                       active : SUBSET Trials, poll : SUBSET Trials]
          BY <2>2, <3>1, <3>3, Zenon DEF TypeOK
      <4> QED BY <1>1, <1>2, <4>1, <4>2, Zenon DEF TypeOK, Runs
    <3>5. RowsInv'
        BY <1>1, <3>1, <3>2, Zenon DEF RowsInv, Early, Late
    <3>6. JobsInv'
        BY <1>1, <3>1, <3>2, <3>3 DEF JobsInv, Early, Late
    <3>7. ConcurrencyInv'
      <4>1. MayRun' \subseteq orch.active \cup {t}
          BY <1>1, <1>5, <3>2, Zenon DEF MayRun
      <4>2. IsFiniteSet(orch.active) /\ orch.active \subseteq Trials
          BY FS_Subset DEF TypeOK
      <4>3. /\ Cardinality(orch.active) \in Nat
            /\ Cardinality(orch.active \cup {t}) <= Cardinality(orch.active) + 1
        <5>1. Cardinality(orch.active) \in Nat
            BY <4>2, FS_CardinalityType, Zenon
        <5>2. Cardinality(orch.active \cup {t}) =
                IF t \in orch.active THEN Cardinality(orch.active) ELSE Cardinality(orch.active) + 1
            BY <4>2, FS_AddElement, Zenon
        <5> QED BY <5>1, <5>2
      <4>4. /\ Cardinality(MayRun') <= Cardinality(orch.active \cup {t})
            /\ Cardinality(MayRun') \in Nat /\ Cardinality(orch.active \cup {t}) \in Nat
          BY <3>1, <4>1, <4>2, Bounded, Zenon
      <4>5. Cardinality(MayRun') <= MaxConcurrency
          BY <3>1, <4>3, <4>4, TrialsRange
      <4> QED BY <3>2, <4>1, <4>5, Zenon DEF ConcurrencyInv
    <3>8. MetricInv'
        BY <1>1, <1>2, <3>2, <3>3, Zenon DEF MetricInv
    <3> QED BY <1>3, <3>4, <3>5, <3>6, <3>7, <3>8
  <2> QED BY <1>8, <2>1, <2>2, Zenon DEF StartTrial
<1> QED BY <1>6, <1>7, <1>8, Zenon

\* The DELETE request preserves it.
LEMMA DeleteStep == ASSUME IInv, DeleteTrain PROVE IInv'
<1> USE TrialsFacts DEF IInv, Executed, Failed, SetStatus, row
<1>1. UNCHANGED <<orch, trial, server>> /\ (Executed \/ Failed)
    BY Zenon DEF DeleteTrain, DeleteRead, DeleteList, DeleteTrialCancel, DeleteTrialStatus,
           DeleteTrialEligibility, DeleteCancel, DeleteWrite, UpdateModelRunStatus,
           UpdateTrialEligibility
<1>2. faults' \in 0..MaxFaults /\ (faults' = 0 => faults = 0)
    BY <1>1, FaultsType DEF TypeOK
<1>3. ASSUME DeleteInv', UNCHANGED status, stop_flag' \in [Runs -> BOOLEAN],
             del' \in [pc : DeletePc,
                       run : Runs, seen : SUBSET Trials, todo : SUBSET Trials],
             \/ UNCHANGED <<eligible, metric>>
             \/ \E t \in Trials : UpdateTrialEligibility(t, FALSE, "zero")
      PROVE  IInv'
  <2>1. TypeOK'
    <3>1. eligible' \in [Trials -> BOOLEAN] /\ metric' \in [Trials -> {"null", "zero", "threshold"}]
        BY <1>3, RowTypes, Zenon DEF TypeOK
    <3> QED BY <1>1, <1>2, <1>3, <3>1, Zenon DEF TypeOK, Runs, DeletePc
  <2>2. RowsInv' /\ JobsInv'
      BY <1>1, <1>3 DEF RowsInv, JobsInv
  <2>3. ConcurrencyInv'
      BY <1>1, <1>3 DEF ConcurrencyInv, MayRun
  <2>4. MetricInv'
      BY <1>1, <1>2, <1>3 DEF TypeOK, MetricInv, UpdateTrialEligibility
  <2> QED BY <1>3, <2>1, <2>2, <2>3, <2>4, Zenon
<1>4. ASSUME DeleteInv', NEW r \in Runs, status[r] # "NONE", UpdateModelRunStatus(r, "CANCELLED"),
             stop_flag' \in [Runs -> BOOLEAN],
             del' \in [pc : DeletePc,
                       run : Runs, seen : SUBSET Trials, todo : SUBSET Trials]
      PROVE  IInv'
  <2>1. /\ status' = status \/ status' = [status EXCEPT ![r] = "CANCELLED"]
        /\ UNCHANGED <<eligible, metric>>
      BY <1>4, Zenon DEF UpdateModelRunStatus
  <2>2. \A i \in Runs : status'[i] = status[i] \/ (i = r /\ status'[i] = "CANCELLED")
      BY <2>1, Zenon DEF TypeOK
  <2>3. TypeOK'
      BY <1>1, <1>2, <1>4, <2>1, Zenon DEF TypeOK, Runs, Terminal, DeletePc
  <2>4. RowsInv'
      BY <1>1, <1>4, <2>2 DEF RowsInv
  <2>5. JobsInv'
      BY <1>1, <1>4, <2>2, Zenon DEF JobsInv
  <2>6. ConcurrencyInv'
    <3>1. MayRun' \subseteq MayRun
        BY <1>1, <2>2, ZenonT(30) DEF MayRun
    <3> QED BY <1>1, <3>1, FewerMayRun, Zenon DEF ConcurrencyInv
  <2>7. MetricInv'
      BY <1>1, <1>2, <2>1, <2>2 DEF MetricInv
  <2> QED BY <1>4, <2>3, <2>4, <2>5, <2>6, <2>7, Zenon
<1>5. CASE DeleteRead
  <2>1. PICK r \in Runs : /\ status[r] \in Active
                          /\ del' = [del EXCEPT !.pc = IF r = 0 THEN "list" ELSE "stop", !.run = r]
      BY <1>5, Zenon DEF DeleteRead
  <2>2. /\ del' \in [pc : DeletePc,
                     run : Runs, seen : SUBSET Trials, todo : SUBSET Trials]
        /\ del'.pc \in {"list", "stop"} /\ del'.run = r /\ del'.seen = {} /\ del'.todo = {}
      BY <1>5, <2>1, Zenon DEF DeleteRead, TypeOK, DeleteInv, DeletePc
  <2>3. DeleteInv'
      BY <1>5, <2>1, <2>2 DEF DeleteRead, DeleteInv, Active
  <2> QED BY <1>3, <1>5, <2>2, <2>3, Zenon DEF DeleteRead, TypeOK
<1>6. CASE DeleteList
  <2> DEFINE S == {t \in Trials : status[t] \in Active}
  <2>1. /\ del' \in [pc : DeletePc,
                     run : Runs, seen : SUBSET Trials, todo : SUBSET Trials]
        /\ del'.run = del.run
        /\ \/ del'.seen = S /\ del'.todo = S /\ del'.pc = IF S = {} THEN "stop" ELSE "cancel"
           \/ del'.seen = {} /\ del'.todo = {} /\ del'.pc = "stop"
    <3>1. del.pc = "list" /\ del.seen = {} /\ del.todo = {}
        BY <1>6, Zenon DEF DeleteList, DeleteInv
    <3>2. CASE del' = [del EXCEPT !.pc = IF S = {} THEN "stop" ELSE "cancel", !.seen = S, !.todo = S]
      <4>1. S \in SUBSET Trials
          OBVIOUS
      <4> HIDE DEF S
      <4> QED BY <3>2, <4>1, Zenon DEF TypeOK, DeletePc
    <3>3. CASE del' = [del EXCEPT !.pc = "stop"]
        BY <3>1, <3>3, Zenon DEF TypeOK, DeletePc
    <3> QED BY <1>6, <3>2, <3>3, Zenon DEF DeleteList
  <2>2. DeleteInv'
      BY <1>6, <2>1, Zenon DEF DeleteList, DeleteInv, Active
  <2> QED BY <1>3, <1>6, <2>1, <2>2, Zenon DEF DeleteList, TypeOK
<1>7. CASE DeleteTrialStatus
  <2> DEFINE t == NextToCancel
  <2>1. t \in del.todo /\ t \in Trials /\ t \in Runs /\ status[t] # "NONE" /\ del.pc = "status"
      BY <1>7, NextIsTodo, Zenon DEF DeleteTrialStatus, DeleteInv
  <2>2. /\ del' \in [pc : DeletePc,
                     run : Runs, seen : SUBSET Trials, todo : SUBSET Trials]
        /\ del'.pc = "eligible" /\ del'.run = del.run /\ del'.seen = del.seen /\ del'.todo = del.todo
      BY <1>7 DEF DeleteTrialStatus, TypeOK, DeletePc
  <2>3. UpdateModelRunStatus(t, "CANCELLED") /\ stop_flag' \in [Runs -> BOOLEAN]
      BY <1>7, Zenon DEF DeleteTrialStatus, TypeOK
  <2>4. NextToCancel' = t
      BY <2>2, Zenon DEF NextToCancel
  <2>5. /\ \A i \in Runs : status'[i] = status[i] \/ status'[i] = "CANCELLED"
        /\ faults' = 0 => status'[t] = "CANCELLED"
      BY <2>1, <2>3 DEF UpdateModelRunStatus, TypeOK
  <2> HIDE DEF t
  <2>6. DeleteInv'
    <3>1. del.seen \subseteq Runs /\ del.todo \subseteq Runs /\ del.run \in Runs
        BY DEF TypeOK
    <3> QED BY <1>2, <2>1, <2>2, <2>4, <2>5, <3>1, Zenon DEF DeleteInv, Terminal
  <2> QED BY <1>4, <2>1, <2>2, <2>3, <2>6, Zenon
<1>8. CASE DeleteTrialEligibility
  <2> DEFINE t == NextToCancel
             S == del.todo \ {t}
  <2>1. t \in del.todo /\ t \in Trials /\ t \in Runs /\ del.pc = "eligible"
      BY <1>8, NextIsTodo DEF DeleteTrialEligibility, DeleteInv
  <2>2. /\ del' \in [pc : DeletePc,
                     run : Runs, seen : SUBSET Trials, todo : SUBSET Trials]
        /\ del'.pc = (IF S = {} THEN "stop" ELSE "cancel")
        /\ del'.run = del.run /\ del'.seen = del.seen /\ del'.todo = S
      BY <1>8, Zenon DEF DeleteTrialEligibility, TypeOK, DeletePc
  <2>3. /\ UpdateTrialEligibility(t, FALSE, "zero") /\ UNCHANGED status
        /\ stop_flag' \in [Runs -> BOOLEAN]
      BY <1>8, Zenon DEF DeleteTrialEligibility, UpdateTrialEligibility, TypeOK
  <2>4. DeleteInv'
      BY <1>2, <2>1, <2>2, <2>3, Zenon DEF DeleteInv
  <2> QED BY <1>3, <2>1, <2>2, <2>3, <2>4, ZenonT(30)
<1>9. CASE DeleteWrite
  <2>1. del.pc = "write" /\ del.run \in Runs /\ status[del.run] # "NONE"
      BY <1>9 DEF DeleteWrite, DeleteInv, TypeOK
  <2>2. /\ del' \in [pc : DeletePc,
                     run : Runs, seen : SUBSET Trials, todo : SUBSET Trials]
        /\ del'.pc = "answered" /\ del'.seen = del.seen /\ del'.todo = del.todo
      BY <1>9 DEF DeleteWrite, TypeOK, DeletePc
  <2>3. UpdateModelRunStatus(del.run, "CANCELLED") /\ stop_flag' \in [Runs -> BOOLEAN]
      BY <1>9, Zenon DEF DeleteWrite, TypeOK
  <2>4. \A i \in Runs : status'[i] = status[i] \/ status'[i] = "CANCELLED"
      BY <2>1, <2>3, Zenon DEF UpdateModelRunStatus, TypeOK
  <2>5. DeleteInv'
    <3>1. del.seen \subseteq Runs
        BY DEF TypeOK
    <3> QED BY <1>2, <2>1, <2>2, <2>4, <3>1, Zenon DEF DeleteInv, Terminal
  <2> QED BY <1>4, <2>1, <2>2, <2>3, <2>5, Zenon
<1>10. CASE DeleteTrialCancel \/ DeleteCancel
  <2>1. /\ del' = [del EXCEPT !.pc = "status"] \/ del' = [del EXCEPT !.pc = "write"]
        /\ (del.pc = "cancel" /\ del'.pc = "status") \/ (del.pc = "stop" /\ del'.pc = "write")
        /\ UNCHANGED <<status, eligible, metric, faults>>
      BY <1>10, Zenon DEF DeleteTrialCancel, DeleteCancel, TypeOK
  <2>2. /\ del' \in [pc : DeletePc,
                     run : Runs, seen : SUBSET Trials, todo : SUBSET Trials]
        /\ del'.run = del.run /\ del'.seen = del.seen /\ del'.todo = del.todo
      BY <2>1, Zenon DEF TypeOK, DeletePc
  <2>3. DeleteInv'
      BY <2>1, <2>2, Zenon DEF DeleteInv
  <2> QED BY <1>3, <1>10, <2>1, <2>2, <2>3, FlagTypes, Zenon
<1> QED BY <1>5, <1>6, <1>7, <1>8, <1>9, <1>10, Zenon DEF DeleteTrain

\* The reconciler preserves it, whichever rows it finds stale.
LEMMA ReconcileStep ==
    ASSUME IInv, NEW S, ReconcileStaleJobs(S), server' \in {"up", "stopping", "down", "boot"},
           UNCHANGED <<orch, trial, stop_flag, del>>
    PROVE  IInv'
<1> USE TrialsFacts DEF IInv, Executed, Failed, row
<1>1. /\ \A r \in Runs : status'[r] = status[r] \/ (status[r] \in Active /\ status'[r] = "FAILED")
      /\ status' \in [Runs -> Active \cup Terminal \cup {"NONE"}]
      /\ UNCHANGED <<eligible, metric>>
    BY DEF ReconcileStaleJobs, TypeOK, Terminal
<1>2. faults' \in 0..MaxFaults /\ (faults' = 0 => faults = 0)
    BY FaultsType DEF TypeOK, ReconcileStaleJobs
<1>3. TypeOK'
    BY <1>1, <1>2, Zenon DEF TypeOK, Runs
<1>4. RowsInv' /\ JobsInv'
    BY <1>1 DEF RowsInv, JobsInv, Active
<1>5. ConcurrencyInv'
  <2>1. MayRun' \subseteq MayRun
      BY <1>1, Zenon DEF MayRun
  <2> QED BY <2>1, FewerMayRun, Zenon DEF ConcurrencyInv
<1>6. MetricInv'
    BY <1>1, <1>2 DEF MetricInv
<1>7. DeleteInv'
  <2>1. \A r \in Runs : StatusMoves(r)
      BY <1>1, Zenon DEF StatusMoves, Active, Terminal
  <2> QED BY <1>2, <2>1, DeleteKept
<1> QED BY <1>3, <1>4, <1>5, <1>6, <1>7, Zenon

\* The end of the process preserves it: after an orderly exit no job was at work.
LEMMA EndStep == ASSUME IInv, Exit \/ Crash PROVE IInv'
<1> USE TrialsFacts DEF IInv, Executed, Failed, row
<1>1. /\ ProcessEnds /\ UNCHANGED <<status, eligible, metric>> /\ faults' \in 0..MaxFaults
      /\ faults' = 0 => faults = 0 /\ LiveRuns = {}
    BY FaultsType DEF Exit, Crash, ProcessEnds, TypeOK
<1>2. /\ (orch.pc # "none" /\ orch'.pc = "done") \/ (orch.pc = "none" /\ orch' = orch)
      /\ orch' \in [pc : OrchLive \cup {"none", "submitted", "done"},
                    next : 1..(Cardinality(Trials) + 1),
                    active : SUBSET Trials, poll : SUBSET Trials]
    BY <1>1, Zenon DEF ProcessEnds, TypeOK, NoOrch
<1>3. /\ \A t \in Trials : trial'[t] = IF trial[t] = "none" THEN "none" ELSE "done"
      /\ trial' \in [Trials -> TrialLive \cup {"none", "done"}]
    BY <1>1, Zenon DEF ProcessEnds, TypeOK
<1>4. /\ del' = del \/ (del'.pc = "answered" /\ del'.seen = {} /\ del'.todo = {})
      /\ del' \in [pc : DeletePc,
                   run : Runs, seen : SUBSET Trials, todo : SUBSET Trials]
    BY <1>1, Zenon DEF ProcessEnds, TypeOK, NoDelete, DeletePc
<1>5. TypeOK'
  <2>1. stop_flag' \in [Runs -> BOOLEAN] /\ server' = "down"
      BY <1>1, FlagTypes, Zenon DEF ProcessEnds
  <2> QED BY <1>1, <1>2, <1>3, <1>4, <2>1, Zenon DEF TypeOK, Runs, DeletePc
<1>6. RowsInv' /\ JobsInv'
    BY <1>1, <1>2, <1>3 DEF RowsInv, JobsInv, Early, Late
<1>7. ConcurrencyInv'
  <2>1. MayRun' \subseteq MayRun
      BY <1>1, <1>3, Zenon DEF MayRun
  <2> QED BY <1>2, <2>1, FewerMayRun, Zenon DEF Late
<1>8. MetricInv'
    BY <1>1, <1>3 DEF MetricInv, LiveRuns, TrialLive
<1>9. DeleteInv'
  <2>1. CASE del' = del
    <3>1. \A r \in Runs : StatusMoves(r)
        BY <1>1, Zenon DEF StatusMoves
    <3> QED BY <1>1, <2>1, <3>1, DeleteKept, Zenon
  <2>2. CASE del'.pc = "answered" /\ del'.seen = {} /\ del'.todo = {}
      BY <2>2 DEF DeleteInv
  <2> QED BY <1>4, <2>1, <2>2
<1> QED BY <1>5, <1>6, <1>7, <1>8, <1>9, Zenon

\* A step that changes only flags and the state of the server preserves it.
LEMMA IdleStep ==
    ASSUME IInv, stop_flag' \in [Runs -> BOOLEAN],
           server' \in {"up", "stopping", "down", "boot"},
           UNCHANGED <<status, eligible, metric, orch, trial, del, faults>>
    PROVE  IInv'
<1>1. TypeOK'
    BY Zenon DEF IInv, TypeOK, Runs
<1>2. RowsInv' /\ JobsInv' /\ ConcurrencyInv' /\ MetricInv' /\ DeleteInv'
    BY DEF IInv, RowsInv, JobsInv, ConcurrencyInv, MayRun, MetricInv, DeleteInv, NextToCancel
<1> QED BY <1>1, <1>2, Zenon DEF IInv

\* The inductive invariant holds before anything is submitted.
LEMMA InitInv == ASSUME Init PROVE IInv
<1> USE TrialsFacts DEF Init
<1>1. TypeOK
  <2>1. stop_flag \in [Runs -> BOOLEAN] /\ eligible \in [Trials -> BOOLEAN]
      BY Zenon
  <2> QED BY <2>1, TuningAssumption DEF TypeOK, NoOrch, NoDelete
<1>2. RowsInv /\ JobsInv
    BY DEF RowsInv, JobsInv, NoOrch, Early, Late
<1>3. ConcurrencyInv
  <2>1. MayRun = {}
      BY DEF MayRun
  <2> QED BY <2>1, FS_EmptySet, TrialsRange DEF ConcurrencyInv
<1>4. MetricInv /\ DeleteInv
    BY DEF MetricInv, DeleteInv, NoDelete
<1> QED BY <1>1, <1>2, <1>3, <1>4, Zenon DEF IInv

\* Every step preserves it.
LEMMA NextInv == ASSUME IInv, [Next]_vars PROVE IInv'
<1>1. CASE Submit \/ OrchestrateTuning
    BY <1>1, ParentStep, CreateStep, LoopStep, Zenon DEF OrchestrateTuning
<1>2. ASSUME NEW t \in Trials, RunPcaTraining(t) PROVE IInv'
    BY <1>2, TrialStep
<1>3. CASE DeleteTrain
    BY <1>3, DeleteStep, Zenon
<1>4. ASSUME NEW S, RunSweep(S) PROVE IInv'
    BY <1>4, ReconcileStep, Zenon DEF RunSweep
<1>5. CASE ReconcileStartup
    BY <1>5, ReconcileStep, Zenon DEF ReconcileStartup
<1>6. CASE Shutdown
    BY <1>6, FlagTypes, IdleStep, Zenon DEF Shutdown, row, IInv
<1>7. CASE Exit \/ Crash
    BY <1>7, EndStep, Zenon
<1>8. CASE Restart
    BY <1>8, IdleStep, Zenon DEF Restart, row, IInv, TypeOK
<1>9. CASE UNCHANGED vars
    BY <1>9, IdleStep, Zenon DEF vars, row, IInv, TypeOK
<1> QED BY <1>1, <1>2, <1>3, <1>4, <1>5, <1>6, <1>7, <1>8, <1>9, Zenon DEF Next

\* No step removes a row or takes it back from a terminal status.
LEMMA NextMoves ==
    ASSUME IInv, [Next]_vars
    PROVE  (\A r \in Runs : StatusMoves(r)) /\ (faults' = 0 => faults = 0)
<1> USE TrialsFacts DEF IInv, Executed, Failed, row
<1>1. faults' = 0 => faults = 0
  <2>1. UNCHANGED faults \/ Failed
      BY Zenon DEF Next, vars, Submit, OrchestrateTuning, StartOrchestrator, ClaimParent, RecheckParent,
             CreateTrial, LoopHead, OrchestratorCancelled, StartTrial, Wait, PollTrial,
             RunPcaTraining, ClaimTrial, RecheckTrial, TrainTrial, ReportTrial, DeleteTrain,
             DeleteRead, DeleteList, DeleteTrialCancel, DeleteTrialStatus,
             DeleteTrialEligibility, DeleteCancel, DeleteWrite,
             RunSweep, Shutdown, Exit, Crash, Restart, ReconcileStartup, ReconcileStaleJobs,
             UpdateModelRunStatus, UpdateTrialEligibility
  <2> QED BY <2>1 DEF TypeOK
<1> SUFFICES \A r \in Runs : StatusMoves(r)
    BY <1>1
<1>2. CASE UNCHANGED status
    BY <1>2, Zenon DEF StatusMoves
<1>3. ASSUME NEW u \in Runs, NEW s \in Terminal, UpdateModelRunStatus(u, s)
      PROVE  \A r \in Runs : StatusMoves(r)
    BY <1>3, Zenon DEF UpdateModelRunStatus, SetStatus, StatusMoves, TypeOK, Terminal
<1>4. ASSUME NEW S, ReconcileStaleJobs(S) PROVE \A r \in Runs : StatusMoves(r)
    BY <1>4 DEF ReconcileStaleJobs, StatusMoves, TypeOK, Terminal, Active
<1>5. ASSUME NEW u \in Runs, NEW s \in Active, status[u] \notin Terminal, SetStatus(u, s)
      PROVE  \A r \in Runs : StatusMoves(r)
    BY <1>5 DEF SetStatus, StatusMoves, TypeOK, Active
<1>6. CASE Submit \/ ClaimParent
    BY <1>2, <1>5, <1>6, Zenon DEF Submit, ClaimParent, Active, Terminal
<1>7. CASE CreateTrial
  <2> DEFINE N == {i \in Trials : status[i] = "NONE"}
  <2>1. Min(N) \in Runs /\ status[Min(N)] = "NONE"
      BY <1>7, LeastTrial DEF CreateTrial, RowsInv
  <2>2. SetStatus(Min(N), "PENDING") \/ UNCHANGED status
      BY <1>7, Zenon DEF CreateTrial
  <2> HIDE DEF N
  <2> QED BY <1>2, <1>5, <2>1, <2>2, Zenon DEF Active, Terminal
<1>8. ASSUME NEW t \in Trials, RunPcaTraining(t) PROVE \A r \in Runs : StatusMoves(r)
  <2>1. CASE ClaimTrial(t)
      BY <1>2, <1>5, <2>1, Zenon DEF ClaimTrial, Active, Terminal
  <2>2. CASE RecheckTrial(t) \/ TrainTrial(t)
      BY <1>2, <2>2, Zenon DEF RecheckTrial, TrainTrial
  <2>3. CASE ReportTrial(t)
      BY <1>2, <1>3, <2>3, Zenon DEF ReportTrial, UpdateTrialEligibility, Terminal
  <2> QED BY <1>8, <2>1, <2>2, <2>3, Zenon DEF RunPcaTraining
<1>9. CASE DeleteTrain
  <2>1. CASE DeleteTrialStatus
      BY <1>3, <2>1, NextIsTodo, Zenon DEF DeleteTrialStatus, DeleteInv, Terminal
  <2>2. CASE DeleteWrite
      BY <1>3, <2>2, Zenon DEF DeleteWrite, TypeOK, Terminal
  <2>3. CASE \/ DeleteRead \/ DeleteList \/ DeleteTrialCancel \/ DeleteTrialEligibility
             \/ DeleteCancel
      BY <1>2, <2>3, Zenon DEF DeleteRead, DeleteList, DeleteTrialCancel, DeleteTrialEligibility,
                               DeleteCancel, UpdateTrialEligibility
  <2> QED BY <1>9, <2>1, <2>2, <2>3, Zenon DEF DeleteTrain
<1>10. CASE OrchestratorCancelled
    BY <1>3, <1>10, Zenon DEF OrchestratorCancelled, Terminal
<1>11. CASE \/ StartOrchestrator \/ RecheckParent \/ LoopHead \/ StartTrial \/ Wait \/ PollTrial
            \/ Shutdown \/ Exit \/ Crash \/ Restart \/ UNCHANGED vars
    BY <1>2, <1>11, Zenon DEF StartOrchestrator, RecheckParent, LoopHead, StartTrial, Wait, PollTrial,
       Shutdown, Exit, Crash, Restart, ProcessEnds, vars
<1>12. CASE (\E S \in SUBSET Runs : RunSweep(S)) \/ ReconcileStartup
    BY <1>4, <1>12, Zenon DEF RunSweep, ReconcileStartup
<1> QED BY <1>6, <1>7, <1>8, <1>9, <1>10, <1>11, <1>12, Zenon DEF Next, OrchestrateTuning

-----------------------------------------------------------------------------
(* Theorems *)

\* In every reachable state the rows, the jobs and the DELETE request go together.
THEOREM Invariance == Spec => []IInv
<1>1. Init => IInv
    BY InitInv
<1>2. IInv /\ [Next]_vars => IInv'
    BY NextInv
<1> QED BY <1>1, <1>2, PTL DEF Spec

\* No more than max_concurrency trials are RUNNING, and a trial that can be selected has
\* its metric once its job has ended.
THEOREM TrialsHold == Spec => []TrialsInv
<1>1. IInv => TrialsInv
  <2> SUFFICES ASSUME IInv PROVE TrialsInv
      OBVIOUS
  <2>1. WithinMaxConcurrency
    <3> DEFINE R == {t \in Trials : status[t] = "RUNNING"}
    <3>1. R \subseteq MayRun /\ MayRun \subseteq Trials
        BY DEF MayRun
    <3>2. /\ Cardinality(R) <= Cardinality(MayRun)
          /\ Cardinality(R) \in Nat /\ Cardinality(MayRun) \in Nat
        BY <3>1, Bounded, Zenon
    <3> HIDE DEF R
    <3>3. Cardinality(R) <= MaxConcurrency
        BY <3>2, TrialsRange DEF IInv, ConcurrencyInv
    <3> QED BY <3>3, Zenon DEF WithinMaxConcurrency, R
  <2>2. SelectableHasMetric
      BY DEF IInv, MetricInv, SelectableHasMetric
  <2> QED BY <2>1, <2>2, Zenon DEF IInv, TrialsInv
<1> QED BY <1>1, Invariance, PTL

\* What has ended stays so, and a trial that DELETE of the parent has seen never runs
\* afterwards.
THEOREM EndedTrialsStay == Spec => TrialsStayEnded
<1>1. ASSUME IInv, [Next]_vars
      PROVE  [\A r \in Runs : status[r] \in Terminal => status'[r] \in Terminal]_vars
    BY <1>1, NextMoves, Zenon DEF StatusMoves
<1>2. ASSUME IInv, [Next]_vars
      PROVE  [\A t \in Trials :
                del.pc = "answered" /\ t \in del.seen /\ faults' = 0 =>
                    ~(status[t] # "RUNNING" /\ status'[t] = "RUNNING")]_vars
  <2> SUFFICES ASSUME NEW t \in Trials, del.pc = "answered", t \in del.seen, faults' = 0
               PROVE  status'[t] # "RUNNING"
      OBVIOUS
  <2>1. status[t] \in Terminal
      BY <1>2, NextMoves, Zenon DEF IInv, DeleteInv
  <2> QED BY <1>2, <2>1, NextMoves, TrialsFacts, Zenon DEF StatusMoves, Terminal
<1> QED BY <1>1, <1>2, Invariance, PTL
        DEF Spec, TrialsStayEnded, NeverBackToActive, CancelStopsKnownTrials

-----------------------------------------------------------------------------
(* The functions on a tuning request, for every hpo_config *)

\* The preflight check announces the number of trials that will be generated, for every
\* configuration that ValidateHpoConfig accepts and whatever the random draws are
\* (PreflightHpoConfig and GenerateTrials compute it separately).
THEOREM PreflightHolds ==
    ASSUME NEW hpo \in HpoConfigs, NEW draws
    PROVE  PreflightExact(hpo, draws)
<1> SUFFICES ASSUME ValidateHpoConfig(hpo) = {}
             PROVE  LET pre == PreflightHpoConfig(hpo)
                    IN  /\ pre.effective = Len(GenerateTrials(hpo, draws))
                        /\ pre.capped_by = "NONE" <=> pre.effective = pre.estimated
    BY Zenon DEF PreflightExact
<1>1. hpo.n_components \in Seq(Int) /\ hpo.percentile \in Seq(Int)
    BY DEF HpoConfigs
<1>2. /\ hpo.max_trials \in 1..50
      /\ ~(hpo.algorithm = "grid" /\ Combinations(hpo) > 100)
    BY Accepted
<1> DEFINE c == Combinations(hpo)
           t == hpo.max_trials
           g == hpo.algorithm = "grid"
           pre == PreflightHpoConfig(hpo)
<1>3. c \in Nat \ {0}
    BY <1>1, Spaces, Zenon
<1>4. t \in 1..50 /\ (g => c <= 100)
    BY <1>2, <1>3
<1>5. Len(GenerateTrials(hpo, draws)) = IF g /\ c <= t THEN c ELSE t
  <2>1. hpo.max_trials \in Nat
      BY <1>4
  <2> QED BY <1>1, <2>1, TrialCount, Zenon
<1>6. /\ pre.estimated = IF g THEN c ELSE t
      /\ pre.capped_by = IF g /\ c > t THEN "MAX_TRIALS" ELSE "NONE"
      /\ pre.effective = IF g /\ c > t THEN t ELSE IF g THEN c ELSE t
    BY <1>3, <1>4 DEF PreflightHpoConfig
<1> HIDE DEF c, t, g, pre
<1> QED BY <1>3, <1>4, <1>5, <1>6 DEF pre

\* Row-major positions: a trial number is a position in each of the two spaces ...
LEMMA TrialPosition ==
    ASSUME NEW N \in Nat \ {0}, NEW P \in Nat \ {0}, NEW i \in 1..(N * P)
    PROVE  ((i - 1) \div P) + 1 \in 1..N /\ ((i - 1) % P) + 1 \in 1..P
<1> DEFINE x == i - 1
           q == x \div P
           r == x % P
<1>1. x \in Nat /\ x < N * P /\ N * P \in Int
    OBVIOUS
<1>2. q \in Int /\ r \in 0..(P - 1) /\ x = P * q + r
    BY <1>1, DivMod, Zenon
<1> HIDE DEF x, q, r
<1>3. ~(q <= -1)
  <2> SUFFICES ASSUME q <= -1 PROVE FALSE
      OBVIOUS
  <2>1. P * q <= -P
      BY <1>2
  <2> QED BY <1>1, <1>2, <2>1
<1>4. ~(q >= N)
  <2> SUFFICES ASSUME q >= N PROVE FALSE
      OBVIOUS
  <2>1. P * (q - N) >= 0 /\ P * (q - N) = P * q - N * P
      BY <1>2
  <2>2. P * q >= N * P
      BY <1>1, <1>2, <2>1
  <2> QED BY <1>1, <1>2, <2>2
<1>5. q + 1 \in 1..N /\ r + 1 \in 1..P
    BY <1>2, <1>3, <1>4
<1> QED BY <1>5, Zenon DEF x, q, r

\* ... and every two positions are those of a trial.
IsAt(i, n, p, P) == ((i - 1) \div P) + 1 = n /\ ((i - 1) % P) + 1 = p

LEMMA PositionOfTrial ==
    ASSUME NEW N \in Nat \ {0}, NEW P \in Nat \ {0}, NEW n \in 1..N, NEW p \in 1..P
    PROVE  \E i \in 1..(N * P) : IsAt(i, n, p, P)
<1> DEFINE x == P * (n - 1) + (p - 1)
           q == x \div P
           r == x % P
           d == q - (n - 1)
<1>1. P * (n - 1) \in Nat /\ P * (n - 1) <= N * P - P /\ N * P \in Nat
  <2>1. P * (N - n) >= 0 /\ P * (N - n) = N * P - P * n /\ P * (n - 1) = P * n - P
      OBVIOUS
  <2>2. P * n \in Int /\ N * P \in Nat /\ P * (n - 1) >= 0
      OBVIOUS
  <2> QED BY <2>1, <2>2
<1>2. x \in Nat /\ x + 1 \in 1..(N * P)
    BY <1>1
<1>3. q \in Int /\ r \in 0..(P - 1) /\ x = P * q + r
  <2> HIDE DEF x
  <2> QED BY <1>2, DivMod, Zenon
<1>4. d = 0
  <2> HIDE DEF q, r
  <2>1. d \in Int /\ P * d = P * q - P * (n - 1) /\ P * q \in Int
      BY <1>3
  <2>2. P * d = (p - 1) - r
      BY <1>1, <1>3, <2>1
  <2>3. P * d < P /\ -P < P * d
      BY <1>3, <2>2
  <2> HIDE DEF d
  <2>4. CASE d >= 1
      BY <2>1, <2>3, <2>4
  <2>5. CASE d <= -1
      BY <2>1, <2>3, <2>5
  <2> QED BY <2>1, <2>4, <2>5
<1>5. q = n - 1 /\ r = p - 1
  <2> HIDE DEF q, r
  <2>1. q = n - 1
      BY <1>3, <1>4
  <2> QED BY <1>1, <1>3, <2>1
<1> DEFINE i == x + 1
<1>6. i \in 1..(N * P) /\ i - 1 = x
  <2> HIDE DEF x
  <2> QED BY <1>2
<1>7. ((i - 1) \div P) + 1 = n /\ ((i - 1) % P) + 1 = p
  <2>1. (i - 1) \div P = n - 1 /\ (i - 1) % P = p - 1
    <3> HIDE DEF x, i
    <3> QED BY <1>5, <1>6, Zenon
  <2> HIDE DEF i
  <2> QED BY <2>1
<1> HIDE DEF i
<1> QED BY <1>6, <1>7, Zenon DEF IsAt

\* A grid that is not cut tries every combination of the two search spaces: the nested
\* loops of GenerateTrials leave out none of them and add none.
THEOREM GridIsComplete == ASSUME NEW hpo \in HpoConfigs PROVE GridComplete(hpo)
<1> SUFFICES ASSUME hpo.algorithm = "grid", PreflightHpoConfig(hpo).capped_by = "NONE"
             PROVE  Range(GenerateTrials(hpo, <<>>)) =
                      {[n_components |-> n, percentile |-> p] :
                         n \in Range(NSpace(hpo)), p \in Range(PSpace(hpo))}
    BY DEF GridComplete, Pairs
<1> DEFINE N == Len(NSpace(hpo))
           P == Len(PSpace(hpo))
           pairs == {[n_components |-> n, percentile |-> p] :
                       n \in Range(NSpace(hpo)), p \in Range(PSpace(hpo))}
           trials == GenerateTrials(hpo, <<>>)
           At(i) == Trial(hpo, ((i - 1) \div P) + 1, ((i - 1) % P) + 1)
<1>1. /\ NSpace(hpo) \in Seq(Int) /\ PSpace(hpo) \in Seq(Int)
      /\ N \in Nat \ {0} /\ P \in Nat \ {0} /\ hpo.max_trials \in Int
      /\ N * P \in Nat \ {0} /\ Combinations(hpo) = N * P
    BY Spaces DEF HpoConfigs, Combinations
<1>2. N * P <= hpo.max_trials
    BY <1>1 DEF PreflightHpoConfig
<1>3. trials = [i \in 1..(N * P) |-> At(i)]
  <2>1. hpo.max_trials \in Nat
      BY <1>1, <1>2
  <2>2. Min({Combinations(hpo), hpo.max_trials}) = N * P
      BY <1>1, <1>2, <2>1, MinOfTwo, Zenon
  <2> QED BY <2>2, Zenon DEF GenerateTrials
<1>4. /\ Range(NSpace(hpo)) = {NSpace(hpo)[n] : n \in 1..N}
      /\ Range(PSpace(hpo)) = {PSpace(hpo)[p] : p \in 1..P}
    BY <1>1 DEF Range
<1>5. Range(trials) = {At(i) : i \in 1..(N * P)}
  <2>1. DOMAIN trials = 1..(N * P) /\ \A i \in 1..(N * P) : trials[i] = At(i)
      BY <1>3
  <2> HIDE DEF At, trials
  <2> QED BY <2>1, Zenon DEF Range
<1> HIDE DEF N, P, trials
<1>6. ASSUME NEW i \in 1..(N * P)
      PROVE  ((i - 1) \div P) + 1 \in 1..N /\ ((i - 1) % P) + 1 \in 1..P
    BY <1>1, TrialPosition, Zenon
<1>7. ASSUME NEW n \in 1..N, NEW p \in 1..P
      PROVE  \E i \in 1..(N * P) : IsAt(i, n, p, P)
    BY <1>1, PositionOfTrial, Zenon
<1>8. pairs = {Trial(hpo, n, p) : n \in 1..N, p \in 1..P}
  <2>1. ASSUME NEW n \in 1..N, NEW p \in 1..P PROVE Trial(hpo, n, p) \in pairs
    <3>1. NSpace(hpo)[n] \in Range(NSpace(hpo)) /\ PSpace(hpo)[p] \in Range(PSpace(hpo))
        BY <1>4, Zenon
    <3>2. Trial(hpo, n, p) = [n_components |-> NSpace(hpo)[n], percentile |-> PSpace(hpo)[p]]
        BY Zenon DEF Trial
    <3> QED BY <3>1, <3>2
  <2>2. ASSUME NEW x \in pairs PROVE \E n \in 1..N, p \in 1..P : x = Trial(hpo, n, p)
    <3>1. PICK u \in Range(NSpace(hpo)), v \in Range(PSpace(hpo)) :
              x = [n_components |-> u, percentile |-> v]
        OBVIOUS
    <3>2. PICK n \in 1..N : u = NSpace(hpo)[n]
        BY <1>4
    <3>3. PICK p \in 1..P : v = PSpace(hpo)[p]
        BY <1>4
    <3>4. x = Trial(hpo, n, p)
        BY <3>1, <3>2, <3>3 DEF Trial
    <3> QED BY <3>4
  <2> HIDE DEF pairs
  <2> QED BY <2>1, <2>2
<1> HIDE DEF pairs
<1>9. Range(trials) \subseteq pairs
    BY <1>5, <1>6, <1>8
<1>10. pairs \subseteq Range(trials)
  <2> SUFFICES ASSUME NEW n \in 1..N, NEW p \in 1..P PROVE Trial(hpo, n, p) \in Range(trials)
      BY <1>8
  <2>1. PICK i \in 1..(N * P) : IsAt(i, n, p, P)
      BY <1>7
  <2>2. At(i) = Trial(hpo, n, p)
      BY <2>1, Zenon DEF IsAt
  <2> HIDE DEF At
  <2> QED BY <1>5, <2>2, Zenon
<1> QED BY <1>9, <1>10 DEF trials, pairs

-----------------------------------------------------------------------------
(* The candidate fingerprint *)

\* Sorting a search space keeps its values.
LEMMA SortedRange ==
    ASSUME NEW v \in Seq(Int)
    PROVE  Range(Sorted(v)) = Range(v) /\ (v = <<>> <=> Range(v) = {})
<1> DEFINE n == Len(v)
<1>1. n \in Nat /\ v \in [1..n -> Int] /\ DOMAIN v = 1..n
    OBVIOUS
<1>2. PICK p : Enumerates(p, n, 1..n) /\ Sorted(v) = [i \in 1..n |-> v[p[i]]]
    BY <1>1, SortedValues, Zenon
<1> HIDE DEF n
<1>3. p \in [1..n -> 1..n] /\ \A x \in 1..n : \E i \in 1..n : p[i] = x
    BY <1>2, Zenon DEF Enumerates
<1>4. /\ Range(v) = {v[i] : i \in 1..n}
      /\ Range(Sorted(v)) = {v[p[i]] : i \in 1..n}
  <2>1. DOMAIN Sorted(v) = 1..n /\ \A i \in 1..n : Sorted(v)[i] = v[p[i]]
      BY <1>2, Zenon
  <2> QED BY <1>1, <2>1, Zenon DEF Range
<1>5. {v[p[i]] : i \in 1..n} = {v[i] : i \in 1..n}
    BY <1>3, Zenon
<1>6. v = <<>> <=> Range(v) = {}
  <2>1. v = <<>> <=> n = 0
      BY <1>1 DEF n
  <2>2. n = 0 <=> {v[i] : i \in 1..n} = {}
    <3>1. n = 0 => 1..n = {}
        BY <1>1
    <3>2. n # 0 => 1 \in 1..n
        BY <1>1
    <3> QED BY <3>1, <3>2, Zenon
  <2> QED BY <1>4, <2>1, <2>2, Zenon
<1> QED BY <1>4, <1>5, <1>6, Zenon

\* Two accepted grids that max_trials does not cut and that have the same candidate
\* fingerprint have the same candidates, whatever the order and the repetitions in their
\* search spaces (ComputeCandidateFingerprint sorts the spaces before it hashes them).
THEOREM FingerprintIsFaithful ==
    ASSUME NEW h1 \in HpoConfigs, NEW h2 \in HpoConfigs
    PROVE  SameCandidates(h1, h2)
<1> SUFFICES ASSUME h1.algorithm = "grid", h2.algorithm = "grid",
                    PreflightHpoConfig(h1).capped_by = "NONE",
                    PreflightHpoConfig(h2).capped_by = "NONE",
                    ComputeCandidateFingerprint(h1) = ComputeCandidateFingerprint(h2)
             PROVE  Range(GenerateTrials(h1, <<>>)) = Range(GenerateTrials(h2, <<>>))
    BY Zenon DEF SameCandidates
<1>1. /\ h1.n_components \in Seq(Int) /\ h1.percentile \in Seq(Int)
      /\ h2.n_components \in Seq(Int) /\ h2.percentile \in Seq(Int)
    BY DEF HpoConfigs
<1>2. /\ Sorted(h1.n_components) = Sorted(h2.n_components)
      /\ Sorted(h1.percentile) = Sorted(h2.percentile)
  <2> DEFINE F(h) == ComputeCandidateFingerprint(h)
  <2>1. ASSUME NEW h \in HpoConfigs
        PROVE  F(h).n_components = Sorted(h.n_components) /\ F(h).percentile = Sorted(h.percentile)
      BY DEF ComputeCandidateFingerprint, HpoConfigs
  <2>2. F(h1) = F(h2)
      OBVIOUS
  <2> HIDE DEF F
  <2> QED BY <2>1, <2>2, Zenon
<1>3. /\ Range(h1.n_components) = Range(h2.n_components)
      /\ Range(h1.percentile) = Range(h2.percentile)
      /\ h1.n_components = <<>> <=> h2.n_components = <<>>
      /\ h1.percentile = <<>> <=> h2.percentile = <<>>
  <2>1. ASSUME NEW v \in Seq(Int), NEW w \in Seq(Int), Sorted(v) = Sorted(w)
        PROVE  Range(v) = Range(w) /\ (v = <<>> <=> w = <<>>)
    <3>1. /\ Range(Sorted(v)) = Range(v) /\ (v = <<>> <=> Range(v) = {})
          /\ Range(Sorted(w)) = Range(w) /\ (w = <<>> <=> Range(w) = {})
        BY SortedRange, Zenon
    <3> QED BY <2>1, <3>1, Zenon
  <2> QED BY <1>1, <1>2, <2>1, Zenon
<1>4. Range(NSpace(h1)) = Range(NSpace(h2)) /\ Range(PSpace(h1)) = Range(PSpace(h2))
    BY <1>3 DEF NSpace, PSpace
<1>5. ASSUME NEW h \in HpoConfigs, h.algorithm = "grid", PreflightHpoConfig(h).capped_by = "NONE"
      PROVE  Range(GenerateTrials(h, <<>>)) = Pairs(Range(NSpace(h)), Range(PSpace(h)))
    BY <1>5, GridIsComplete, Zenon DEF GridComplete
<1> QED BY <1>4, <1>5, Zenon

-----------------------------------------------------------------------------
(* The best trial of a run, for every list of trials *)

\* F has the loop's best trial after k rounds, for all k up to m.
Rounds(F, trials, m) ==
    F = [k \in 0..m |-> IF k = 0 THEN NoBest ELSE VisitTrial(trials, F[k - 1], k)]

\* There is such a function.
LEMMA RoundsExist == ASSUME NEW trials, NEW n \in Nat PROVE \E F : Rounds(F, trials, n)
<1> DEFINE X == {m \in 0..n : \E F : Rounds(F, trials, m)}
<1>1. 0 \in X
  <2> DEFINE G == [k \in 0..0 |-> NoBest]
  <2>1. Rounds(G, trials, 0)
      BY DEF Rounds
  <2> QED BY <2>1
<1>2. ASSUME NEW m \in 0..(n - 1), m \in X PROVE m + 1 \in X
  <2>1. PICK F : Rounds(F, trials, m)
      BY <1>2, Zenon
  <2> DEFINE G == [k \in 0..(m + 1) |->
                     IF k = m + 1 THEN VisitTrial(trials, F[m], m + 1) ELSE F[k]]
  <2>2. \A k \in 0..m : F[k] = IF k = 0 THEN NoBest ELSE VisitTrial(trials, F[k - 1], k)
      BY <2>1, Zenon DEF Rounds
  <2>3. \A k \in 0..(m + 1) : G[k] = IF k = 0 THEN NoBest ELSE VisitTrial(trials, G[k - 1], k)
      BY <2>2
  <2>4. G = [k \in 0..(m + 1) |-> G[k]]
      OBVIOUS
  <2> HIDE DEF G
  <2>5. Rounds(G, trials, m + 1)
      BY <2>3, <2>4, Zenon DEF Rounds
  <2> QED BY <2>5
<1> HIDE DEF X
<1>3. \A k \in 0..n : k \in X
  <2>1. \A k \in 0..(n - 1) : k \in X => k + 1 \in X
      BY <1>2
  <2> QED BY <1>1, <2>1, BoundedInduction, Zenon
<1>4. n \in X
    BY <1>3
<1> QED BY <1>4 DEF X

\* One round keeps the best of the trials seen.
LEMMA VisitStep ==
    ASSUME NEW trials \in TrialRows, NEW k \in 1..Len(trials), NEW best,
           BestOf(trials, 1..(k - 1), best)
    PROVE  BestOf(trials, 1..k, VisitTrial(trials, best, k))
<1> DEFINE C(j) == {i \in 1..j : Candidate(trials[i])}
           after == VisitTrial(trials, best, k)
           M(i) == trials[i].metric
           T(i) == trials[i].completed_at
<1>1. Len(trials) \in Nat /\ \A i \in 1..k : M(i) \in Int /\ T(i) \in Int
  <2> DEFINE Row == [status : STRING, is_eligible : BOOLEAN, metric : Int, completed_at : Int]
  <2>1. trials \in Seq(Row)
      BY DEF TrialRows
  <2>2. \A r \in Row : r.metric \in Int /\ r.completed_at \in Int
      OBVIOUS
  <2> HIDE DEF Row
  <2>3. Len(trials) \in Nat /\ \A i \in 1..k : trials[i] \in Row
      BY <2>1
  <2> QED BY <2>2, <2>3, Zenon
<1>2. /\ \A i \in C(k) : i \in C(k - 1) \/ i = k
      /\ C(k - 1) \subseteq C(k) /\ C(k - 1) \subseteq 1..(k - 1)
      /\ k \in C(k) <=> Candidate(trials[k])
    BY <1>1
<1>3. \/ C(k - 1) = {} /\ best = NoBest
      \/ (\E i \in C(k - 1) : M(i) = -1) /\ best = Throws
      \/ /\ ~\E i \in C(k - 1) : M(i) = -1
         /\ best \in C(k - 1) /\ \A i \in C(k - 1) : NotAfter(trials, best, i)
    BY Zenon DEF BestOf
<1>4. SUFFICES \/ C(k) = {} /\ after = NoBest
               \/ (\E i \in C(k) : M(i) = -1) /\ after = Throws
               \/ /\ ~\E i \in C(k) : M(i) = -1
                  /\ after \in C(k) /\ \A i \in C(k) : NotAfter(trials, after, i)
    BY DEF BestOf
<1> HIDE DEF C, M, T
<1>5. CASE ~Candidate(trials[k])
  <2>1. C(k) = C(k - 1)
      BY <1>2, <1>5, Zenon
  <2>2. after = best
      BY <1>5 DEF VisitTrial
  <2> HIDE DEF after
  <2> QED BY <1>3, <2>1, <2>2, Zenon
<1>6. CASE Candidate(trials[k]) /\ best = Throws
  <2>1. \E i \in C(k - 1) : M(i) = -1
      BY <1>2, <1>3, <1>6 DEF Throws, NoBest
  <2>2. after = Throws
      BY <1>6, Zenon DEF VisitTrial
  <2> QED BY <1>2, <2>1, <2>2
<1>7. CASE Candidate(trials[k]) /\ best # Throws /\ M(k) = -1
  <2>1. after = Throws
      BY <1>7, Zenon DEF VisitTrial, M
  <2> QED BY <1>2, <1>7, <2>1, Zenon
<1>8. CASE Candidate(trials[k]) /\ best # Throws /\ M(k) # -1
  <2>1. after = IF Better(trials, k, best) THEN k ELSE best
      BY <1>8, Zenon DEF VisitTrial, M
  <2>2. ~\E i \in C(k) : M(i) = -1
      BY <1>2, <1>3, <1>8, Zenon
  <2>3. NotAfter(trials, k, k)
      BY <1>1 DEF NotAfter, M, T
  <2> HIDE DEF after
  <2>4. CASE best = NoBest
    <3>1. C(k - 1) = {} /\ after = k
        BY <1>2, <1>3, <1>8, <2>1, <2>4 DEF Better, NoBest, Throws
    <3> QED BY <1>2, <1>8, <2>2, <2>3, <3>1, Zenon
  <2>5. CASE best # NoBest
    <3>1. best \in C(k - 1) /\ \A i \in C(k - 1) : NotAfter(trials, best, i)
        BY <1>3, <1>8, <2>5, Zenon
    <3>2. best \in 1..(k - 1) /\ \A i \in C(k - 1) : i \in 1..(k - 1)
        BY <1>2, <3>1, Zenon
    <3>3. CASE Better(trials, k, best)
      <4>1. ASSUME NEW i \in C(k - 1) PROVE NotAfter(trials, k, i)
        <5>1. NotAfter(trials, best, i) /\ i \in 1..(k - 1)
            BY <3>1, <3>2, Zenon
        <5>2. M(i) \in Int /\ T(i) \in Int /\ M(k) \in Int /\ T(k) \in Int
              /\ M(best) \in Int /\ T(best) \in Int
            BY <1>1, <3>2, <5>1
        <5>3. ~(T(k) = T(best) /\ k < best)
            BY <3>2
        <5> QED BY <2>5, <3>2, <3>3, <5>1, <5>2, <5>3 DEF Better, NotAfter, M, T
      <4> QED BY <1>2, <1>8, <2>1, <2>2, <2>3, <3>3, <4>1, Zenon
    <3>4. CASE ~Better(trials, k, best)
      <4>1. M(k) \in Int /\ T(k) \in Int /\ M(best) \in Int /\ T(best) \in Int
          BY <1>1, <3>2
      <4>2. NotAfter(trials, best, k)
          BY <2>5, <3>2, <3>4, <4>1 DEF Better, NotAfter, M, T
      <4> QED BY <1>2, <2>1, <2>2, <3>1, <3>4, <4>2, Zenon
    <3> QED BY <3>3, <3>4, Zenon
  <2> QED BY <2>4, <2>5, Zenon
<1> QED BY <1>5, <1>6, <1>7, <1>8, Zenon

\* HandleGetModelDetail reports the trial with the lowest threshold, on a tie the one that
\* completed first and then the one with the lowest index, for every list of trials; and it
\* fails exactly when a trial that could be selected has no metric.
THEOREM BestIsLeast == ASSUME NEW trials \in TrialRows PROVE LeastReported(trials)
<1> DEFINE n == Len(trials)
           F == CHOOSE G : Rounds(G, trials, n)
           X == {k \in 0..n : BestOf(trials, 1..k, F[k])}
<1>1. n \in Nat /\ DOMAIN trials = 1..n
    BY DEF TrialRows
<1>2. Rounds(F, trials, n)
    BY <1>1, RoundsExist, Zenon
<1>3. BestTrial(trials) = F[n]
    BY Zenon DEF BestTrial, Rounds
<1> HIDE DEF F, n
<1>4. \A k \in 0..n : F[k] = IF k = 0 THEN NoBest ELSE VisitTrial(trials, F[k - 1], k)
    BY <1>2, Zenon DEF Rounds
<1>5. 0 \in X
  <2>1. F[0] = NoBest
      BY <1>1, <1>4
  <2>2. BestOf(trials, 1..0, NoBest)
      BY DEF BestOf
  <2> QED BY <1>1, <2>1, <2>2
<1>6. ASSUME NEW k \in 0..(n - 1), k \in X PROVE k + 1 \in X
  <2>1. k + 1 \in 1..n /\ k + 1 \in 0..n /\ (k + 1) - 1 = k /\ k + 1 # 0
      BY <1>1
  <2>2. F[k + 1] = VisitTrial(trials, F[k], k + 1)
      BY <1>4, <2>1, Zenon
  <2>3. BestOf(trials, 1..((k + 1) - 1), F[k])
      BY <1>6, <2>1, Zenon
  <2>4. BestOf(trials, 1..(k + 1), VisitTrial(trials, F[k], k + 1))
      BY <2>1, <2>3, VisitStep, Zenon DEF n
  <2> QED BY <2>1, <2>2, <2>4, Zenon
<1> HIDE DEF X
<1>7. \A k \in 0..n : k \in X
  <2>1. \A k \in 0..(n - 1) : k \in X => k + 1 \in X
      BY <1>6, Zenon
  <2> QED BY <1>1, <1>5, <2>1, BoundedInduction, Zenon
<1>8. BestOf(trials, 1..n, F[n])
    BY <1>1, <1>7 DEF X
<1> QED BY <1>1, <1>3, <1>8, Zenon DEF LeastReported


-----------------------------------------------------------------------------
(* The list of the models and the detail page, for every GROUP BY result *)

\* Trials of the parents, by status.
StatusesOf(trials) ==
    IsFiniteSet(DOMAIN trials) /\ \A p \in DOMAIN trials : trials[p] \in Seq(StatusKeys)

LEMMA WithStatusType ==
    ASSUME NEW trials, StatusesOf(trials), NEW p \in DOMAIN trials, NEW s
    PROVE  WithStatus(trials, p, s) \in Nat
<1> DEFINE D == DOMAIN trials[p]
<1>1. D = 1..Len(trials[p]) /\ Len(trials[p]) \in Nat
    BY DEF StatusesOf
<1>2. IsFiniteSet(D)
    BY <1>1, FS_Interval
<1> HIDE DEF D
<1>3. {i \in D : trials[p][i] = s} \in SUBSET D
    OBVIOUS
<1> QED BY <1>2, <1>3, CountSubset, Zenon DEF WithStatus, D

\* One row per parent and status that occur together.
IsRow(trials, r) ==
    /\ r[1] \in DOMAIN trials /\ r[2] \in StatusKeys
    /\ r[3] = WithStatus(trials, r[1], r[2]) /\ r = <<r[1], r[2], r[3]>>

LEMMA GroupedRowsAre ==
    ASSUME NEW trials, StatusesOf(trials)
    PROVE  /\ IsFiniteSet(GroupedRows(trials))
           /\ \A r \in GroupedRows(trials) : IsRow(trials, r)
           /\ \A p \in DOMAIN trials, s \in StatusKeys : WithStatus(trials, p, s) # 0 =>
                 \E r \in GroupedRows(trials) : r[1] = p /\ r[2] = s
<1> DEFINE P == DOMAIN trials
           G == GroupedRows(trials)
           f == [x \in P \X StatusKeys |-> <<x[1], x[2], WithStatus(trials, x[1], x[2])>>]
           A == {f[x] : x \in P \X StatusKeys}
<1>1. IsFiniteSet(A)
  <2>1. IsFiniteSet(StatusKeys)
    <3>1. IsFiniteSet({"PENDING"})
        BY FS_Singleton, Zenon
    <3>2. IsFiniteSet({"PENDING"} \cup {"RUNNING"})
        BY <3>1, FS_AddElement, Zenon
    <3>3. IsFiniteSet(({"PENDING"} \cup {"RUNNING"}) \cup {"COMPLETED"})
        BY <3>2, FS_AddElement, Zenon
    <3>4. IsFiniteSet((({"PENDING"} \cup {"RUNNING"}) \cup {"COMPLETED"}) \cup {"FAILED"})
        BY <3>3, FS_AddElement, Zenon
    <3>5. StatusKeys = (({"PENDING"} \cup {"RUNNING"}) \cup {"COMPLETED"}) \cup {"FAILED"}
        BY DEF StatusKeys
    <3> QED BY <3>4, <3>5, Zenon
  <2>2. IsFiniteSet(P \X StatusKeys)
      BY <2>1, FS_Product DEF StatusesOf
  <2> HIDE DEF f
  <2> QED BY <2>2, FiniteImage, Zenon
<1>2. ASSUME NEW r \in G
      PROVE  \E p \in P, s \in StatusKeys : r = <<p, s, WithStatus(trials, p, s)>>
    BY DEF GroupedRows
<1>3. ASSUME NEW p \in P, NEW s \in StatusKeys
      PROVE  <<p, s>> \in P \X StatusKeys /\ f[<<p, s>>] = <<p, s, WithStatus(trials, p, s)>>
    OBVIOUS
<1>4. G \in SUBSET A
  <2> SUFFICES ASSUME NEW r \in G PROVE r \in A
      BY Zenon
  <2>1. PICK p \in P, s \in StatusKeys : r = <<p, s, WithStatus(trials, p, s)>>
      BY <1>2
  <2> HIDE DEF f
  <2> QED BY <1>3, <2>1, Zenon
<1>5. IsFiniteSet(G)
  <2> HIDE DEF A, G
  <2> QED BY <1>1, <1>4, CountSubset, Zenon
<1>6. ASSUME NEW r \in G PROVE IsRow(trials, r)
  <2>1. PICK p \in P, s \in StatusKeys : r = <<p, s, WithStatus(trials, p, s)>>
      BY <1>2
  <2> QED BY <2>1 DEF IsRow
<1>7. ASSUME NEW p \in P, NEW s \in StatusKeys, WithStatus(trials, p, s) # 0
      PROVE  \E r \in G : r[1] = p /\ r[2] = s
  <2> DEFINE w == WithStatus(trials, p, s)
             r == <<p, s, w>>
  <2>1. w > 0
    <3>1. w \in Nat
        BY WithStatusType, Zenon
    <3> HIDE DEF w
    <3> QED BY <1>7, <3>1 DEF w
  <2>2. r[1] = p /\ r[2] = s /\ r[3] = w
      OBVIOUS
  <2> HIDE DEF w
  <2>3. r \in {<<q, t, WithStatus(trials, q, t)>> : q \in P, t \in StatusKeys}
      BY DEF w
  <2> HIDE DEF r
  <2>4. r \in G
      BY <2>1, <2>2, <2>3 DEF GroupedRows
  <2> QED BY <2>2, <2>4
<1> QED BY <1>5, <1>6, <1>7, Zenon

\* The counts after some rows.
Reached(rows, k, p, s) == \E i \in 1..k : rows[i][1] = p /\ rows[i][2] = s
Summed(acc, trials, rows, k) ==
    /\ acc.thrown = FALSE
    /\ acc.sum \in [DOMAIN trials -> [StatusKeys -> Nat]]
    /\ \A p : p \in acc.seen <=> \E i \in 1..k : rows[i][1] = p
    /\ \A p \in DOMAIN trials, s \in StatusKeys :
          acc.sum[p][s] = IF Reached(rows, k, p, s) THEN WithStatus(trials, p, s) ELSE 0

LEMMA AddRow ==
    ASSUME NEW trials, StatusesOf(trials), NEW n \in Nat, NEW rows,
           \A i \in 1..n : IsRow(trials, rows[i]),
           \A i, j \in 1..n : rows[i] = rows[j] => i = j,
           NEW k \in 0..(n - 1), NEW acc, Summed(acc, trials, rows, k)
    PROVE  Summed(VisitSummaryRow(acc, rows[k + 1]), trials, rows, k + 1)
<1> DEFINE r == rows[k + 1]
           P == DOMAIN trials
           a == r[1]
           b == r[2]
           c == r[3]
           sum == acc.sum
           sum2 == [sum EXCEPT ![a][b] = @ + c]
           W(p, s) == WithStatus(trials, p, s)
<1>1. k + 1 \in 1..n /\ k \in Nat /\ \A i \in 1..k : i \in 1..n /\ i # k + 1
    OBVIOUS
<1>2. a \in P /\ b \in StatusKeys /\ c = W(a, b) /\ r = <<a, b, c>>
    BY <1>1, Zenon DEF IsRow
<1>3. ~Reached(rows, k, a, b)
  <2> SUFFICES ASSUME NEW i \in 1..k, rows[i][1] = a, rows[i][2] = b PROVE FALSE
      BY Zenon DEF Reached
  <2>1. IsRow(trials, rows[i]) /\ i \in 1..n /\ i # k + 1
      BY <1>1, Zenon
  <2>2. rows[i] = rows[k + 1]
      BY <1>2, <2>1, Zenon DEF IsRow
  <2> QED BY <1>1, <2>1, <2>2, Zenon
<1>4. /\ acc.thrown = FALSE /\ sum \in [P -> [StatusKeys -> Nat]]
      /\ \A p : p \in acc.seen <=> \E i \in 1..k : rows[i][1] = p
      /\ \A p \in P, s \in StatusKeys : sum[p][s] = IF Reached(rows, k, p, s) THEN W(p, s) ELSE 0
    BY Zenon DEF Summed
<1>5. \A p \in P, s \in StatusKeys : W(p, s) \in Nat
    BY WithStatusType, Zenon
<1> DEFINE next == VisitSummaryRow(acc, r)
<1>6. next = [thrown |-> FALSE, seen |-> acc.seen \cup {a}, sum |-> sum2]
  <2>1. AddSummaryRow(acc.sum, r) = sum2
      BY DEF AddSummaryRow
  <2>2. (b \notin StatusKeys) = FALSE
      BY <1>2
  <2> HIDE DEF sum2, a, b
  <2> QED BY <1>2, <1>4, <2>1, <2>2, Zenon DEF VisitSummaryRow, b, a
<1> HIDE DEF a, b, c, sum, W
<1>7. sum2 \in [P -> [StatusKeys -> Nat]]
    BY <1>2, <1>4, <1>5
<1>8. ASSUME NEW p \in P, NEW s \in StatusKeys
      PROVE  sum2[p][s] = IF p = a /\ s = b THEN W(a, b) ELSE sum[p][s]
  <2>1. sum[a][b] = 0
      BY <1>2, <1>3, <1>4, Zenon
  <2> QED BY <1>2, <1>4, <1>5, <2>1
<1>9. next.thrown = FALSE /\ next.seen = acc.seen \cup {a} /\ next.sum = sum2
  <2> HIDE DEF next, sum2
  <2> QED BY <1>6
<1> HIDE DEF next, sum2
<1>10. ASSUME NEW p, NEW s
       PROVE  Reached(rows, k + 1, p, s) <=> (Reached(rows, k, p, s) \/ (p = a /\ s = b))
  <2>1. \A i : i \in 1..(k + 1) <=> (i \in 1..k \/ i = k + 1)
      BY <1>1
  <2> QED BY <2>1, Zenon DEF Reached, a, b
<1>11. \A p : p \in next.seen <=> \E i \in 1..(k + 1) : rows[i][1] = p
  <2>1. \A i : i \in 1..(k + 1) <=> (i \in 1..k \/ i = k + 1)
      BY <1>1
  <2> QED BY <1>4, <1>9, <2>1, Zenon DEF a
<1>12. \A p \in P, s \in StatusKeys :
          next.sum[p][s] = IF Reached(rows, k + 1, p, s) THEN W(p, s) ELSE 0
  <2> SUFFICES ASSUME NEW p \in P, NEW s \in StatusKeys
               PROVE  next.sum[p][s] = IF Reached(rows, k + 1, p, s) THEN W(p, s) ELSE 0
      BY Zenon
  <2>1. next.sum[p][s] = IF p = a /\ s = b THEN W(a, b) ELSE sum[p][s]
      BY <1>8, <1>9, Zenon
  <2>2. CASE p = a /\ s = b
      BY <1>10, <2>1, <2>2, Zenon
  <2>3. CASE ~(p = a /\ s = b)
      BY <1>4, <1>10, <2>1, <2>3, Zenon
  <2> QED BY <2>2, <2>3, Zenon
<1> QED BY <1>7, <1>9, <1>11, <1>12, Zenon DEF Summed, next, r, W


\* F has the counts after each number of rows up to m.
SummaryRounds(F, P, rows, m) ==
    F = [k \in 0..m |-> IF k = 0 THEN NoSummaries(P) ELSE VisitSummaryRow(F[k - 1], rows[k])]

LEMMA SummaryRoundsExist ==
    ASSUME NEW P, NEW rows, NEW n \in Nat
    PROVE  \E F : SummaryRounds(F, P, rows, n)
<1> DEFINE X == {m \in 0..n : \E F : SummaryRounds(F, P, rows, m)}
<1>1. 0 \in X
  <2> DEFINE G == [k \in 0..0 |-> NoSummaries(P)]
  <2>1. SummaryRounds(G, P, rows, 0)
      BY DEF SummaryRounds
  <2> QED BY <2>1
<1>2. ASSUME NEW m \in 0..(n - 1), m \in X PROVE m + 1 \in X
  <2>1. PICK F : SummaryRounds(F, P, rows, m)
      BY <1>2, Zenon
  <2> DEFINE G == [k \in 0..(m + 1) |->
                     IF k = m + 1 THEN VisitSummaryRow(F[m], rows[m + 1]) ELSE F[k]]
  <2>2. \A k \in 0..m : F[k] = IF k = 0 THEN NoSummaries(P) ELSE VisitSummaryRow(F[k - 1], rows[k])
      BY <2>1, Zenon DEF SummaryRounds
  <2>3. \A k \in 0..(m + 1) :
            G[k] = IF k = 0 THEN NoSummaries(P) ELSE VisitSummaryRow(G[k - 1], rows[k])
      BY <2>2
  <2>4. G = [k \in 0..(m + 1) |-> G[k]]
      OBVIOUS
  <2> HIDE DEF G
  <2>5. SummaryRounds(G, P, rows, m + 1)
      BY <2>3, <2>4, Zenon DEF SummaryRounds
  <2> QED BY <2>5
<1> HIDE DEF X
<1>3. \A k \in 0..n : k \in X
  <2>1. \A k \in 0..(n - 1) : k \in X => k + 1 \in X
      BY <1>2
  <2> QED BY <1>1, <2>1, BoundedInduction, Zenon
<1>4. n \in X
    BY <1>3
<1> QED BY <1>4 DEF X

\* After all rows, in any order, the counts are those of the trials.
LEMMA AllSummed ==
    ASSUME NEW trials, StatusesOf(trials), NEW n \in Nat, NEW rows, Len(rows) = n,
           \A i \in 1..n : IsRow(trials, rows[i]),
           \A i, j \in 1..n : rows[i] = rows[j] => i = j
    PROVE  Summed(GetBulkHpoTrialSummaries(DOMAIN trials, rows), trials, rows, n)
<1> DEFINE P == DOMAIN trials
           F == CHOOSE G : SummaryRounds(G, P, rows, n)
           X == {k \in 0..n : Summed(F[k], trials, rows, k)}
<1>2. SummaryRounds(F, P, rows, n)
    BY SummaryRoundsExist, Zenon
<1>3. GetBulkHpoTrialSummaries(P, rows) = F[n]
    BY Zenon DEF GetBulkHpoTrialSummaries, SummaryRounds
<1> HIDE DEF F
<1>4. \A k \in 0..n : F[k] = IF k = 0 THEN NoSummaries(P) ELSE VisitSummaryRow(F[k - 1], rows[k])
    BY <1>2, Zenon DEF SummaryRounds
<1>5. 0 \in X
  <2>1. F[0] = NoSummaries(P) /\ 0 \in 0..n
      BY <1>4
  <2>2. Summed(NoSummaries(P), trials, rows, 0)
    <3>1. 1..0 = {}
        OBVIOUS
    <3> QED BY <3>1 DEF Summed, NoSummaries, Reached
  <2> QED BY <2>1, <2>2, Zenon
<1>6. ASSUME NEW k \in 0..(n - 1), k \in X PROVE k + 1 \in X
  <2>1. k + 1 \in 0..n /\ (k + 1) - 1 = k /\ k + 1 # 0
      OBVIOUS
  <2>2. F[k + 1] = VisitSummaryRow(F[k], rows[k + 1])
      BY <1>4, <2>1, Zenon
  <2>3. Summed(VisitSummaryRow(F[k], rows[k + 1]), trials, rows, k + 1)
    <3>1. Summed(F[k], trials, rows, k)
        BY <1>6, Zenon
    <3> QED BY <3>1, AddRow, Zenon
  <2> QED BY <2>1, <2>2, <2>3, Zenon
<1> HIDE DEF X
<1>7. \A k \in 0..n : k \in X
  <2>1. \A k \in 0..(n - 1) : k \in X => k + 1 \in X
      BY <1>6, Zenon
  <2> QED BY <1>5, <2>1, BoundedInduction, Zenon
<1>8. n \in 0..n
    OBVIOUS
<1> QED BY <1>3, <1>7, <1>8, Zenon DEF X

\* The list of the models shows for every tuning run the status that its detail page shows,
\* for any number of runs and trials and in whatever order the database returns the counts
\* (GetBulkHpoTrialSummaries adds them up row by row, HandleGetModelDetail counts the trials).
THEOREM ListIsDetail ==
    ASSUME NEW trials, StatusesOf(trials), NEW row_status
    PROVE  ListAgrees(trials, row_status)
<1> DEFINE P == DOMAIN trials
           G == GroupedRows(trials)
           n == Cardinality(G)
           W(p, s) == WithStatus(trials, p, s)
<1> SUFFICES ASSUME NEW rows \in Injection(1..n, G), NEW p \in P
             PROVE  ListStatus(GetBulkHpoTrialSummaries(P, rows), p, row_status)
                      = DetailStatus(DetailRows(trials[p]), row_status)
    BY Zenon DEF ListAgrees
<1> DEFINE acc == GetBulkHpoTrialSummaries(P, rows)
           count == [s \in StatusKeys |-> W(p, s)]
<1>1. /\ IsFiniteSet(G) /\ \A r \in G : IsRow(trials, r)
      /\ \A s \in StatusKeys : W(p, s) # 0 => \E r \in G : r[1] = p /\ r[2] = s
    BY GroupedRowsAre, Zenon
<1>2. Enumerates(rows, n, G)
    BY <1>1, OrderOnto, Zenon
<1> HIDE DEF G, n
<1>3. /\ n \in Nat /\ Len(rows) = n /\ \A i \in 1..n : rows[i] \in G
      /\ \A i, j \in 1..n : rows[i] = rows[j] => i = j
      /\ \A r \in G : \E i \in 1..n : rows[i] = r
    BY <1>2 DEF Enumerates
<1>4. Summed(acc, trials, rows, n)
    BY <1>1, <1>3, AllSummed, Zenon
<1> HIDE DEF acc, W
<1>5. \A s \in StatusKeys : W(p, s) \in Nat
    BY WithStatusType, Zenon DEF W
<1>6. \A s \in StatusKeys : W(p, s) # 0 => Reached(rows, n, p, s)
  <2> SUFFICES ASSUME NEW s \in StatusKeys, W(p, s) # 0 PROVE Reached(rows, n, p, s)
      BY Zenon
  <2>1. PICK r \in G : r[1] = p /\ r[2] = s
      BY <1>1, Zenon
  <2>2. PICK i \in 1..n : rows[i] = r
      BY <1>3, Zenon
  <2> QED BY <2>1, <2>2, Zenon DEF Reached
<1>7. acc.sum[p] = count
  <2>1. \A s \in StatusKeys : acc.sum[p][s] = W(p, s)
      BY <1>4, <1>6, Zenon DEF Summed, W
  <2>2. acc.sum[p] \in [StatusKeys -> Nat]
      BY <1>4 DEF Summed
  <2> QED BY <2>1, <2>2
<1>8. DetailStatus(DetailRows(trials[p]), row_status) = Aggregate(count, row_status)
  <2>1. \A s : Counted(DetailRows(trials[p]), s) = W(p, s)
    <3>1. /\ DOMAIN DetailRows(trials[p]) = DOMAIN trials[p]
          /\ \A i \in DOMAIN trials[p] : DetailRows(trials[p])[i].status = trials[p][i]
        BY DEF DetailRows
    <3> TAKE s
    <3>2. {i \in DOMAIN DetailRows(trials[p]) : DetailRows(trials[p])[i].status = s}
            = {i \in DOMAIN trials[p] : trials[p][i] = s}
        BY <3>1, Zenon
    <3> QED BY <3>2, Zenon DEF Counted, WithStatus, W
  <2> QED BY <2>1, Zenon DEF DetailStatus
<1>9. CASE p \in acc.seen
    BY <1>7, <1>8, <1>9, Zenon DEF ListStatus, acc
<1>10. CASE p \notin acc.seen
  <2>1. \A s \in StatusKeys : W(p, s) = 0
    <3>1. \A s : ~Reached(rows, n, p, s)
        BY <1>4, <1>10, Zenon DEF Summed, Reached
    <3> QED BY <1>6, <3>1, Zenon
  <2>2. \A s \in StatusKeys : count[s] = 0
      BY <2>1, Zenon
  <2> HIDE DEF count
  <2>3. /\ count["RUNNING"] = 0 /\ count["PENDING"] = 0
        /\ count["COMPLETED"] = 0 /\ count["FAILED"] = 0
      BY <2>2 DEF StatusKeys
  <2>4. Aggregate(count, row_status) = row_status
      BY <2>3 DEF Aggregate
  <2> QED BY <1>8, <1>10, <2>4, Zenon DEF ListStatus, acc
<1> QED BY <1>9, <1>10, Zenon

\* Before a tuning run is submitted the client is told how many trials it will have, and the
\* fingerprint stands for the candidates of every uncut grid.
THEOREM CandidatesHold == Spec => []CandidatesAsAnnounced
<1>1. CandidatesAsAnnounced
  <2>1. \A hpo \in Configs : hpo \in HpoConfigs
      BY ReportsAssumption, Zenon
  <2>2. PreflightIsExact
      BY <2>1, PreflightHolds, GridIsComplete, Zenon DEF PreflightIsExact
  <2>3. FingerprintFixesCandidates
      BY <2>1, FingerprintIsFaithful, Zenon DEF FingerprintFixesCandidates
  <2> QED BY <2>2, <2>3, Zenon DEF CandidatesAsAnnounced
<1> QED BY <1>1, PTL

\* GET /models and GET /models/:id summarise the trials correctly and alike, for all lists of
\* trials, of any length.
THEOREM SummariesHold == Spec => []TrialsSummarised
<1>1. TrialsSummarised
  <2>1. BestTrialIsLeast
      BY ReportsAssumption, BestIsLeast, Zenon DEF BestTrialIsLeast
  <2>2. ASSUME NEW trials \in [Parents -> StatusLists] PROVE StatusesOf(trials)
    <3>1. DOMAIN trials = Parents /\ \A p \in Parents : trials[p] \in StatusLists
        OBVIOUS
    <3> QED BY <3>1, ReportsAssumption, Zenon DEF StatusesOf
  <2>3. ListAgreesWithDetail
      BY <2>2, ListIsDetail, Zenon DEF ListAgreesWithDetail
  <2> QED BY <2>1, <2>3, Zenon DEF TrialsSummarised
<1> QED BY <1>1, PTL
=============================================================================
