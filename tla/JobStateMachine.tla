-------------------------- MODULE JobStateMachine --------------------------
(***************************************************************************)
(* telemetry::job::JobStateMachine (src/job_state_machine.h and .cpp), the *)
(* repository's statement of how the status of a job or run may change.    *)
(* Nothing in src/ calls it; it serves here as the abstract specification  *)
(* that the status columns of the database are compared with.              *)
(***************************************************************************)
CONSTANT Runs

VARIABLE state      \* run -> its state, "NONE" before the run is created

Terminal == {"COMPLETED", "FAILED", "CANCELLED"}

ValidNext == [PENDING |-> {"RUNNING", "CANCELLED", "FAILED"},
              RUNNING |-> {"COMPLETED", "FAILED", "CANCELLED"},
              COMPLETED |-> {}, FAILED |-> {}, CANCELLED |-> {}]

IsTransitionAllowed(current, next) == current = next \/ next \in ValidNext[current]

IsTerminal(s) == s \in Terminal

Init == state = [r \in Runs |-> "NONE"]

\* Runs are created PENDING; one transaction may move several runs.
Step ==
    /\ state' \in [Runs -> DOMAIN ValidNext \cup {"NONE"}]
    /\ \A r \in Runs :
          IF state[r] = "NONE" THEN state'[r] \in {"NONE", "PENDING"}
          ELSE state'[r] # "NONE" /\ IsTransitionAllowed(state[r], state'[r])

Spec == Init /\ [][Step]_state

\* The weaker machine in which a terminal state may become another one.
StepUntilTerminal ==
    /\ state' \in [Runs -> DOMAIN ValidNext \cup {"NONE"}]
    /\ \A r \in Runs :
          IF state[r] = "NONE" THEN state'[r] \in {"NONE", "PENDING"}
          ELSE IF IsTerminal(state[r]) THEN IsTerminal(state'[r])
          ELSE state'[r] # "NONE" /\ IsTransitionAllowed(state[r], state'[r])

UntilTerminal == Init /\ [][StepUntilTerminal]_state
=============================================================================
