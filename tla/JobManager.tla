----------------------------- MODULE JobManager -----------------------------
(***************************************************************************)
(* telemetry::JobManager (src/job_manager.h, src/job_manager.cpp): a       *)
(* bounded set of background jobs, one std::thread per job, cooperative    *)
(* cancellation through a per-job atomic stop flag, and a Stop() that      *)
(* joins every thread.                                                     *)
(*                                                                         *)
(* Every public operation runs under mutex_.  An operation that neither    *)
(* blocks nor unlocks is one step; StartJob is several, because            *)
(* CleanupFinishedThreads joins finished threads while it holds mutex_,    *)
(* and Stop is several, because it sets stopping_ before it takes mutex_   *)
(* and joins after it has released it.                                     *)
(*                                                                         *)
(* A member of Threads stands for one std::thread object together with the *)
(* shared atomic<bool> that its closure captured, so stop_flags_ and       *)
(* threads_ both map a job id to a thread.  The size of Threads bounds how *)
(* many jobs a behaviour can start.                                        *)
(***************************************************************************)
EXTENDS Integers, FiniteSets

CONSTANTS
    JobIds,             \* the job_id strings that callers pass
    Threads,            \* thread objects (bound on the number of starts)
    Limits,             \* arguments of SetMaxConcurrentJobs
    DefaultLimit,       \* initial max_jobs_ (4 in the code)
    Stoppers,           \* callers of Stop: the owner and ~JobManager
    MayRestartRunning,  \* may a caller reuse the id of a running job?
    SpawnMayFail,       \* may the std::thread constructor throw?
    NoThread, NoJob, Client

ASSUME ConstantsAssumption ==
    /\ NoThread \notin Threads
    /\ NoJob \notin JobIds
    /\ Client \notin Threads \cup {NoThread}
    /\ Limits \subseteq Nat
    /\ DefaultLimit \in Nat
    /\ MayRestartRunning \in BOOLEAN
    /\ SpawnMayFail \in BOOLEAN

VARIABLES
    jobs_,          \* status per job id, "ABSENT" when the map has no entry
    stop_flags_,    \* job id -> thread whose flag is registered, or NoThread
    threads_,       \* job id -> thread in the map, or NoThread
    stopping_,
    max_jobs_,
    current_jobs_,
    mutex_,         \* who holds mutex_ across steps: a StartJob caller
    starting,       \* the id that this StartJob is starting
    flag,           \* thread -> value of its stop flag
    job,            \* thread -> the job id its closure captured
    phase,          \* thread -> where the wrapper is
    stop_pc,        \* Stop caller -> where it is
    to_join,        \* Stop's local vector
    terminated      \* std::terminate was called

mapVars == <<jobs_, stop_flags_, threads_>>
slotVars == <<stopping_, max_jobs_, current_jobs_>>
callVars == <<mutex_, starting>>
threadVars == <<flag, job, phase>>
stopVars == <<stop_pc, to_join>>
vars == <<mapVars, slotVars, callVars, threadVars, stopVars, terminated>>

Status == {"RUNNING", "COMPLETED", "FAILED", "CANCELLED"}
Phase == {"unborn", "stillborn", "working", "returned", "threw",
          "exiting", "exited", "joined"}

\* The wrapper of these threads has not yet given back its slot; the wrapper of
\* a stillborn thread (its constructor threw) never will.
SlotPhase == {"stillborn", "working", "returned", "threw"}
SlotHolders == {t \in Threads : phase[t] \in SlotPhase}

\* std::thread::joinable() holds and the thread is still to be joined.
JoinablePhase == {"working", "returned", "threw", "exiting", "exited"}

TypeOK ==
    /\ jobs_ \in [JobIds -> Status \cup {"ABSENT"}]
    /\ stop_flags_ \in [JobIds -> Threads \cup {NoThread}]
    /\ threads_ \in [JobIds -> Threads \cup {NoThread}]
    /\ stopping_ \in BOOLEAN
    /\ max_jobs_ \in Nat
    /\ current_jobs_ \in Nat
    /\ mutex_ \in Threads \cup {NoThread, Client}
    /\ starting \in JobIds \cup {NoJob}
    /\ flag \in [Threads -> BOOLEAN]
    /\ job \in [Threads -> JobIds \cup {NoJob}]
    /\ phase \in [Threads -> Phase]
    /\ stop_pc \in [Stoppers -> {"idle", "early", "collect", "join", "joined"}]
    /\ to_join \in SUBSET Threads
    /\ terminated \in BOOLEAN

Init ==
    /\ jobs_ = [id \in JobIds |-> "ABSENT"]
    /\ stop_flags_ = [id \in JobIds |-> NoThread]
    /\ threads_ = [id \in JobIds |-> NoThread]
    /\ stopping_ = FALSE
    /\ max_jobs_ = DefaultLimit
    /\ current_jobs_ = 0
    /\ mutex_ = NoThread
    /\ starting = NoJob
    /\ flag = [t \in Threads |-> FALSE]
    /\ job = [t \in Threads |-> NoJob]
    /\ phase = [t \in Threads |-> "unborn"]
    /\ stop_pc = [s \in Stoppers |-> "idle"]
    /\ to_join = {}
    /\ terminated = FALSE

MutexFree == mutex_ = NoThread

-----------------------------------------------------------------------------
(* StartJob *)

\* Faulty variant: no stopping_ test.
StartJobLockIgnoresStopping(c, id) ==
    /\ MutexFree
    /\ \E t \in Threads : phase[t] = "unborn"
    /\ c \in Threads => phase[c] = "working"
    /\ MayRestartRunning \/ jobs_[id] # "RUNNING"
    /\ mutex_' = c
    /\ starting' = id
    /\ UNCHANGED <<mapVars, slotVars, threadVars, stopVars, terminated>>

\* Entry: take mutex_ and pass the stopping_ test.  The caller is a request
\* handler (Client) or a job thread that starts further jobs, as the tuning
\* orchestrator does.  While stopping_ holds StartJob throws and changes
\* nothing.  The second conjunct is the bound on starts.
StartJobLock(c, id) ==
    /\ MutexFree
    /\ \E t \in Threads : phase[t] = "unborn"
    /\ ~stopping_
    /\ c \in Threads => phase[c] = "working"
    /\ MayRestartRunning \/ jobs_[id] # "RUNNING"
    /\ mutex_' = c
    /\ starting' = id
    /\ UNCHANGED <<mapVars, slotVars, threadVars, stopVars, terminated>>

\* Faulty variant: finished threads are never joined or erased.
FinishedIdsNone == {id \in JobIds : FALSE}

\* Faulty variant: running threads are joined as well.
FinishedIdsAll == {id \in JobIds : threads_[id] # NoThread}

\* Entries of threads_ that CleanupFinishedThreads joins and erases.
FinishedIds ==
    {id \in JobIds : /\ threads_[id] # NoThread
                     /\ jobs_[id] \notin {"ABSENT", "RUNNING"}}

\* One iteration of CleanupFinishedThreads: join() returns once the thread has
\* exited, then both entries are erased.  mutex_ stays held throughout.
CleanupFinishedThreads(id) ==
    /\ ~MutexFree
    /\ id \in FinishedIds
    /\ phase[threads_[id]] = "exited"
    /\ phase' = [phase EXCEPT ![threads_[id]] = "joined"]
    /\ stop_flags_' = [stop_flags_ EXCEPT ![id] = NoThread]
    /\ threads_' = [threads_ EXCEPT ![id] = NoThread]
    /\ UNCHANGED <<jobs_, slotVars, callVars, flag, job, stopVars, terminated>>

\* The limit is reached: throw "Job queue full".
StartJobReject ==
    /\ ~MutexFree
    /\ FinishedIds = {}
    /\ current_jobs_ >= max_jobs_
    /\ mutex_' = NoThread
    /\ starting' = NoJob
    /\ UNCHANGED <<mapVars, slotVars, threadVars, stopVars, terminated>>

\* Faulty variant: the limit test lets one job too many through.
StartJobRegisterOffByOne(t) ==
    /\ ~MutexFree
    /\ FinishedIds = {}
    /\ current_jobs_ <= max_jobs_
    /\ phase[t] = "unborn"
    /\ stop_flags_' = [stop_flags_ EXCEPT ![starting] = t]
    /\ flag' = [flag EXCEPT ![t] = FALSE]
    /\ jobs_' = [jobs_ EXCEPT ![starting] = "RUNNING"]
    /\ current_jobs_' = current_jobs_ + 1
    /\ job' = [job EXCEPT ![t] = starting]
    /\ mutex_' = NoThread
    /\ starting' = NoJob
    /\ UNCHANGED <<stopping_, max_jobs_, stopVars>>

\* The slot is taken and the job registered before the thread is created.
StartJobRegister(t) ==
    /\ ~MutexFree
    /\ FinishedIds = {}
    /\ current_jobs_ < max_jobs_
    /\ phase[t] = "unborn"
    /\ stop_flags_' = [stop_flags_ EXCEPT ![starting] = t]
    /\ flag' = [flag EXCEPT ![t] = FALSE]
    /\ jobs_' = [jobs_ EXCEPT ![starting] = "RUNNING"]
    /\ current_jobs_' = current_jobs_ + 1
    /\ job' = [job EXCEPT ![t] = starting]
    /\ mutex_' = NoThread
    /\ starting' = NoJob
    /\ UNCHANGED <<stopping_, max_jobs_, stopVars>>

\* The thread is created and assigned into threads_.  Assigning over a
\* std::thread that is still joinable calls std::terminate.
StartJobSpawn(t) ==
    /\ StartJobRegister(t)
    /\ phase' = [phase EXCEPT ![t] = "working"]
    /\ threads_' = [threads_ EXCEPT ![starting] = t]
    /\ terminated' = (threads_[starting] # NoThread)

\* The std::thread constructor throws: nothing is assigned into threads_ and
\* nothing registered is undone.
StartJobSpawnFails(t) ==
    /\ SpawnMayFail
    /\ StartJobRegister(t)
    /\ phase' = [phase EXCEPT ![t] = "stillborn"]
    /\ UNCHANGED <<threads_, terminated>>

-----------------------------------------------------------------------------
(* The wrapper that runs on the job's thread *)

WorkReturns(t) ==
    /\ phase[t] = "working"
    /\ mutex_ # t
    /\ phase' = [phase EXCEPT ![t] = "returned"]
    /\ UNCHANGED <<mapVars, slotVars, callVars, flag, job, stopVars, terminated>>

WorkThrows(t) ==
    /\ phase[t] = "working"
    /\ mutex_ # t
    /\ phase' = [phase EXCEPT ![t] = "threw"]
    /\ UNCHANGED <<mapVars, slotVars, callVars, flag, job, stopVars, terminated>>

Outcome(t) ==
    CASE phase[t] = "threw" -> "FAILED"
      [] phase[t] = "returned" /\ flag[t] -> "CANCELLED"
      [] OTHER -> "COMPLETED"

\* Faulty variant: the exception path forgets to give back the slot.
WrapperFinishLeaksSlot(t) ==
    /\ phase[t] \in {"returned", "threw"}
    /\ MutexFree
    /\ jobs_' = [jobs_ EXCEPT ![job[t]] = Outcome(t)]
    /\ current_jobs_' = IF phase[t] = "threw" THEN current_jobs_ ELSE current_jobs_ - 1
    /\ phase' = [phase EXCEPT ![t] = "exiting"]
    /\ UNCHANGED <<stop_flags_, threads_, stopping_, max_jobs_, callVars,
                   flag, job, stopVars, terminated>>

\* Under mutex_: record the outcome if jobs_ still has the id, give back the slot.
WrapperFinish(t) ==
    /\ phase[t] \in {"returned", "threw"}
    /\ MutexFree
    /\ jobs_' = IF jobs_[job[t]] # "ABSENT"
                THEN [jobs_ EXCEPT ![job[t]] = Outcome(t)] ELSE jobs_
    /\ current_jobs_' = current_jobs_ - 1
    /\ phase' = [phase EXCEPT ![t] = "exiting"]
    /\ UNCHANGED <<stop_flags_, threads_, stopping_, max_jobs_, callVars,
                   flag, job, stopVars, terminated>>

\* Faulty variant: the thread takes mutex_ once more before it ends.
ThreadExitLocks(t) ==
    /\ phase[t] = "exiting"
    /\ MutexFree
    /\ phase' = [phase EXCEPT ![t] = "exited"]
    /\ UNCHANGED <<mapVars, slotVars, callVars, flag, job, stopVars, terminated>>

\* The wrapper has released mutex_ and the thread function ends.
ThreadExit(t) ==
    /\ phase[t] = "exiting"
    /\ phase' = [phase EXCEPT ![t] = "exited"]
    /\ UNCHANGED <<mapVars, slotVars, callVars, flag, job, stopVars, terminated>>

-----------------------------------------------------------------------------
(* CancelJob, GetStatus, SetMaxConcurrentJobs *)

\* Faulty variant: the status is set at once, while the job still runs.
CancelJobSetsStatus(id) ==
    /\ MutexFree
    /\ stop_flags_[id] # NoThread
    /\ flag' = [flag EXCEPT ![stop_flags_[id]] = TRUE]
    /\ jobs_' = [jobs_ EXCEPT ![id] = "CANCELLED"]
    /\ UNCHANGED <<stop_flags_, threads_, slotVars, callVars, job, phase, stopVars,
                   terminated>>

CancelJob(id) ==
    /\ MutexFree
    /\ stop_flags_[id] # NoThread
    /\ flag' = [flag EXCEPT ![stop_flags_[id]] = TRUE]
    /\ UNCHANGED <<mapVars, slotVars, callVars, job, phase, stopVars, terminated>>

\* An unknown id is reported as CANCELLED.
GetStatus(id) == IF jobs_[id] # "ABSENT" THEN jobs_[id] ELSE "CANCELLED"

SetMaxConcurrentJobs(n) ==
    /\ MutexFree
    /\ max_jobs_' = n
    /\ UNCHANGED <<mapVars, stopping_, current_jobs_, callVars, threadVars,
                   stopVars, terminated>>

-----------------------------------------------------------------------------
(* Stop *)

\* stopping_.exchange(true), without mutex_: only the first caller goes on.
StopExchange(s) ==
    /\ stop_pc[s] = "idle"
    /\ stopping_' = TRUE
    /\ stop_pc' = [stop_pc EXCEPT ![s] = IF stopping_ THEN "early" ELSE "collect"]
    /\ UNCHANGED <<mapVars, max_jobs_, current_jobs_, callVars, threadVars,
                   to_join, terminated>>

\* Faulty variant: the flags are cleared without being raised.
StopCollectSilently(s) ==
    /\ stop_pc[s] = "collect"
    /\ MutexFree
    /\ to_join' = {t \in Threads : \E id \in JobIds : threads_[id] = t}
    /\ threads_' = [id \in JobIds |-> NoThread]
    /\ stop_flags_' = [id \in JobIds |-> NoThread]
    /\ stop_pc' = [stop_pc EXCEPT ![s] = "join"]
    /\ UNCHANGED <<jobs_, slotVars, callVars, threadVars, terminated>>

\* Under mutex_: raise every registered flag, move the threads out, clear both maps.
StopCollect(s) ==
    /\ stop_pc[s] = "collect"
    /\ MutexFree
    /\ flag' = [t \in Threads |-> flag[t] \/ \E id \in JobIds : stop_flags_[id] = t]
    /\ to_join' = {t \in Threads : \E id \in JobIds : threads_[id] = t}
    /\ threads_' = [id \in JobIds |-> NoThread]
    /\ stop_flags_' = [id \in JobIds |-> NoThread]
    /\ stop_pc' = [stop_pc EXCEPT ![s] = "join"]
    /\ UNCHANGED <<jobs_, slotVars, callVars, job, phase, terminated>>

\* After mutex_ is released: join one of the collected threads.
StopJoin(s, t) ==
    /\ stop_pc[s] = "join"
    /\ t \in to_join
    /\ phase[t] = "exited"
    /\ phase' = [phase EXCEPT ![t] = "joined"]
    /\ to_join' = to_join \ {t}
    /\ UNCHANGED <<mapVars, slotVars, callVars, flag, job, stop_pc, terminated>>

StopReturn(s) ==
    /\ stop_pc[s] = "join"
    /\ to_join = {}
    /\ stop_pc' = [stop_pc EXCEPT ![s] = "joined"]
    /\ UNCHANGED <<mapVars, slotVars, callVars, threadVars, to_join, terminated>>

-----------------------------------------------------------------------------

StartJob ==
    \/ \E c \in Threads \cup {Client}, id \in JobIds : StartJobLock(c, id)
    \/ \E id \in JobIds : CleanupFinishedThreads(id)
    \/ StartJobReject
    \/ \E t \in Threads : StartJobSpawn(t) \/ StartJobSpawnFails(t)

Wrapper(t) == WorkReturns(t) \/ WorkThrows(t) \/ WrapperFinish(t) \/ ThreadExit(t)

Stop(s) ==
    \/ StopExchange(s)
    \/ StopCollect(s)
    \/ \E t \in Threads : StopJoin(s, t)
    \/ StopReturn(s)

Next ==
    /\ ~terminated
    /\ \/ StartJob
       \/ \E t \in Threads : Wrapper(t)
       \/ \E id \in JobIds : CancelJob(id)
       \/ \E n \in Limits : SetMaxConcurrentJobs(n)
       \/ \E s \in Stoppers : Stop(s)

\* Threads are scheduled: a StartJob that holds mutex_ goes on, a job's work
\* ends (every job body in src/ is finite), a Stop call goes on.  Nothing makes
\* a caller call StartJob, CancelJob or Stop.
Fairness ==
    /\ WF_vars(~terminated /\ StartJobReject)
    /\ WF_vars(~terminated /\ \E t \in Threads : StartJobSpawn(t))
    /\ \A id \in JobIds : WF_vars(~terminated /\ CleanupFinishedThreads(id))
    /\ \A t \in Threads : WF_vars(~terminated /\ Wrapper(t))
    /\ \A s \in Stoppers :
          WF_vars(~terminated /\ Stop(s) /\ stop_pc[s] # "idle")

Spec == Init /\ [][Next]_vars
FairSpec == Spec /\ Fairness

-----------------------------------------------------------------------------
(* Properties *)

\* The counter that StartJob compares with max_jobs_ is the number of wrappers
\* that still have to give their slot back: no path of StartJob or of the
\* wrapper loses or doubles a slot (a size_t below zero would admit no job).
SlotAccounting == current_jobs_ = Cardinality(SlotHolders)

\* A job thread is created only when fewer than max_jobs_ slots are really held,
\* however cancels, failures, joins and changes of the limit interleave
\* (job_manager.cpp:42).
StartsWithinLimit ==
    [][\A t \in Threads :
          phase[t] = "unborn" /\ phase'[t] = "working"
          => Cardinality(SlotHolders) < max_jobs_]_vars

\* While a job's wrapper has not recorded its outcome, GetStatus reports RUNNING
\* for its id, and no other wrapper is running under the same id.
StatusTracksThread ==
    \A t \in SlotHolders :
        /\ GetStatus(job[t]) = "RUNNING"
        /\ \A u \in SlotHolders : job[u] = job[t] => u = t

\* A cancel request reaches the thread that runs the job: until the wrapper
\* records its outcome, CancelJob(id) finds that thread's own flag, or the flag
\* is already raised (Stop clears the map only after raising every flag).
CancelReachesThread ==
    \A t \in SlotHolders : stop_flags_[job[t]] = t \/ flag[t]

\* When the Stop call that did the work returns, no job thread is left: every
\* thread ever created has been joined, including one created by a StartJob
\* that passed its stopping_ test just before Stop set it.
StopJoinsEveryThread ==
    (\E s \in Stoppers : stop_pc[s] = "joined")
    => \A t \in Threads : phase[t] \in {"unborn", "stillborn", "joined"}

\* threads_ never has a joinable thread assigned over (std::terminate); callers
\* that do not reuse the id of a running job can rely on it.
NeverTerminates == ~terminated

\* Stop returns: joining cannot wait for a thread that needs mutex_.
StopReturns ==
    \A s \in Stoppers : stop_pc[s] = "collect" ~> stop_pc[s] = "joined"

\* StartJob gives mutex_ back: the threads that CleanupFinishedThreads joins
\* while holding mutex_ do not need it to exit.
StartJobReleasesMutex == ~MutexFree ~> MutexFree
=============================================================================
