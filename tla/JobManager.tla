----------------------------- MODULE JobManager -----------------------------
(***************************************************************************)
(* The in-memory job manager of sirah/internal/job/job.c: one table of jobs *)
(* behind one mutex.  Every function takes the mutex for its whole body,    *)
(* so each is one action, except job_create, which compares the count with  *)
(* the table's size before it takes the mutex.  Time is left out: TTLs are  *)
(* counted from completion_time, which no function ever sets.               *)
(***************************************************************************)
EXTENDS Integers, Sequences, FiniteSets, SequencesExt

CONSTANTS
    JobCallers,   \* threads that call the manager
    JobNames,     \* (namespace, name) pairs
    JobSpecs,     \* job_spec_t values a caller passes
    JobLimit,     \* 1000 in the code: size of the table
    JobPodLimit,  \* 1000 in the code: size of pod_names
    JobSeconds,   \* values of time(NULL) % 1000, the suffix of a pod's name
    JobCountBound \* bound on the counters of a status

VARIABLES
    jobs,     \* job_manager.jobs: the job of a name, or NoJob
    jobPc,    \* where a caller is: between the check and the mutex of
              \* job_create, or between job_should_create_more_pods and
              \* job_create_pod
    jobBroken \* a job was written past the end of the table

jobVars == <<jobs, jobPc, jobBroken>>

JobAssumption ==
    /\ JobLimit \in Nat \ {0} /\ JobPodLimit \in Nat /\ JobCountBound \in Nat
    /\ IsFiniteSet(JobCallers) /\ IsFiniteSet(JobNames)

NoJob == [none |-> TRUE]
JobIdle == <<"idle">>

find_job_index(n) == jobs[n] # NoJob

JobCount == Cardinality({n \in JobNames : find_job_index(n)})

job_validate_spec(s) ==
    /\ s.completions > 0 /\ s.parallelism > 0 /\ s.backoff_limit >= 0

NewStatus == [active |-> 0, succeeded |-> 0, failed |-> 0,
              pods |-> <<>>, failure_count |-> 0]

job_manager_init ==
    /\ jobs = [n \in JobNames |-> NoJob]
    /\ jobPc = [t \in JobCallers |-> JobIdle]
    /\ jobBroken = FALSE

-----------------------------------------------------------------------------
\* job_create compares count with 1000 first, and only then takes the mutex.
job_create_check(t, n, s) ==
    /\ jobPc[t] = JobIdle
    /\ JobCount < JobLimit
    /\ jobPc' = [jobPc EXCEPT ![t] = <<"create", n, s>>]
    /\ UNCHANGED <<jobs, jobBroken>>

job_create(t) ==
    /\ jobPc[t][1] = "create"
    /\ jobPc' = [jobPc EXCEPT ![t] = JobIdle]
    /\ LET n == jobPc[t][2]  s == jobPc[t][3] IN
       IF find_job_index(n) \/ ~job_validate_spec(s)
       THEN UNCHANGED <<jobs, jobBroken>>
       ELSE /\ jobBroken' = (JobCount >= JobLimit)
            /\ jobs' = [jobs EXCEPT ![n] =
                          [spec |-> s, generation |-> 1, status |-> NewStatus]]

job_update(n, s) ==
    /\ find_job_index(n) /\ job_validate_spec(s)
    /\ jobs[n].generation <= JobCountBound
    /\ jobs' = [jobs EXCEPT ![n].spec = s, ![n].generation = @ + 1]
    /\ UNCHANGED <<jobPc, jobBroken>>

job_delete(n) ==
    /\ find_job_index(n)
    /\ jobs' = [jobs EXCEPT ![n] = NoJob]
    /\ UNCHANGED <<jobPc, jobBroken>>

job_list == {n \in JobNames : find_job_index(n)}

job_manager_shutdown ==
    /\ jobs' = [n \in JobNames |-> NoJob]
    /\ UNCHANGED <<jobPc, jobBroken>>

-----------------------------------------------------------------------------
\* What the functions that only read a job answer.
job_is_complete(j) == j.status.succeeded >= j.spec.completions
job_has_exceeded_backoff_limit(j) == j.status.failure_count > j.spec.backoff_limit

job_get_remaining_completions(j) ==
    IF job_is_complete(j) THEN 0 ELSE j.spec.completions - j.status.succeeded

job_get_desired_pod_count(j) ==
    LET remaining == job_get_remaining_completions(j)
    IN  IF remaining < j.spec.parallelism THEN remaining ELSE j.spec.parallelism

\* Mutation: one pod too many.
job_should_create_more_pods_off_by_one(j) ==
    /\ ~j.spec.suspend
    /\ ~job_is_complete(j)
    /\ ~job_has_exceeded_backoff_limit(j)
    /\ Len(j.status.pods) <= j.spec.parallelism

job_should_create_more_pods(j) ==
    /\ ~j.spec.suspend
    /\ ~job_is_complete(j)
    /\ ~job_has_exceeded_backoff_limit(j)
    /\ Len(j.status.pods) < j.spec.parallelism

job_should_terminate_all_pods(j) ==
    j.spec.suspend \/ job_has_exceeded_backoff_limit(j)

-----------------------------------------------------------------------------
\* The caller that runs a job asks, in one call, whether a pod is wanted and
\* makes it in another.
AskForPod(t, n) ==
    /\ jobPc[t] = JobIdle
    /\ find_job_index(n) /\ job_should_create_more_pods(jobs[n])
    /\ jobPc' = [jobPc EXCEPT ![t] = <<"pod", n>>]
    /\ UNCHANGED <<jobs, jobBroken>>

job_generate_pod_name(i, second) == <<i, second>>

job_create_pod(t, i, second) ==
    /\ jobPc[t][1] = "pod"
    /\ jobPc' = [jobPc EXCEPT ![t] = JobIdle]
    /\ UNCHANGED jobBroken
    /\ LET n == jobPc[t][2] IN
       IF ~find_job_index(n) THEN UNCHANGED jobs
       ELSE jobs' = [jobs EXCEPT ![n].status =
              [@ EXCEPT !.active = @ + 1,
                        !.pods = IF Len(@) < JobPodLimit
                                 THEN Append(@, job_generate_pod_name(i, second))
                                 ELSE @]]

LessOne(k) == IF k > 0 THEN k - 1 ELSE k

job_delete_pod(n, p) ==
    /\ find_job_index(n)
    /\ jobs' = [jobs EXCEPT ![n].status =
         [@ EXCEPT !.active = LessOne(@),
                   !.pods = LET i == SelectInSeq(@, LAMBDA q : q = p)
                            IN  IF i = 0 THEN @ ELSE RemoveAt(@, i)]]
    /\ UNCHANGED <<jobPc, jobBroken>>

job_get_pods(n, max) ==
    SubSeq(jobs[n].status.pods, 1, Min({max, Len(jobs[n].status.pods)}))

\* The pod's name is not looked at: a pod may be reported twice.
job_mark_pod_succeeded(n) ==
    /\ find_job_index(n) /\ jobs[n].status.succeeded < JobCountBound
    /\ jobs' = [jobs EXCEPT ![n].status =
         [@ EXCEPT !.succeeded = @ + 1, !.active = LessOne(@), !.failure_count = 0]]
    /\ UNCHANGED <<jobPc, jobBroken>>

job_mark_pod_failed(n, retry) ==
    /\ find_job_index(n)
    /\ jobs[n].status.failed < JobCountBound /\ jobs[n].status.failure_count < JobCountBound
    /\ jobs' = [jobs EXCEPT ![n].status =
         [@ EXCEPT !.active = LessOne(@),
                   !.failure_count = IF retry THEN @ + 1 ELSE @,
                   !.failed = IF retry THEN @ ELSE @ + 1]]
    /\ UNCHANGED <<jobPc, jobBroken>>

job_update_status(n, active, succeeded, failed) ==
    /\ find_job_index(n)
    /\ jobs' = [jobs EXCEPT ![n].status =
         [@ EXCEPT !.active = active, !.succeeded = succeeded, !.failed = failed]]
    /\ UNCHANGED <<jobPc, jobBroken>>

job_record_pod_failure(n) ==
    /\ find_job_index(n) /\ jobs[n].status.failure_count < JobCountBound
    /\ jobs' = [jobs EXCEPT ![n].status.failure_count = @ + 1]
    /\ UNCHANGED <<jobPc, jobBroken>>

job_reset_failure_count(n) ==
    /\ find_job_index(n)
    /\ jobs' = [jobs EXCEPT ![n].status.failure_count = 0]
    /\ UNCHANGED <<jobPc, jobBroken>>

\* job_suspend and job_resume.
job_suspend(n, suspend) ==
    /\ find_job_index(n)
    /\ jobs' = [jobs EXCEPT ![n].spec.suspend = suspend]
    /\ UNCHANGED <<jobPc, jobBroken>>

-----------------------------------------------------------------------------
\* A write past the table destroys the fields behind it: what the process does
\* from there on is undefined, and the model ends.
JobNext ==
    /\ ~jobBroken
    /\ \/ job_manager_shutdown
       \/ \E t \in JobCallers :
             \/ \E n \in JobNames, s \in JobSpecs : job_create_check(t, n, s)
             \/ job_create(t)
             \/ \E n \in JobNames : AskForPod(t, n)
             \/ \E i \in 0 .. 1, second \in JobSeconds : job_create_pod(t, i, second)
       \/ \E n \in job_list :
             \/ \E s \in JobSpecs : job_update(n, s)
             \/ job_delete(n)
             \/ \E p \in ToSet(job_get_pods(n, JobPodLimit)) \cup {<<"other">>} :
                   job_delete_pod(n, p)
             \/ job_mark_pod_succeeded(n)
             \/ \E retry \in BOOLEAN : job_mark_pod_failed(n, retry)
             \/ \E k \in 0 .. 1 : job_update_status(n, k, k, 0)
             \/ job_record_pod_failure(n)
             \/ job_reset_failure_count(n)
             \/ \E b \in BOOLEAN : job_suspend(n, b)

JobSpec == job_manager_init /\ [][JobNext]_jobVars

-----------------------------------------------------------------------------
\* Whether a pod is wanted is asked under the mutex, and the pod is made under
\* the mutex, but not under the same one: callers that ask at the same time all
\* hear yes.  A job then has more pods than its parallelism, by at most one for
\* each further caller, whatever is updated, suspended, deleted or created anew
\* in between; and the answers about a job agree: a job whose pods must go, or
\* that is complete, wants no pod, and it is complete exactly when it wants none
\* at all.
JobPodsBounded ==
    \A n \in job_list :
       LET j == jobs[n] IN
       /\ Len(j.status.pods) <
             Max({s.parallelism : s \in JobSpecs}) + Cardinality(JobCallers)
       /\ job_should_create_more_pods(j) => ~job_should_terminate_all_pods(j)
       /\ (job_get_desired_pod_count(j) = 0) <=> job_is_complete(j)
       /\ job_should_create_more_pods(j) => job_get_desired_pod_count(j) > 0

=============================================================================
