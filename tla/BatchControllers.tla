------------------------- MODULE BatchControllers -------------------------
(***************************************************************************)
(* The in-memory controllers of the batch objects: the job controller      *)
(* (sirah/internal/controller/job_controller.c) with the counters of       *)
(* sirah/pkg/types/job.c, the cron scheduler                               *)
(* (sirah/internal/scheduler/cron_scheduler.c) and the horizontal          *)
(* autoscaler (sirah/internal/controller/hpa_controller.c with             *)
(* sirah/pkg/types/hpa.c).  Each keeps an array of pointers, without a     *)
(* lock; a name stands for namespace/name.                                 *)
(***************************************************************************)
EXTENDS Integers, FiniteSets, SequencesExt

CONSTANTS
    BcNames,        \* jobs and cron jobs
    BcScalers,      \* autoscalers
    BcSpecs,        \* job specs: completions, backoff_limit, ttl_seconds_after_finished
    BcPolicies,     \* concurrency policies of cron jobs
    BcLimit,        \* max_jobs, max_cronjobs, max_hpas
    BcTarget,       \* scale_target_ref
    BcHpas,         \* autoscaler specs: min, max, cpu, up, down, up_percent, down_percent
    BcUtils,        \* CPU utilisations reported
    BcCounts,       \* replica counts reported or asked for
    BcPodBound,     \* bound: pods counted in a job, jobs active under a cron job, scalings
    BcTimeBound     \* bound: seconds counted

VARIABLES bcJobs, bcCrons, bcHpas, bcScaled, bcEnabled, bcClock

bcJobVars  == bcJobs
bcCronVars == bcCrons
bcHpaVars  == <<bcHpas, bcScaled>>
bcVars     == <<bcJobs, bcCrons, bcHpas, bcScaled, bcEnabled, bcClock>>

BcInit ==
    /\ bcJobs = <<>> /\ bcCrons = <<>> /\ bcHpas = <<>> /\ bcScaled = <<>>
    /\ bcEnabled = TRUE
    /\ bcClock = 1            \* zero is "not yet" in every time field

RowOf(table, n) == SelectInSeq(table, LAMBDA r : r.name = n)
FreeFor(table, n) == RowOf(table, n) = 0 /\ Len(table) < BcLimit

BcTime ==
    /\ bcClock < BcTimeBound /\ bcClock' = bcClock + 1
    /\ UNCHANGED <<bcJobs, bcCrons, bcHpas, bcScaled, bcEnabled>>

---------------------------------------------------------------------------
(* Jobs.                                                                   *)

k8s_job_status_new == [active |-> 0, succeeded |-> 0, failed |-> 0, start |-> 0, done |-> 0]

k8s_job_new(n, spec) == [name |-> n, spec |-> spec, status |-> k8s_job_status_new]

SetJobs(table) ==
    /\ bcJobs' = table
    /\ UNCHANGED <<bcCrons, bcHpas, bcScaled, bcEnabled, bcClock>>

k8s_job_controller_get(n) == RowOf(bcJobs, n)

k8s_job_controller_create(n, spec) ==
    /\ k8s_job_controller_get(n) = 0 /\ Len(bcJobs) < BcLimit
    /\ SetJobs(Append(bcJobs, k8s_job_new(n, spec)))

\* The job is replaced whole, its status with it.
k8s_job_controller_update(n, spec) ==
    LET i == k8s_job_controller_get(n)
    IN  /\ i > 0
        /\ SetJobs([bcJobs EXCEPT ![i] = k8s_job_new(n, spec)])

k8s_job_controller_delete(n) ==
    LET i == k8s_job_controller_get(n) IN i > 0 /\ SetJobs(RemoveAt(bcJobs, i))

k8s_job_controller_list(names) == SelectSeq(bcJobs, LAMBDA j : j.name \in names)

k8s_job_mark_started(status)   == [status EXCEPT !.start = bcClock]
k8s_job_mark_completed(status) == [status EXCEPT !.done = bcClock]
k8s_job_increment_active(status, k) == [status EXCEPT !.active = @ + k]

AfterPods(active, k) == IF active > k THEN active - k ELSE 0

k8s_job_increment_succeeded(status, k) ==
    [status EXCEPT !.succeeded = @ + k, !.active = AfterPods(@, k)]

k8s_job_increment_failed(status, k) ==
    [status EXCEPT !.failed = @ + k, !.active = AfterPods(@, k)]

\* The caller's updates of a job it holds.
JobStatus(i) ==
    LET status == bcJobs[i].status
        total  == status.active + status.succeeded + status.failed
        Became(new) == SetJobs([bcJobs EXCEPT ![i].status = new])
    IN  \/ status.start = 0 /\ Became(k8s_job_mark_started(status))
        \/ status.done = 0 /\ Became(k8s_job_mark_completed(status))
        \/ total < BcPodBound /\ Became(k8s_job_increment_active(status, 1))
        \/ total < BcPodBound /\ Became(k8s_job_increment_succeeded(status, 1))
        \/ total < BcPodBound /\ Became(k8s_job_increment_failed(status, 1))

k8s_job_controller_is_complete(job) == job.status.succeeded >= job.spec.completions

k8s_job_controller_should_retry(job) ==
    job.status.failed < job.spec.backoff_limit /\ ~k8s_job_controller_is_complete(job)

Finished(job) ==
    /\ k8s_job_controller_is_complete(job) /\ job.status.done > 0
    /\ bcClock - job.status.done > job.spec.ttl

\* Mutation: after removing a job the loop goes on to the next index.
Cleaned_skips_shifted(table) ==
    LET Scan[i \in Nat, js \in Seq({bcJobs[k] : k \in DOMAIN bcJobs})] ==
            IF i > Len(js) THEN js
            ELSE IF Finished(js[i]) THEN Scan[i + 1, RemoveAt(js, i)]
            ELSE Scan[i + 1, js]
    IN  Scan[1, table]

\* The loop over the table: a removal moves the next job to the same index.
Cleaned(table) ==
    LET Scan[i \in Nat, js \in Seq({bcJobs[k] : k \in DOMAIN bcJobs})] ==
            IF i > Len(js) THEN js
            ELSE IF Finished(js[i]) THEN Scan[i, RemoveAt(js, i)]
            ELSE Scan[i + 1, js]
    IN  Scan[1, table]

k8s_job_controller_cleanup_completed ==
    /\ Cleaned(bcJobs) # bcJobs
    /\ SetJobs(Cleaned(bcJobs))

JobTableNext ==
    \/ \E n \in BcNames :
          \/ \E spec \in BcSpecs : k8s_job_controller_create(n, spec) \/ k8s_job_controller_update(n, spec)
          \/ k8s_job_controller_delete(n)
    \/ \E i \in DOMAIN bcJobs : JobStatus(i)
    \/ k8s_job_controller_cleanup_completed
    \/ BcTime

---------------------------------------------------------------------------
(* Cron jobs.                                                              *)

k8s_cronjob_new(n, policy) == [name |-> n, policy |-> policy, active |-> <<>>]

SetCrons(crons) ==
    /\ bcCrons' = crons
    /\ UNCHANGED <<bcJobs, bcHpas, bcScaled, bcEnabled, bcClock>>

k8s_cron_scheduler_get(n) == RowOf(bcCrons, n)

k8s_cron_scheduler_register(n, policy) ==
    /\ FreeFor(bcCrons, n)
    /\ SetCrons(Append(bcCrons, k8s_cronjob_new(n, policy)))

k8s_cron_scheduler_update(n, policy) ==
    LET i == k8s_cron_scheduler_get(n)
    IN  /\ i > 0
        /\ SetCrons([bcCrons EXCEPT ![i] = k8s_cronjob_new(n, policy)])

k8s_cron_scheduler_unregister(n) ==
    LET i == k8s_cron_scheduler_get(n) IN i > 0 /\ SetCrons(RemoveAt(bcCrons, i))

k8s_cron_scheduler_list(names) == SelectSeq(bcCrons, LAMBDA c : c.name \in names)

k8s_cron_scheduler_check_concurrency(cron) == cron.policy # "Forbid" \/ cron.active = <<>>

k8s_cronjob_add_active_job(i, job) ==
    /\ Len(bcCrons[i].active) < BcPodBound
    /\ SetCrons([bcCrons EXCEPT ![i].active = Append(@, job)])

\* The first of that name.
k8s_cronjob_remove_active_job(i, job) ==
    /\ job \in Range(bcCrons[i].active)
    /\ SetCrons([bcCrons EXCEPT ![i].active = RemoveFirst(@, job)])

k8s_cron_scheduler_kill_active_jobs(i) ==
    /\ bcCrons[i].active # <<>>
    /\ SetCrons([bcCrons EXCEPT ![i].active = <<>>])

\* k8s_cron_scheduler_should_trigger answers no whatever the schedule says.
k8s_cron_scheduler_should_trigger(cron) == FALSE

\* What one evaluation of every schedule does: nothing triggers, so it creates no job and
\* kills none.
k8s_cron_scheduler_evaluate_schedules ==
    LET due == {i \in DOMAIN bcCrons : /\ k8s_cron_scheduler_should_trigger(bcCrons[i])
                                       /\ k8s_cron_scheduler_check_concurrency(bcCrons[i])}
    IN  SetCrons([i \in DOMAIN bcCrons |->
                     IF i \in due /\ bcCrons[i].policy = "Replace"
                     THEN [bcCrons[i] EXCEPT !.active = <<>>] ELSE bcCrons[i]])

CronNext ==
    \/ \E n \in BcNames :
          \/ \E p \in BcPolicies : k8s_cron_scheduler_register(n, p) \/ k8s_cron_scheduler_update(n, p)
          \/ k8s_cron_scheduler_unregister(n)
          \/ \E i \in DOMAIN bcCrons :
                k8s_cronjob_add_active_job(i, n) \/ k8s_cronjob_remove_active_job(i, n)
    \/ \E i \in DOMAIN bcCrons : k8s_cron_scheduler_kill_active_jobs(i)
    \/ k8s_cron_scheduler_evaluate_schedules

---------------------------------------------------------------------------
(* Autoscalers.                                                            *)

k8s_hpa_new(n, target, spec) ==
    [name |-> n, target |-> target, spec |-> spec,
     current |-> 0, desired |-> 0, cpu |-> 0, scaled |-> 0]

SetHpas(hpas) ==
    /\ bcHpas' = hpas
    /\ UNCHANGED <<bcJobs, bcCrons, bcScaled, bcEnabled, bcClock>>

k8s_hpa_controller_get(n) == RowOf(bcHpas, n)

k8s_hpa_controller_create(n, target, spec) ==
    /\ FreeFor(bcHpas, n)
    /\ SetHpas(Append(bcHpas, k8s_hpa_new(n, target, spec)))

k8s_hpa_controller_update(n, target, spec) ==
    LET i == k8s_hpa_controller_get(n)
    IN  i > 0 /\ SetHpas([bcHpas EXCEPT ![i] = k8s_hpa_new(n, target, spec)])

k8s_hpa_controller_delete(n) ==
    LET i == k8s_hpa_controller_get(n) IN i > 0 /\ SetHpas(RemoveAt(bcHpas, i))

k8s_hpa_controller_list(names) == SelectSeq(bcHpas, LAMBDA h : h.name \in names)

\* Replaces both bounds; refuses a maximum below the minimum, or a minimum below one.
k8s_hpa_set_replicas(i, min, max) ==
    /\ min >= 1 /\ max >= min
    /\ SetHpas([bcHpas EXCEPT ![i].spec.min = min, ![i].spec.max = max])

k8s_hpa_set_replicas_count(i, current, desired) ==
    SetHpas([bcHpas EXCEPT ![i].current = current, ![i].desired = desired])

k8s_hpa_update_current_metrics(hpa, cpu) == [hpa EXCEPT !.cpu = cpu]

\* Every autoscaler of the target, not only the first.
k8s_hpa_controller_update_metrics(target, cpu) ==
    SetHpas([i \in DOMAIN bcHpas |->
                IF bcHpas[i].target = target THEN k8s_hpa_update_current_metrics(bcHpas[i], cpu)
                ELSE bcHpas[i]])

AtLeastOne(k) == IF k = 0 THEN 1 ELSE k
Clamp(k, spec) == IF k > spec.max THEN spec.max ELSE IF k < spec.min THEN spec.min ELSE k

\* Mutation: a rounded-down step of zero stays zero.
desired_replicas_without_step(hpa, util, target) ==
    LET asked == (hpa.current * util + target - 1) \div target
        up    == (hpa.current * hpa.spec.up_percent) \div 100
        down  == (hpa.current * hpa.spec.down_percent) \div 100
    IN  IF target <= 0 \/ util = 0 THEN hpa.spec.min
        ELSE Clamp(IF asked > hpa.current THEN hpa.current + up
                   ELSE IF asked < hpa.current THEN hpa.current - down
                   ELSE asked, hpa.spec)

\* Away from the computed count, the answer is one policy step from the current count.
k8s_hpa_calculate_desired_replicas(hpa, util, target) ==
    LET asked == (hpa.current * util + target - 1) \div target
        up    == AtLeastOne((hpa.current * hpa.spec.up_percent) \div 100)
        down  == AtLeastOne((hpa.current * hpa.spec.down_percent) \div 100)
    IN  IF target <= 0 \/ util = 0 THEN hpa.spec.min
        ELSE Clamp(IF asked > hpa.current THEN hpa.current + up
                   ELSE IF asked < hpa.current THEN hpa.current - down
                   ELSE asked, hpa.spec)

Recommended(hpa) == k8s_hpa_calculate_desired_replicas(hpa, hpa.cpu, hpa.spec.cpu)

k8s_hpa_controller_get_recommendations(target) ==
    LET i == SelectInSeq(bcHpas, LAMBDA h : h.target = target)
    IN  IF i > 0 THEN Recommended(bcHpas[i]) ELSE -1

Window(hpa) == IF hpa.desired > hpa.current THEN hpa.spec.up ELSE hpa.spec.down

\* The autoscalers an evaluation decides about, with what it decides.
k8s_hpa_controller_evaluate_all ==
    {<<bcHpas[i].target, Recommended(bcHpas[i])>> :
        i \in {j \in DOMAIN bcHpas : /\ bcClock - bcHpas[j].scaled >= Window(bcHpas[j])
                                     /\ Recommended(bcHpas[j]) # bcHpas[j].current}}

k8s_hpa_can_scale_up(hpa) ==
    hpa.desired < hpa.spec.max /\ bcClock - hpa.scaled >= hpa.spec.up

k8s_hpa_can_scale_down(hpa) ==
    hpa.desired > hpa.spec.min /\ bcClock - hpa.scaled >= hpa.spec.down

\* status.desired_replicas is left as it was.
k8s_hpa_mark_scaled(hpa, k) == [hpa EXCEPT !.scaled = bcClock, !.current = k]

\* The table of targets scaled: a count and a time each.
CountScaled(target) ==
    LET j == SelectInSeq(bcScaled, LAMBDA s : s.target = target)
    IN  IF j > 0 THEN [bcScaled EXCEPT ![j].count = @ + 1, ![j].at = bcClock]
        ELSE IF Len(bcScaled) < BcLimit
             THEN Append(bcScaled, [target |-> target, count |-> 1, at |-> bcClock])
             ELSE bcScaled

\* The first autoscaler of the target is the one that is scaled.
k8s_hpa_controller_scale_target(target, replicas) ==
    LET i == SelectInSeq(bcHpas, LAMBDA h : h.target = target)
        j == SelectInSeq(bcScaled, LAMBDA s : s.target = target)
    IN  /\ replicas >= 1 /\ bcEnabled /\ i > 0
        /\ j > 0 => bcScaled[j].count < BcPodBound
        /\ bcHpas' = [bcHpas EXCEPT ![i] = k8s_hpa_mark_scaled(@, Clamp(replicas, @.spec))]
        /\ bcScaled' = CountScaled(target)
        /\ UNCHANGED <<bcJobs, bcCrons, bcEnabled, bcClock>>

k8s_hpa_controller_can_scale_now(target) ==
    LET j == SelectInSeq(bcScaled, LAMBDA s : s.target = target)
    IN  j > 0 => bcClock - bcScaled[j].at > 60

k8s_hpa_controller_set_enabled(enabled) ==
    /\ bcEnabled' = enabled
    /\ UNCHANGED <<bcJobs, bcCrons, bcHpas, bcScaled, bcClock>>

HpaNext ==
    \/ \E n \in BcScalers :
          \/ \E t \in BcTarget, spec \in BcHpas :
                k8s_hpa_controller_create(n, t, spec) \/ k8s_hpa_controller_update(n, t, spec)
          \/ k8s_hpa_controller_delete(n)
    \/ \E i \in DOMAIN bcHpas, k, m \in BcCounts :
          k8s_hpa_set_replicas(i, k, m) \/ k8s_hpa_set_replicas_count(i, k, m)
    \/ \E t \in BcTarget, u \in BcUtils : k8s_hpa_controller_update_metrics(t, u)
    \/ \E d \in k8s_hpa_controller_evaluate_all : k8s_hpa_controller_scale_target(d[1], d[2])
    \/ \E t \in BcTarget, k \in BcCounts : k8s_hpa_controller_scale_target(t, k)
    \/ \E e \in BOOLEAN : k8s_hpa_controller_set_enabled(e)
    \/ BcTime

---------------------------------------------------------------------------
TableOk(table) ==
    /\ Len(table) <= BcLimit
    /\ Cardinality({table[i].name : i \in DOMAIN table}) = Len(table)

\* k8s_job_controller_cleanup_completed removes exactly the jobs that are complete and whose
\* time to live has passed, keeping the others in order, although it shifts the array it
\* walks; no table holds a name twice or more rows than its maximum; and a job that is
\* complete is never retried.
CleanupExact ==
    /\ TableOk(bcJobs) /\ TableOk(bcCrons)
    /\ Cleaned(bcJobs) = SelectSeq(bcJobs, LAMBDA j : ~Finished(j))
    /\ \A i \in DOMAIN bcJobs :
          ~(k8s_job_controller_is_complete(bcJobs[i]) /\ k8s_job_controller_should_retry(bcJobs[i]))

\* What k8s_hpa_calculate_desired_replicas recommends is within the bounds, and it moves the
\* way the load says: up from an overloaded count that is below the maximum, down from a
\* count at twice what the load needs, never up from an underloaded one beyond the minimum,
\* nowhere when the load is on target and the count in bounds; whatever the policy percentages
\* round to.  A decision of k8s_hpa_controller_evaluate_all to follow a higher desired count
\* below the maximum is one that k8s_hpa_can_scale_up agrees with.
RecommendsTheRightWay ==
    /\ TableOk(bcHpas)
    /\ \A i \in DOMAIN bcHpas :
          LET h == bcHpas[i]
              r == Recommended(h)
          IN  /\ r \in h.spec.min..h.spec.max
              /\ (h.cpu > h.spec.cpu /\ h.current > 0 /\ h.current < h.spec.max) => r > h.current
              /\ h.cpu < h.spec.cpu => r <= h.current \/ r = h.spec.min
              /\ (h.cpu * 2 <= h.spec.cpu /\ h.current >= 2 /\ h.current > h.spec.min) => r < h.current
              /\ (h.cpu = h.spec.cpu /\ h.current \in h.spec.min..h.spec.max) => r = h.current
              /\ (/\ bcClock - h.scaled >= Window(h) /\ r # h.current
                  /\ h.desired > h.current /\ h.desired < h.spec.max) => k8s_hpa_can_scale_up(h)

============================================================================
