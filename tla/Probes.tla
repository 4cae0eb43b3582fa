------------------------------- MODULE Probes -------------------------------
(***************************************************************************)
(* Health probes, written four times in this repository, and the kubelet's *)
(* record of a pod that reads them:                                        *)
(*   - the probe manager of internal/probes/health_probe.c;                *)
(*   - the probes of a pod in the API server (apiserver/probes.c);         *)
(*   - the probe table of kubelet/probe_executor.c;                        *)
(*   - the container health of kubelet/health_probe.c, used by             *)
(*     kubelet/kubelet_lifecycle.c, and the handlers of probe_handler.c.   *)
(* Each turns a sequence of results into a flag with two counters and two  *)
(* thresholds; they differ in what an unknown result does and in whose     *)
(* thresholds count.  `seen' is a history variable: the results that were  *)
(* counted, each with the thresholds in force, and no code reads it.       *)
(*                                                                         *)
(* What a handler finds is external: a set of possible results.            *)
(***************************************************************************)
EXTENDS Integers, Sequences, FiniteSets, FiniteSetsExt

CONSTANTS
    PrConfigs,      \* [type, handler, up, down]: configurations of a probe
    PrSpecs,        \* [handler, delay, up, down]: specs of the API server
    PrNames,        \* containers of the probe table
    PrManaged,      \* bound: probes of a manager
    PrTableMax,     \* MAX_CONTAINER_PROBES
    PrContainers,   \* containers of the kubelet's pod
    PrRuns          \* bound: results of a manager's probe, of a pod or of a container

ASSUME PrAssumption == PrManaged \in Nat /\ PrTableMax \in Nat /\ PrContainers \in Nat /\ PrRuns \in Nat

VARIABLES
    prManager,  \* manager->probes
    prPod,      \* pod_probes_t
    prTable,    \* g_probes
    prKubelet   \* pod_container_state_t

prVars == <<prManager, prPod, prTable, prKubelet>>

Ok == "SUCCESS"
Failure == "FAILURE"
Unknown == "UNKNOWN"
ProbeTypes == {"STARTUP", "READINESS", "LIVENESS"}

\* The counters and the flag every version keeps.
Fresh(flag) == [succ |-> 0, fail |-> 0, flag |-> flag, last |-> Unknown, seen |-> <<>>]

\* Bound: the results of the probes of one container or pod, together.
MayRun(s) == Len(s.STARTUP.seen) + Len(s.READINESS.seen) + Len(s.LIVENESS.seen) < PrRuns

Counted(s, ok, up, down) ==
    [s EXCEPT !.succ = IF ok THEN @ + 1 ELSE 0, !.fail = IF ok THEN 0 ELSE @ + 1,
              !.seen = Append(@, [ok |-> ok, up |-> up, down |-> down])]

Never == PrRuns + 1

---------------------------------------------------------------------------
(* internal/probes/health_probe.c: pod_probe_manager_t.                    *)

pod_probe_manager_create == <<>>

pod_probe_manager_free == prManager # <<>> /\ prManager' = pod_probe_manager_create

pod_probe_manager_add_probe(config) ==
    /\ Len(prManager) < PrManaged
    /\ prManager' = Append(prManager, [config |-> config, state |-> Fresh(FALSE)])

\* The HTTP and the exec handler are stubs.
execute_http_probe == {Ok}
execute_tcp_probe  == {Ok, Failure, "ERROR"}
execute_exec_probe == {Ok}

pod_probe_execute(config) ==
    CASE config.handler = "http" -> execute_http_probe
      [] config.handler = "tcp"  -> execute_tcp_probe
      [] config.handler = "exec" -> execute_exec_probe
      [] OTHER                   -> {"ERROR"}

\* Mutation: a failure does not interrupt a run of successes.
pod_probe_update_result_keeps(i, result) ==
    LET c == prManager[i].config
        s == Counted(prManager[i].state, result = Ok, c.up, c.down)
        n == [s EXCEPT !.succ = prManager[i].state.succ + IF result = Ok THEN 1 ELSE 0]
    IN  /\ Len(prManager[i].state.seen) < PrRuns
        /\ prManager' = [prManager EXCEPT ![i].state =
               [n EXCEPT !.last = result,
                         !.flag = IF result = Ok THEN @ \/ n.succ >= c.up
                                                 ELSE @ /\ n.fail < c.down]]

\* Every result but success counts as a failure.
pod_probe_update_result(i, result) ==
    LET c == prManager[i].config
        s == Counted(prManager[i].state, result = Ok, c.up, c.down)
    IN  /\ Len(prManager[i].state.seen) < PrRuns
        /\ prManager' = [prManager EXCEPT ![i].state =
               [s EXCEPT !.last = result,
                         !.flag = IF result = Ok THEN @ \/ s.succ >= c.up
                                                 ELSE @ /\ s.fail < c.down]]

Passed(type) == \A i \in DOMAIN prManager : prManager[i].config.type = type => prManager[i].state.flag

pod_probe_is_startup_complete == Passed("STARTUP")
pod_probe_is_ready == Passed("STARTUP") /\ Passed("READINESS")
pod_probe_is_alive == Passed("LIVENESS")

\* The state of the first probe of the type, the empty set when there is none.
pod_probe_get_state(type) ==
    LET found == {i \in DOMAIN prManager : prManager[i].config.type = type}
    IN  IF found = {} THEN {} ELSE {prManager[Min(found)].state}

pod_probe_get_stats ==
    LET passing == {i \in DOMAIN prManager : prManager[i].state.flag}
    IN  [total |-> Len(prManager), passing |-> Cardinality(passing),
         failing |-> Len(prManager) - Cardinality(passing)]

PrManagerNext ==
    /\ \/ pod_probe_manager_free
       \/ \E c \in PrConfigs : pod_probe_manager_add_probe(c)
       \/ \E i \in DOMAIN prManager :
             \E r \in pod_probe_execute(prManager[i].config) : pod_probe_update_result(i, r)
    /\ UNCHANGED <<prPod, prTable, prKubelet>>

---------------------------------------------------------------------------
(* apiserver/probes.c: pod_probes_t.                                       *)

NoProbe == [handler |-> "none", delay |-> 0, up |-> 0, down |-> 0]

\* The default of a spec, before its handler and its timing are set.
probe_spec_new == [handler |-> "http", delay |-> 0, up |-> 1, down |-> 3]

probe_spec_set_http_handler(spec) == [spec EXCEPT !.handler = "http"]
probe_spec_set_tcp_handler(spec)  == [spec EXCEPT !.handler = "tcp"]
probe_spec_set_exec_handler(spec) == [spec EXCEPT !.handler = "exec"]
probe_spec_set_timing(spec, delay, up, down) ==
    [spec EXCEPT !.delay = delay, !.up = up, !.down = down]

\* A spec as its caller builds it.
SpecFor(s) ==
    LET timed == probe_spec_set_timing(probe_spec_new, s.delay, s.up, s.down)
    IN  CASE s.handler = "tcp"  -> probe_spec_set_tcp_handler(timed)
          [] s.handler = "exec" -> probe_spec_set_exec_handler(timed)
          [] OTHER              -> probe_spec_set_http_handler(timed)

probe_status_new(flag) == Fresh(flag)

\* probes->is_ready and the like are kept as the flag of the status.
pod_probes_new ==
    [STARTUP   |-> [spec |-> NoProbe, status |-> probe_status_new(FALSE)],
     READINESS |-> [spec |-> NoProbe, status |-> probe_status_new(FALSE)],
     LIVENESS  |-> [spec |-> NoProbe, status |-> probe_status_new(TRUE)],
     age |-> 0]

pod_probes_free == prPod # pod_probes_new /\ prPod' = pod_probes_new

\* The status of the spec that is replaced stays, with its counters.
SetProbe(type, s) == prPod' = [prPod EXCEPT ![type].spec = SpecFor(s)]

pod_probes_set_startup_probe(s)   == SetProbe("STARTUP", s)
pod_probes_set_readiness_probe(s) == SetProbe("READINESS", s)
pod_probes_set_liveness_probe(s)  == SetProbe("LIVENESS", s)

execute_http_probe_curl == {Ok, Failure, Unknown}
execute_tcp_probe_local == {Ok, Failure}
execute_exec_probe_shell == {Ok, Failure, Unknown}

Executed(spec) ==
    CASE spec.handler = "http" -> execute_http_probe_curl
      [] spec.handler = "tcp"  -> execute_tcp_probe_local
      [] spec.handler = "exec" -> execute_exec_probe_shell

probe_status_record_success(s, up, down) == [Counted(s, TRUE, up, down) EXCEPT !.last = Ok]
probe_status_record_failure(s, up, down) == [Counted(s, FALSE, up, down) EXCEPT !.last = Failure]

\* An unknown result changes nothing; up and down are the thresholds used.
Record(type, result, up, down) ==
    LET old == prPod[type].status
        won == probe_status_record_success(old, up, down)
        lost == probe_status_record_failure(old, up, down)
    IN  /\ prPod[type].spec # NoProbe
        /\ MayRun([t \in ProbeTypes |-> prPod[t].status])
        /\ prPod' = [prPod EXCEPT ![type].status =
               CASE result = Ok      -> [won EXCEPT !.flag = @ \/ won.succ >= up]
                 [] result = Failure -> [lost EXCEPT !.flag = @ /\ lost.fail < down]
                 [] OTHER            -> old]

\* Completed once, the startup never counts as incomplete again.
pod_probe_startup(result) ==
    /\ prPod.age >= prPod["STARTUP"].spec.delay
    /\ Record("STARTUP", result, prPod["STARTUP"].spec.up, Never)

\* Not before the startup is complete; one failure is enough.
pod_probe_readiness(result) ==
    /\ prPod["STARTUP"].spec # NoProbe => prPod["STARTUP"].status.flag
    /\ Record("READINESS", result, prPod["READINESS"].spec.up, 1)

\* One success is enough.
pod_probe_liveness(result) == Record("LIVENESS", result, 1, prPod["LIVENESS"].spec.down)

pod_startup_complete == prPod["STARTUP"].spec # NoProbe => prPod["STARTUP"].status.flag
pod_is_ready == prPod["READINESS"].spec # NoProbe => prPod["READINESS"].status.flag
pod_is_alive == prPod["LIVENESS"].spec # NoProbe => prPod["LIVENESS"].status.flag

PodAges == prPod.age = 0 /\ prPod' = [prPod EXCEPT !.age = 1]

PrPodNext ==
    /\ \/ pod_probes_free \/ PodAges
       \/ \E s \in PrSpecs : \/ pod_probes_set_startup_probe(s)
                             \/ pod_probes_set_readiness_probe(s)
                             \/ pod_probes_set_liveness_probe(s)
       \/ \E type \in ProbeTypes : prPod[type].spec # NoProbe /\
             \E r \in Executed(prPod[type].spec) :
                \/ type = "STARTUP" /\ pod_probe_startup(r)
                \/ type = "READINESS" /\ pod_probe_readiness(r)
                \/ type = "LIVENESS" /\ pod_probe_liveness(r)
    /\ UNCHANGED <<prManager, prTable, prKubelet>>

---------------------------------------------------------------------------
(* kubelet/probe_executor.c: the table g_probes.                           *)

\* What a handler can find: only the HTTP one looks at anything.
probe_http_handler == {Ok, Failure, Unknown}
probe_tcp_handler  == {Ok, Unknown}
probe_exec_handler == {Ok, Unknown}

probe_execute == probe_http_handler \cup probe_tcp_handler \cup probe_exec_handler \cup {Unknown}

find_probe_state(name) == LET found == {i \in DOMAIN prTable : prTable[i].name = name}
                          IN  IF found = {} THEN 0 ELSE Min(found)

\* The thresholds are 1 and 3, whatever the configuration of the probe says.
UpThreshold == 1
DownThreshold == 3

NewRow(name) == [name |-> name, STARTUP |-> Fresh(FALSE), READINESS |-> Fresh(FALSE),
                 LIVENESS |-> Fresh(FALSE)]

probe_register_container(name) ==
    IF Len(prTable) < PrTableMax THEN Append(prTable, NewRow(name)) ELSE prTable

\* An unknown result leaves the counters alone.
update_probe_state(s, result) ==
    LET n == Counted(s, result = Ok, UpThreshold, DownThreshold)
    IN  CASE result = Ok      -> [n EXCEPT !.last = result, !.flag = @ \/ n.succ >= UpThreshold]
          [] result = Failure -> [n EXCEPT !.last = result, !.flag = @ /\ n.fail < DownThreshold]
          [] OTHER            -> [s EXCEPT !.last = result]

\* Find the row, or register it; with a full table nothing is probed.
Check(name, type, result) ==
    LET found == find_probe_state(name)
        table == IF found = 0 THEN probe_register_container(name) ELSE prTable
        row   == IF found = 0 THEN Len(prTable) + 1 ELSE found
    IN  /\ row \in DOMAIN table /\ MayRun(table[row])
        /\ prTable' = [table EXCEPT ![row][type] = update_probe_state(@, result)]

probe_check_startup(name, result)   == Check(name, "STARTUP", result)
probe_check_readiness(name, result) == Check(name, "READINESS", result)
probe_check_liveness(name, result)  == Check(name, "LIVENESS", result)

probe_get_result(name, type) ==
    LET found == find_probe_state(name) IN IF found = 0 THEN Unknown ELSE prTable[found][type].last

probe_cleanup == prTable # <<>> /\ prTable' = <<>>

\* A container may be registered again: the first row is the one found.
Register(name) == Len(prTable) < PrTableMax /\ prTable' = probe_register_container(name)

PrTableNext ==
    /\ \/ probe_cleanup
       \/ \E name \in PrNames : Register(name)
       \/ \E name \in PrNames, r \in probe_execute : \/ probe_check_startup(name, r)
                                                    \/ probe_check_readiness(name, r)
                                                    \/ probe_check_liveness(name, r)
    /\ UNCHANGED <<prManager, prPod, prKubelet>>

---------------------------------------------------------------------------
(* kubelet/health_probe.c: container_health_t.                             *)

health_probe_execute_http == {Ok, Failure, Unknown}
health_probe_execute_tcp  == {Ok, Failure, Unknown}
health_probe_execute_exec == {Ok}

\* The first enabled handler is run.
health_probe_execute == health_probe_execute_exec \cup health_probe_execute_http
                        \cup health_probe_execute_tcp \cup {Unknown}

health_probe_state_create == [Fresh(FALSE) EXCEPT !.last = Unknown]

\* Every result but success counts as a failure.
health_probe_state_update(s, result) ==
    LET n == Counted(s, result = Ok, UpThreshold, DownThreshold)
    IN  [n EXCEPT !.last = result, !.flag = IF result = Ok THEN @ \/ n.succ >= UpThreshold
                                                          ELSE @ /\ n.fail < DownThreshold]

\* `enabled' is 0 in every state the code creates, so the startup counts as
\* completed and pod readiness does not depend on the probes.
Enabled == FALSE

health_probe_startup_completed(h) == Enabled => h.STARTUP.flag

health_container_create ==
    [STARTUP |-> health_probe_state_create, READINESS |-> health_probe_state_create,
     LIVENESS |-> health_probe_state_create, state |-> "WAITING",
     is_ready |-> FALSE, is_alive |-> TRUE, restart_count |-> 0]

health_container_update(h) ==
    [h EXCEPT !.is_ready = health_probe_startup_completed(h) /\ h.READINESS.flag,
              !.is_alive = h.LIVENESS.flag]

health_container_should_restart(h) == ~h.is_alive /\ h.restart_count < 3

health_container_reset_restart_count(h) == [h EXCEPT !.restart_count = 0]

\* The probes start again; is_alive keeps its value until the next update.
health_container_handle_restart(h) ==
    [health_container_create EXCEPT !.is_alive = h.is_alive, !.restart_count = h.restart_count + 1]

---------------------------------------------------------------------------
(* kubelet/kubelet_lifecycle.c: pod_container_state_t.  `vm' says whether  *)
(* a virtual machine of the pod runs and whether state->vm_id is its name: *)
(* both names end in the second they were made in.                         *)

kubelet_pod_state_create ==
    [state |-> "INIT", is_ready |-> FALSE, vm |-> "none", named |-> FALSE,
     containers |-> [i \in 1 .. PrContainers |-> health_container_create]]

kubelet_pod_state_free ==
    prKubelet.state \in {"SUCCEEDED", "FAILED"} /\ prKubelet' = kubelet_pod_state_create

kubelet_pod_init == prKubelet.state = "INIT" /\ prKubelet' = [prKubelet EXCEPT !.state = "WAITING"]

AllContainers(c, is) == [i \in DOMAIN c |-> [c[i] EXCEPT !.state = is]]

\* The machine cannot be created or started, or it runs.
kubelet_pod_start ==
    /\ prKubelet.state = "WAITING"
    /\ \/ prKubelet' = [prKubelet EXCEPT !.state = "FAILED"]
       \/ \E same \in BOOLEAN :
             prKubelet' = [prKubelet EXCEPT !.state = "RUNNING", !.vm = "running", !.named = same,
                                            !.containers = AllContainers(@, "RUNNING")]

\* A pod is ready when no enabled probe says otherwise, that is, always.
kubelet_pod_check_health ==
    prKubelet' = [prKubelet EXCEPT
        !.is_ready = \A i \in DOMAIN prKubelet.containers : Enabled =>
                         /\ prKubelet.containers[i].STARTUP.flag
                         /\ prKubelet.containers[i].is_ready,
        !.containers = [i \in DOMAIN @ |-> health_container_update(@[i])]]

\* The phase a status update reports.
kubelet_pod_update_status ==
    CASE prKubelet.state = "WAITING"   -> "Pending"
      [] prKubelet.state = "RUNNING"   -> "Running"
      [] prKubelet.state = "SUCCEEDED" -> "Succeeded"
      [] prKubelet.state = "FAILED"    -> "Failed"
      [] OTHER                         -> "Unknown"

\* Stops the machine that is called state->vm_id, if there is one.
kubelet_pod_terminate ==
    /\ prKubelet.state \in {"WAITING", "RUNNING"}
    /\ prKubelet' = [prKubelet EXCEPT !.state = "SUCCEEDED",
                                      !.vm = IF prKubelet.named THEN "none" ELSE @]

kubelet_pod_check_restart_needed ==
    \E i \in DOMAIN prKubelet.containers : health_container_should_restart(prKubelet.containers[i])

kubelet_container_restart(i) ==
    /\ kubelet_pod_check_restart_needed
    /\ health_container_should_restart(prKubelet.containers[i])
    /\ prKubelet' = [prKubelet EXCEPT !.containers[i] = health_container_handle_restart(@)]

kubelet_container_stop(i) ==
    prKubelet' = [prKubelet EXCEPT !.containers[i].state = "TERMINATED"]

kubelet_container_check_health(i) ==
    prKubelet' = [prKubelet EXCEPT !.containers[i] = health_container_update(@)]

ResetRestarts(i) ==
    prKubelet' = [prKubelet EXCEPT !.containers[i] = health_container_reset_restart_count(@)]

ProbeRuns(i, type, result) ==
    /\ MayRun(prKubelet.containers[i])
    /\ prKubelet' = [prKubelet EXCEPT !.containers[i][type] = health_probe_state_update(@, result)]

kubelet_pod_is_ready == prKubelet.is_ready

PrKubeletNext ==
    /\ \/ kubelet_pod_state_free \/ kubelet_pod_init \/ kubelet_pod_start
       \/ kubelet_pod_check_health \/ kubelet_pod_terminate
       \/ \E i \in DOMAIN prKubelet.containers :
             \/ kubelet_container_restart(i) \/ kubelet_container_stop(i)
             \/ kubelet_container_check_health(i) \/ ResetRestarts(i)
             \/ \E type \in ProbeTypes, r \in health_probe_execute : ProbeRuns(i, type, r)
    /\ UNCHANGED <<prManager, prPod, prTable>>

---------------------------------------------------------------------------
(* kubelet/probe_handler.c: a result is made for one execution.            *)

probe_result_create == [success |-> FALSE, failure_count |-> 0]

probe_result_set_success(r, success) ==
    [r EXCEPT !.success = success, !.failure_count = @ + IF success THEN 0 ELSE 1]

\* The client cannot be set up, or the probe says yes or no.
probe_execute_http ==
    {probe_result_create} \cup {probe_result_set_success(probe_result_create, b) : b \in BOOLEAN}
probe_execute_tcp ==
    {probe_result_create} \cup {probe_result_set_success(probe_result_create, b) : b \in BOOLEAN}
probe_execute_exec ==
    {probe_result_create} \cup {probe_result_set_success(probe_result_create, b) : b \in BOOLEAN}
probe_execute_grpc == {probe_result_set_success(probe_result_create, TRUE)}

HandlerResults ==
    probe_execute_http \cup probe_execute_tcp \cup probe_execute_exec \cup probe_execute_grpc

probe_update_container_health(startup, readiness, liveness) ==
    CASE ~liveness.success /\ liveness.failure_count >= 3   -> "DEAD"
      [] ~startup.success                                   -> "STARTING"
      [] ~readiness.success /\ readiness.failure_count >= 1 -> "NOT_READY"
      [] OTHER                                              -> "READY"

---------------------------------------------------------------------------
(* Initial states and properties.                                          *)

PrInit ==
    /\ prManager = pod_probe_manager_create /\ prPod = pod_probes_new
    /\ prTable = <<>> /\ prKubelet = kubelet_pod_state_create

\* Where a run of results reached the threshold in force at its end.
Reached(seen, i, ok, n) == \A j \in i - Max({1, n}) + 1 .. i : j >= 1 /\ seen[j].ok = ok
Ups(seen) == {i \in DOMAIN seen : seen[i].ok /\ Reached(seen, i, TRUE, seen[i].up)}
Downs(seen) == {i \in DOMAIN seen : ~seen[i].ok /\ Reached(seen, i, FALSE, seen[i].down)}

\* What the flag should be: decided by the last run that reached a threshold.
Verdict(seen, start) ==
    LET decided == Ups(seen) \cup Downs(seen)
    IN  IF decided = {} THEN start ELSE Max(decided) \in Ups(seen)

\* Every flag of the four implementations says what the results since its
\* probe was created say: the last run of successes or of failures that was
\* long enough decides, whatever came after it.  The code never looks at the
\* sequence, only at two counters (health_probe.c:223, probes.c:259,
\* probe_executor.c:138, kubelet/health_probe.c:189).  And probe_handler.c,
\* which makes a new result for every execution, never finds a container dead.
VerdictOfTheResults ==
    /\ \A i \in DOMAIN prManager :
          prManager[i].state.flag = Verdict(prManager[i].state.seen, FALSE)
    /\ \A type \in ProbeTypes :
          prPod[type].status.flag = Verdict(prPod[type].status.seen, type = "LIVENESS")
    /\ \A i \in DOMAIN prTable, type \in ProbeTypes :
          prTable[i][type].flag = Verdict(prTable[i][type].seen, FALSE)
    /\ \A i \in DOMAIN prKubelet.containers, type \in ProbeTypes :
          prKubelet.containers[i][type].flag = Verdict(prKubelet.containers[i][type].seen, FALSE)
    /\ \A s \in HandlerResults, r \in HandlerResults, l \in HandlerResults :
          probe_update_container_health(s, r, l) # "DEAD"

=============================================================================
