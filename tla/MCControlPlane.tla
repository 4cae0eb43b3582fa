--------------------------- MODULE MCControlPlane ---------------------------
(***************************************************************************)
(* The parts of the cluster that keep their state in memory, for TLC: the  *)
(* objects of the API server with every kind and verb, and the managers    *)
(* and controllers around it.  They share no state with one another, so    *)
(* which of them moves is chosen at the start: their state spaces add up   *)
(* and do not multiply.                                                    *)
(***************************************************************************)
EXTENDS MCApiObjects, Rbac, Quota, ServerTables, ServiceRegistry, WatchSessions,
        JobManager, StatefulSetManager, Storage, BatchControllers,
        NetworkControl, NodeLifecycle, ClusterCleanup

VARIABLE focus

ServerParts == {"objects", "roles", "audit", "authz", "quotas", "quota controller",
                "limit ranges", "cache", "connections", "events", "resources", "webhooks", "stores", "registry",
                "watches", "subscriptions"}
ManagerParts == {"jobs", "stateful sets", "volumes", "job table", "cron jobs", "autoscalers"}
ClusterParts == {"addresses", "policies", "taints", "namespaces", "tunnel", "lifecycle",
                 "monitor", "budgets", "collector", "propagation"}
\* Values of the constants.
MCRules ==
    {[verbs |-> {"get"}, api_groups |-> {""}, resources |-> {"*"}, resource_names |-> {}],
     [verbs |-> {"*"}, api_groups |-> {"*"}, resources |-> {"pods"}, resource_names |-> {"p1"}]}
MCSubjects == {[type |-> "User", name |-> "u"], [type |-> "Group", name |-> "g"]}
MCRequest(user, groups, verb, ns, name) ==
    [user |-> user, system |-> FALSE, groups |-> groups, verb |-> verb, api_group |-> "",
     resource |-> "pods", namespace |-> ns, name |-> name]
MCRequests == {MCRequest("u", {}, "get", "a", "p1"), MCRequest("u", {"g"}, "create", "a", "NULL"),
               MCRequest("v", {"g"}, "get", "NULL", "p2")}

MCHard(cpu, memory) ==
    [Nothing EXCEPT !.cpu = cpu, !.memory = memory, !.pods = 1, !.services = 1]
MCHards == {MCHard(500, 0), MCHard(0, 200000000)}
MCQuantity(v, u) == [value |-> v, unit |-> u]
MCContainer(request, limit) ==
    [cpu_request |-> request, cpu_limit |-> limit,
     memory_request |-> MCQuantity(1, "Mi"), memory_limit |-> MCQuantity(0, "")]
MCPods == {<<MCContainer(MCQuantity(200, "m"), MCQuantity(0, "m")),
             MCContainer(MCQuantity(0, "m"), MCQuantity(1, ""))>>, <<>>}
MCItem(type, min, max, request, limit) ==
    [type |-> type, min |-> min, max |-> max, default_request |-> request, default |-> limit]
MCItems == {<<MCItem("Container", 1, 3, 1, 3), MCItem("Pod", 0, 2, 0, 0)>>,
            <<MCItem("Pod", 0, 2, 0, 0)>>,
            <<MCItem("Container", 2, 2, 2, 2), MCItem("PersistentVolumeClaim", 0, 1, 0, 0)>>,
            <<>>}
MCLimits == {[request |-> r, limit |-> l, storage |-> s] : r \in {0, 1}, l \in {0, 3}, s \in {0, 2}}

MCJobSpec(completions, backoff_limit) ==
    [completions |-> completions, parallelism |-> 1,
     backoff_limit |-> backoff_limit, suspend |-> FALSE]
MCJobSpecs == {MCJobSpec(1, 0), MCJobSpec(2, 1)}
MCSetSpec(replicas, ordered, service) ==
    [replicas |-> replicas, ordered |-> ordered, service_name |-> service, partition |-> 0,
     volume_template_count |-> 1]
MCSetSpecs == {MCSetSpec(2, TRUE, TRUE), MCSetSpec(0, FALSE, TRUE), MCSetSpec(1, TRUE, FALSE)}
MCClassRows == {[policy |-> "Recycle", is_default |-> FALSE, hostpath |-> FALSE]}
MCBatchSpecs == {[completions |-> 1, backoff_limit |-> 1, ttl |-> 0],
                 [completions |-> 1, backoff_limit |-> 0, ttl |-> 1]}
MCHpas == {[min |-> 1, max |-> 3, cpu |-> 50, up |-> 1, down |-> 2,
            up_percent |-> 50, down_percent |-> 50],
           [min |-> 2, max |-> 2, cpu |-> 80, up |-> 0, down |-> 0,
            up_percent |-> 0, down_percent |-> 100]}

MCRule(ports, cidrs, pods) == [ports |-> ports, cidrs |-> cidrs, pods |-> pods]
MCPolicy(name, ok, ingress, egress) ==
    [name |-> name, ns |-> "a", ports_ok |-> ok, rules |-> [ingress |-> ingress, egress |-> egress]]
MCPolicies == {MCPolicy("p", TRUE, {MCRule({80}, {}, FALSE)}, {}),
               MCPolicy("q", TRUE, {MCRule({}, {"ip1"}, FALSE), MCRule({443}, {}, TRUE)},
                        {MCRule({}, {}, FALSE)}),
               MCPolicy("r", FALSE, {}, {})}
MCFlows == [dest_ns : {"a", "b"}, labelled : BOOLEAN, direction : {"ingress", "egress"},
            port : {80, 443}, ip : {"ip1", "ip2"}]
MCTaints == {[key |-> k, effect |-> "NoSchedule"] : k \in {"k", "m"}}
quotaVars == <<qtVars, ctlVars, lrVars>>
serverVars == <<vars, rbVars, quotaVars, svVars, srVars, sessionVars>>
managerVars == <<jobVars, ssVars, stVars, bcVars>>
clusterVars == <<ntVars, nodeVars, clVars>>
allVars == <<focus, serverVars, managerVars, clusterVars>>

ControlInit ==
    /\ focus \in ServerParts \cup ManagerParts \cup ClusterParts
    /\ Init /\ RbInit /\ QuotaInit /\ SvInit /\ service_registry_new /\ SessionInit
    /\ job_manager_init /\ statefulset_manager_init /\ StInit /\ BcInit
    /\ NtInit /\ NodeInit /\ ClInit

-----------------------------------------------------------------------------
RbacSteps ==
    \/ focus = "roles" /\ RbTableNext
    \/ focus = "audit" /\ RbAuditNext
    \/ focus = "authz" /\ AzNext

QuotaSteps ==
    \/ focus = "quotas" /\ QtNext /\ UNCHANGED <<ctlVars, lrVars>>
    \/ focus = "quota controller" /\ CtlNext /\ UNCHANGED <<qtVars, lrVars>>
    \/ focus = "limit ranges" /\ LrNext /\ UNCHANGED <<qtVars, ctlVars>>

TableSteps ==
    \/ focus = "cache" /\ RcNext
    \/ focus = "connections" /\ PoolNext
    \/ focus = "events" /\ EventNext
    \/ focus = "resources" /\ CrdNext
    \/ focus = "webhooks" /\ HookNext
    \/ focus = "stores" /\ EpNext

WatchSteps ==
    \/ focus = "watches" /\ WsNext
    \/ focus = "subscriptions" /\ EsNext

ServerSteps ==
    \/ focus = "objects" /\ Next /\ UNCHANGED <<rbVars, quotaVars, svVars, srVars, sessionVars>>
    \/ RbacSteps /\ UNCHANGED <<vars, quotaVars, svVars, srVars, sessionVars>>
    \/ QuotaSteps /\ UNCHANGED <<vars, rbVars, svVars, srVars, sessionVars>>
    \/ TableSteps /\ UNCHANGED <<vars, rbVars, quotaVars, srVars, sessionVars>>
    \/ focus = "registry" /\ SrNext /\ UNCHANGED <<vars, rbVars, quotaVars, svVars, sessionVars>>
    \/ WatchSteps /\ UNCHANGED <<vars, rbVars, quotaVars, svVars, srVars>>

BatchSteps ==
    \/ focus = "job table" /\ JobTableNext
    \/ focus = "cron jobs" /\ CronNext
    \/ focus = "autoscalers" /\ HpaNext

ManagerSteps ==
    \/ focus = "jobs" /\ JobNext /\ UNCHANGED <<ssVars, stVars, bcVars>>
    \/ focus = "stateful sets" /\ SsNext /\ UNCHANGED <<jobVars, stVars, bcVars>>
    \/ focus = "volumes" /\ StNext /\ UNCHANGED <<jobVars, ssVars, bcVars>>
    \/ BatchSteps /\ UNCHANGED <<jobVars, ssVars, stVars>>

NetworkSteps ==
    \/ focus = "addresses" /\ NcNext /\ UNCHANGED <<npVars, tnVars, nsVars, vxVars, ntClock>>
    \/ focus = "policies" /\ NpNext /\ UNCHANGED <<ncVars, tnVars, nsVars, vxVars, ntClock>>
    \/ focus = "taints" /\ TnNext /\ UNCHANGED <<ncVars, npVars, nsVars, vxVars, ntClock>>
    \/ focus = "namespaces" /\ NsNext /\ UNCHANGED <<ncVars, npVars, tnVars, vxVars>>
    \/ focus = "tunnel" /\ VxNext /\ UNCHANGED <<ncVars, npVars, tnVars, nsVars>>

NodeSteps ==
    \/ focus = "lifecycle" /\ NlNext /\ UNCHANGED <<nmVars, evVars, pdbVars>>
    \/ focus = "monitor" /\ NmNext /\ UNCHANGED <<nlVars, evVars, pdbVars>>
    \/ focus = "budgets" /\ PdbNext /\ UNCHANGED <<nlVars, nmVars, evVars, nlClock>>

CleanupSteps ==
    \/ focus = "collector" /\ GcNext /\ UNCHANGED <<nsRows, cpRules, cpEvents>>
    \/ focus = "propagation" /\ CpNext /\ UNCHANGED <<nsRows, gcRows>>

ClusterSteps ==
    \/ NetworkSteps /\ UNCHANGED <<nodeVars, clVars>>
    \/ NodeSteps /\ UNCHANGED <<ntVars, clVars>>
    \/ CleanupSteps /\ UNCHANGED <<ntVars, nodeVars>>

ControlNext ==
    /\ UNCHANGED focus
    /\ \/ ServerSteps /\ UNCHANGED <<managerVars, clusterVars>>
       \/ ManagerSteps /\ UNCHANGED <<serverVars, clusterVars>>
       \/ ClusterSteps /\ UNCHANGED <<serverVars, managerVars>>

ControlSpec == ControlInit /\ [][ControlNext]_allVars

-----------------------------------------------------------------------------
\* What a part keeps and decides is a question of the states where that part moves: in all
\* the others its tables are as they are at the start.

\* rbac_manager.c and authz.c: both engines answer by their tables and by nothing else, and
\* neither forgets what it has recorded or granted (RbacDecision, RbHistoryKept).
AuthorizationHolds == focus \in {"roles", "audit", "authz"} => RbacDecision /\ RbHistoryKept

\* resource_quota.c, quota_controller.c, limitrange.c: a quota is passed no further than the
\* callers between check and charge can take it, and a limit range does not refuse its own
\* defaults (QuotaBounded, DefaultsPass).
LimitsHold ==
    focus \in {"quotas", "quota controller", "limit ranges"} => QuotaBounded /\ DefaultsPass

\* job_controller.c, cron_scheduler.c, hpa_controller.c: a cleanup removes the finished
\* jobs and only those, and the autoscaler steps towards its target inside its limits
\* (CleanupExact, RecommendsTheRightWay).
BatchTables ==
    focus \in {"job table", "cron jobs", "autoscalers"} => CleanupExact /\ RecommendsTheRightWay

\* network_controller.c, policy_enforcer.c, netns_manager.c, vxlan_tunnel.c: no address is
\* given out twice, the order of the policies decides nothing, and of the namespaces only
\* the stale ones go (ServiceIpsUnique, PolicyVerdict, StaleOnesGo).
NetworkTables ==
    focus \in {"addresses", "policies", "namespaces", "tunnel"} =>
        ServiceIpsUnique /\ PolicyVerdict /\ StaleOnesGo

\* node_monitor.c, node_lifecycle_controller.c, pod_eviction_controller.c: a silence is told
\* of once, the health kept is that of the last checks, and a disruption needs its budget
\* (ToldOncePerSilence, HealthAgrees, BudgetsDecide).
NodesWatched ==
    focus \in {"lifecycle", "monitor", "budgets"} =>
        ToldOncePerSilence /\ HealthAgrees /\ BudgetsDecide

\* gc_controller.c, config_propagation_controller.c: nothing that is owned is collected, and
\* no target hangs on a rule that is never looked at (OrphansAreUnowned, LaterRulesAreEmpty).
CleanupTables ==
    focus \in {"collector", "propagation"} => OrphansAreUnowned /\ LaterRulesAreEmpty

\* request_cache.c, connection_pool.c: the cache accounts for what it holds, and a connection
\* has one user at a time (CacheAccounted, ConnectionHeldOnce).
TablesAccounted == focus \in {"cache", "connections"} => CacheAccounted /\ ConnectionHeldOnce

=============================================================================
