----------------------------- MODULE MCServices -----------------------------
(***************************************************************************)
(* Services that share nothing with one another, for TLC: the circuit      *)
(* breaker, the shutdown manager, the leader election, the etcd manager,   *)
(* the evictions, the table of namespaces, the workload controllers and    *)
(* the programs of a worker node.  Which of them is looked at is chosen at *)
(* the start, so that their state spaces add up and do not multiply.       *)
(***************************************************************************)
EXTENDS CircuitBreaker, GracefulShutdown, Coordination, NodeLifecycle, ClusterCleanup, Workloads, NodeAgents

\* max_restarts of the kubelet's three components, cut down.
ThreeRestarts == <<2, 1, 1>>

VARIABLE focus

allVars == <<focus, cbVars, shVars, haVars, emVars, nodeVars, clVars, wlVars, agVars>>

Init ==
    /\ focus \in {"breaker", "shutdown", "election", "etcd manager", "eviction",
                  "namespaces", "workloads", "agents"}
    /\ CbInit /\ ShInit /\ HaInit /\ EmInit /\ NodeInit /\ ClInit /\ WlInit /\ AgInit
    \* what a service that never moves starts with makes no difference
    /\ focus # "workloads" => wlKind = CHOOSE kind \in WlKinds : TRUE
    /\ focus # "workloads" => ~wlOmits
    /\ focus # "election" => haUp
    /\ focus # "agents" => agProgram = "agent"

Breaking == focus = "breaker" /\ CbNext /\ UNCHANGED <<focus, shVars, haVars, emVars, nodeVars, clVars, wlVars, agVars>>
Shutdown == focus = "shutdown" /\ ShNext /\ UNCHANGED <<focus, cbVars, haVars, emVars, nodeVars, clVars, wlVars, agVars>>
Electing == focus = "election" /\ HaNext /\ UNCHANGED <<focus, cbVars, shVars, emVars, nodeVars, clVars, wlVars, agVars>>
Managing == focus = "etcd manager" /\ EmNext /\ UNCHANGED <<focus, cbVars, shVars, haVars, nodeVars, clVars, wlVars, agVars>>
EvictingPods ==
    /\ focus = "eviction" /\ EvNext
    /\ UNCHANGED <<focus, cbVars, shVars, haVars, emVars, nlVars, nmVars, pdbVars, nlClock, clVars, wlVars, agVars>>
DeletingNamespaces ==
    /\ focus = "namespaces" /\ NsTableNext
    /\ UNCHANGED <<focus, cbVars, shVars, haVars, emVars, nodeVars, gcRows, cpRules, cpEvents, wlVars, agVars>>
ServingWorkloads == focus = "workloads" /\ WlNext /\ UNCHANGED <<focus, cbVars, shVars, haVars, emVars, nodeVars, clVars, agVars>>
RunningAgents ==
    /\ focus = "agents" /\ AgNext
    /\ UNCHANGED <<focus, cbVars, shVars, haVars, emVars, nodeVars, clVars, wlVars>>

Next == Breaking \/ Shutdown \/ Electing \/ Managing \/ EvictingPods \/ DeletingNamespaces \/ ServingWorkloads
        \/ RunningAgents

ServicesSpec == Init /\ [][Next]_allVars

-----------------------------------------------------------------------------
\* Each service has the fairness of its own threads and is owed no other.  A formula of
\* fairness is the premise of the property that needs it, and names the focus where the
\* service has something to do at the start.
BreakerFairness ==
    /\ WF_cbVars(focus = "breaker" /\ Tick)
    /\ \A t \in Requesters :
          /\ WF_cbVars(focus = "breaker" /\ circuit_breaker_record_success(t))
          /\ SF_cbVars(focus = "breaker" /\ circuit_breaker_allow_request(t))

ElectionFairness == \A m \in HaManagers : WF_haVars(ha_election_thread(m))
ManagerFairness == SF_emVars(etcd_manager_health_check_loop) /\ WF_emVars(ShutdownEnds)
EvictionFairness == WF_evVars(EvictionTime) /\ WF_evVars(pod_eviction_controller_thread)
NamespaceFairness ==
    WF_nsRows(NsTime) /\ WF_nsRows(namespace_controller_cleanup_orphaned_namespaces)
WorkloadFairness ==
    /\ WF_wlVars(focus = "workloads" /\ LoopStep)
    /\ WF_wlVars(focus = "workloads" /\ IntervalPasses)
\* The thread keeps running: requests are answered or time out, and sleeps end.
AgentFairness == WF_agVars(focus = "agents" /\ (KubeletStep \/ AgentStep))

\* circuit_breaker.c: when requests stop failing the breaker closes, and its fields have
\* their types on the way (CbTypeOK, ClosesWhenServiceRecovers).
BreakerRecovers == []CbTypeOK /\ (BreakerFairness => ClosesWhenServiceRecovers)

\* graceful_shutdown.c and the programs of a node: a shutdown that was initiated calls its
\* handlers and comes to an end, and a signal in its loop ends a node's program, which stays
\* orderly until then (ShutdownCompletes, AgentStops, AgentOrderly).
ShutdownIsServed ==
    /\ ShFairness => ShutdownCompletes
    /\ AgentFairness => AgentStops
    /\ []AgentOrderly

\* ha_manager.c and etcd_manager.c: a leader that is cut off from etcd steps down, and the
\* shutdown of the etcd manager returns, whose thread has a client all the while
\* (CutOffLeaderStepsDown, ManagerShutdownReturns, ClientWhileInitialised).
ManagersLetGo ==
    /\ ElectionFairness => CutOffLeaderStepsDown
    /\ ManagerFairness => ManagerShutdownReturns
    /\ []ClientWhileInitialised

\* pod_eviction_controller.c: a requested eviction is carried out (EvictionServed).
EvictionIsServed == EvictionFairness => EvictionServed

\* namespace_controller.c: a terminating namespace is removed (NamespaceGoes).
NamespaceIsGone == NamespaceFairness => NamespaceGoes

\* statefulset_controller.c, daemonset_controller.c, apiserver/controllers.c: the pods that a
\* workload asks for are made (WorkloadServed).
WorkloadIsServed == WorkloadFairness => WorkloadServed

=============================================================================
