--------------------------- MODULE NodeLifecycle ---------------------------
(***************************************************************************)
(* How the control plane follows its nodes and takes pods off them:        *)
(* sirah/internal/controller/node_lifecycle_controller.c (health reports,  *)
(* cordon and drain), internal/monitor/node_monitor.c (the heartbeat       *)
(* monitor, whose thread drops its mutex around every callback) and        *)
(* sirah/internal/controller/pod_eviction_controller.c (disruption         *)
(* budgets, eviction requests and the thread that completes them).         *)
(***************************************************************************)
EXTENDS Integers, FiniteSets, SequencesExt

CONSTANTS
    NlNodes,        \* node names
    NlMaxNodes,     \* NODE_MAX_NODES
    NlMetrics,      \* health metrics kept of a node (10)
    NlTimeout,      \* NODE_HEARTBEAT_TIMEOUT and heartbeat_timeout_seconds
    NmThreads,      \* monitor threads that can be running
    NmCapacity,     \* heartbeat_capacity at the start (100)
    EvPods,         \* pods
    EvGrace,        \* grace period of a request, in seconds
    EvMax,          \* EVICTION_MAX_PODS
    PdbNames,       \* disruption budgets
    PdbValues,      \* policy values
    PdbMax,         \* EVICTION_MAX_PDBS
    NlCountBound,   \* bound: unhealthy checks counted
    NlTimeBound     \* bound: seconds counted

VARIABLES nlNodes, nmRows, nmPc, nmRunning, nmTold, nmFreed,
          evRows, evCount, pdbRows, pdbStatus, nlClock

nlVars == <<nlNodes>>
nmVars == <<nmRows, nmPc, nmRunning, nmTold, nmFreed>>
evVars == <<evRows, evCount>>
pdbVars == <<pdbRows, pdbStatus>>
nodeVars == <<nlVars, nmVars, evVars, pdbVars, nlClock>>

NodeTick == nlClock < NlTimeBound /\ nlClock' = nlClock + 1

---------------------------------------------------------------------------
(* node_lifecycle_controller.c.  nlNodes maps the registered names.         *)

node_lifecycle_controller_init == nlNodes = <<>>

Registered == DOMAIN nlNodes

\* A known node keeps its record.
node_lifecycle_register_node(n) ==
    /\ n \notin Registered /\ Cardinality(Registered) < NlMaxNodes
    /\ nlNodes' = [m \in Registered \cup {n} |->
                      IF m # n THEN nlNodes[m]
                      ELSE [state |-> "INITIALIZING", health |-> "UNKNOWN", bad |-> 0,
                            metrics |-> 0, beat |-> nlClock, cordoned |-> FALSE, draining |-> FALSE]]

node_lifecycle_unregister_node(n) ==
    /\ n \in Registered
    /\ nlNodes' = [m \in Registered \ {n} |-> nlNodes[m]]

node_lifecycle_node_heartbeat(n) ==
    /\ n \in Registered
    /\ nlNodes' = [nlNodes EXCEPT ![n].beat = nlClock,
                                  ![n].health = IF @ = "OFFLINE" THEN "UNKNOWN" ELSE @,
                                  ![n].bad = IF nlNodes[n].health = "OFFLINE" THEN 0 ELSE @]

\* Only the first ten reports of a node say anything about its health; a later one
\* takes a place in the ring and no more.
node_lifecycle_update_health(n, plenty) ==
    /\ n \in Registered /\ nlNodes[n].bad < NlCountBound
    /\ nlNodes' =
          IF nlNodes[n].metrics >= NlMetrics THEN nlNodes
          ELSE IF plenty
          THEN [nlNodes EXCEPT ![n].metrics = @ + 1, ![n].health = "HEALTHY",
                               ![n].bad = IF nlNodes[n].health # "HEALTHY" THEN 0 ELSE @]
          ELSE [nlNodes EXCEPT ![n].metrics = @ + 1, ![n].health = "UNHEALTHY", ![n].bad = @ + 1]

node_lifecycle_get_health(n) ==
    IF nlClock - nlNodes[n].beat > NlTimeout THEN "OFFLINE" ELSE nlNodes[n].health

node_lifecycle_list_nodes == Registered

node_lifecycle_list_unhealthy_nodes == {n \in Registered : nlNodes[n].health = "UNHEALTHY"}

node_lifecycle_list_offline_nodes == {n \in Registered : nlClock - nlNodes[n].beat > NlTimeout}

node_lifecycle_cordon_node(n) ==
    n \in Registered /\ nlNodes' = [nlNodes EXCEPT ![n].cordoned = TRUE]

node_lifecycle_uncordon_node(n) ==
    n \in Registered /\ nlNodes' = [nlNodes EXCEPT ![n].cordoned = FALSE]

\* Nothing ends a drain.
node_lifecycle_drain_node(n) ==
    /\ n \in Registered
    /\ nlNodes' = [nlNodes EXCEPT ![n].draining = TRUE, ![n].state = "DRAINING"]

node_lifecycle_get_node_state(n) == nlNodes[n].state

NlNext ==
    \/ /\ \E n \in NlNodes :
             \/ node_lifecycle_register_node(n) \/ node_lifecycle_unregister_node(n)
             \/ node_lifecycle_node_heartbeat(n)
             \/ \E plenty \in BOOLEAN : node_lifecycle_update_health(n, plenty)
             \/ node_lifecycle_cordon_node(n) \/ node_lifecycle_uncordon_node(n)
             \/ node_lifecycle_drain_node(n)
       /\ UNCHANGED nlClock
    \/ NodeTick /\ UNCHANGED nlVars

\* A node counted as unhealthy has a failed check behind it, a healthy one none, and the
\* list of the unhealthy has no other node: the counter and the status of
\* node_lifecycle_update_health agree whatever reports, heartbeats and re-registrations
\* come before.
HealthAgrees ==
    \A n \in Registered :
       /\ nlNodes[n].health = "HEALTHY" => nlNodes[n].bad = 0
       /\ n \in node_lifecycle_list_unhealthy_nodes <=> nlNodes[n].bad > 0
       /\ node_lifecycle_get_health(n) = "OFFLINE" <=> n \in node_lifecycle_list_offline_nodes

---------------------------------------------------------------------------
(* node_monitor.c.  A thread is not there, at its test, asleep, at a row with*)
(* the mutex held, or in a callback with the mutex free; row is its loop    *)
(* index, now the time it read at the start of the round, moved whether the *)
(* array was reallocated since it took hb.                                  *)

NoMonitor == [at |-> "none", row |-> 0, now |-> 0, moved |-> FALSE]

node_monitor_new ==
    /\ nmRows = <<>> /\ nmRunning = FALSE /\ nmFreed = FALSE
    /\ nmPc = [t \in NmThreads |-> NoMonitor]
    /\ nmTold = [n \in NlNodes |-> 0]

MutexFree == \A t \in NmThreads : nmPc[t].at # "row"

node_monitor_start(t) ==
    /\ MutexFree /\ ~nmRunning /\ nmPc[t].at = "none"
    /\ nmRunning' = TRUE
    /\ nmPc' = [nmPc EXCEPT ![t].at = "test"]
    /\ UNCHANGED <<nmRows, nmTold, nmFreed>>

\* It then joins the thread, which sees the flag when its round is over.
node_monitor_stop ==
    /\ MutexFree /\ nmRunning
    /\ nmRunning' = FALSE
    /\ UNCHANGED <<nmRows, nmPc, nmTold, nmFreed>>

HeartbeatOf(n) == SelectInSeq(nmRows, LAMBDA h : h.node = n)

\* The capacity doubles when the array is full.
Full(rows) == Len(rows) \in {NmCapacity * 2^k : k \in 0..Cardinality(NlNodes)}

node_monitor_register_heartbeat(n, status) ==
    LET i == HeartbeatOf(n)
        h == [node |-> n, beat |-> nlClock, status |-> status]
    IN  /\ MutexFree
        /\ nmRows' = IF i > 0 THEN [nmRows EXCEPT ![i] = h] ELSE Append(nmRows, h)
        /\ nmPc' = [t \in NmThreads |->
                       [nmPc[t] EXCEPT !.moved = @ \/ (i = 0 /\ nmPc[t].at = "offline" /\ Full(nmRows))]]
        /\ nmTold' = [nmTold EXCEPT ![n] = 0]
        /\ UNCHANGED <<nmRunning, nmFreed>>

node_monitor_get_status(n) ==
    IF HeartbeatOf(n) > 0 THEN nmRows[HeartbeatOf(n)].status ELSE "UNKNOWN"

node_monitor_is_offline(n) ==
    HeartbeatOf(n) > 0 => nlClock - nmRows[HeartbeatOf(n)].beat > NlTimeout

\* The thread looks at the flag before it sleeps, and never after: a stop while it
\* sleeps lets it run one round more.
MonitorTests(t) ==
    /\ nmPc[t].at = "test"
    /\ nmPc' = [nmPc EXCEPT ![t] = [NoMonitor EXCEPT !.at = IF nmRunning THEN "sleep" ELSE "none"]]
    /\ UNCHANGED <<nmRows, nmRunning, nmTold, nmFreed>>

MonitorWakes(t) ==
    /\ nmPc[t].at = "sleep" /\ MutexFree
    /\ nmPc' = [nmPc EXCEPT ![t] = [at |-> "row", row |-> 1, now |-> nlClock, moved |-> FALSE]]
    /\ UNCHANGED <<nmRows, nmRunning, nmTold, nmFreed>>

\* Mutation: a node is taken for offline already only while its status is UNKNOWN.
was_offline_unknown(h) == h.status = "UNKNOWN"

was_offline(h) == h.status \in {"NOTREADY", "UNKNOWN"}

\* One row, up to the callback or to the end of the row.
MonitorRow(t) ==
    LET pc == nmPc[t]
        h  == nmRows[pc.row]
        is_now_offline == pc.now - h.beat > NlTimeout
        Goes(at) == nmPc' = [nmPc EXCEPT ![t].at = at]
        Marks(s) == nmRows' = [nmRows EXCEPT ![pc.row].status = s]
    IN  /\ pc.at = "row"
        /\ \/ pc.row > Len(nmRows) /\ Goes("test") /\ UNCHANGED <<nmRows, nmTold>>
           \/ /\ pc.row <= Len(nmRows)
              /\ \/ /\ is_now_offline /\ ~was_offline(h)
                    /\ Marks("NOTREADY") /\ Goes("offline")
                    /\ nmTold' = [nmTold EXCEPT ![h.node] = @ + 1]
                 \/ /\ ~is_now_offline /\ was_offline(h)
                    /\ Marks("READY") /\ Goes("recovered")
                    /\ UNCHANGED nmTold
                 \/ /\ is_now_offline = was_offline(h)
                    /\ nmPc' = [nmPc EXCEPT ![t].row = @ + 1]
                    /\ UNCHANGED <<nmRows, nmTold>>
        /\ UNCHANGED <<nmRunning, nmFreed>>

\* A callback returns.  After on_node_offline the thread reads the name again through hb,
\* which is freed memory when the array has moved, and calls evict_pods_from_node.
MonitorResumes(t) ==
    /\ MutexFree
    /\ \/ /\ nmPc[t].at = "offline"
          /\ nmPc' = [nmPc EXCEPT ![t].at = "evict"]
          /\ nmFreed' = (nmFreed \/ nmPc[t].moved)
       \/ /\ nmPc[t].at \in {"evict", "recovered"}
          /\ nmPc' = [nmPc EXCEPT ![t].at = "row", ![t].row = @ + 1]
          /\ UNCHANGED nmFreed
    /\ UNCHANGED <<nmRows, nmRunning, nmTold>>

\* What follows a read of freed memory is not looked at.
NmNext ==
    /\ ~nmFreed
    /\ \/ /\ \/ \E t \in NmThreads : node_monitor_start(t)
             \/ node_monitor_stop
             \/ \E n \in NlNodes, s \in {"READY", "NOTREADY"} : node_monitor_register_heartbeat(n, s)
             \/ \E t \in NmThreads : MonitorTests(t) \/ MonitorWakes(t) \/ MonitorRow(t) \/ MonitorResumes(t)
          /\ UNCHANGED nlClock
       \/ NodeTick /\ UNCHANGED nmVars

\* Between two heartbeats of a node on_node_offline is called at most once for it, though
\* the mutex is dropped around each call, heartbeats and new nodes come in meanwhile and
\* the monitor is stopped and started.  It takes one monitor thread: a start that another
\* caller makes while node_monitor_stop waits in its join leaves two, and the one with the
\* older time takes a silent node for recovered.
ToldOncePerSilence == \A n \in NlNodes : nmTold[n] <= 1

---------------------------------------------------------------------------
(* pod_eviction_controller.c: the requests.  left is eviction_deadline      *)
(* minus now, never counted below zero.                                    *)

Evicting == evRows = <<>> /\ evCount = 0

\* No budget is consulted and a pod may be asked for twice.
pod_eviction_request_eviction(pod) ==
    /\ Len(evRows) < EvMax
    /\ evRows' = Append(evRows, [pod |-> pod, left |-> EvGrace, evicted |-> FALSE, forced |-> FALSE])
    /\ UNCHANGED evCount

PendingAt(pod) == SelectInSeq(evRows, LAMBDA r : r.pod = pod /\ ~r.evicted)

pod_eviction_cancel_eviction(pod) ==
    /\ PendingAt(pod) > 0
    /\ evRows' = RemoveAt(evRows, PendingAt(pod))
    /\ UNCHANGED evCount

\* The first request for the pod, completed or not.
pod_eviction_get_eviction_status(pod) == SelectInSeq(evRows, LAMBDA r : r.pod = pod)

\* The flag is read by nothing.
pod_eviction_force_evict(pod) ==
    LET i == pod_eviction_get_eviction_status(pod)
    IN  /\ i > 0 /\ ~evRows[i].forced
        /\ evRows' = [evRows EXCEPT ![i].forced = TRUE]
        /\ UNCHANGED evCount

pod_eviction_list_pending_evictions == SelectSeq(evRows, LAMBDA r : ~r.evicted)

pod_eviction_get_eviction_progress == Len(SelectSeq(evRows, LAMBDA r : r.evicted))

EvictionTime ==
    /\ \E i \in DOMAIN evRows : evRows[i].left > 0
    /\ evRows' = [i \in DOMAIN evRows |-> [evRows[i] EXCEPT !.left = IF @ > 0 THEN @ - 1 ELSE 0]]
    /\ UNCHANGED evCount

\* Mutation: now > deadline, and the round comes at the deadline.
DueLate(r) == ~r.evicted /\ r.left < 0

Due(r) == ~r.evicted /\ r.left = 0

pod_eviction_controller_thread ==
    /\ \E i \in DOMAIN evRows : Due(evRows[i])
    /\ evRows' = [i \in DOMAIN evRows |-> [evRows[i] EXCEPT !.evicted = @ \/ Due(evRows[i])]]
    /\ evCount' = evCount + Cardinality({i \in DOMAIN evRows : Due(evRows[i])})

EvNext ==
    \/ \E pod \in EvPods : \/ pod_eviction_request_eviction(pod)
                           \/ pod_eviction_cancel_eviction(pod)
                           \/ pod_eviction_force_evict(pod)
    \/ EvictionTime
    \/ pod_eviction_controller_thread

\* A pod stays pending for ever only when its evictions are cancelled again and again:
\* every other request is completed, however requests for the pod are repeated and
\* whatever rows a cancel shifts.  successful_evictions counts each of them once.
EvictionServed ==
    /\ \A pod \in EvPods :
          <>[](PendingAt(pod) > 0) => []<><<pod_eviction_cancel_eviction(pod)>>_evVars
    /\ [](evCount = pod_eviction_get_eviction_progress)

---------------------------------------------------------------------------
(* pod_eviction_controller.c: the disruption budgets.                       *)

PdbInit == pdbRows = <<>> /\ pdbStatus = <<>>

\* No look for the name; a status row goes with the budget while there is room.
pod_eviction_create_pdb(b, policy, value) ==
    /\ Len(pdbRows) < PdbMax
    /\ pdbRows' = Append(pdbRows, [name |-> b, policy |-> policy, value |-> value])
    /\ pdbStatus' = IF Len(pdbStatus) < PdbMax
                    THEN Append(pdbStatus, [name |-> b, desired |-> value, healthy |-> 0, active |-> 0])
                    ELSE pdbStatus

pod_eviction_get_pdb(b) == SelectInSeq(pdbRows, LAMBDA r : r.name = b)

pod_eviction_update_pdb(b, policy, value) ==
    LET i == pod_eviction_get_pdb(b)
    IN  /\ i > 0
        /\ pdbRows' = [pdbRows EXCEPT ![i].policy = policy, ![i].value = value]
        /\ UNCHANGED pdbStatus

\* The status row stays.
pod_eviction_delete_pdb(b) ==
    /\ pod_eviction_get_pdb(b) > 0
    /\ pdbRows' = RemoveAt(pdbRows, pod_eviction_get_pdb(b))
    /\ UNCHANGED pdbStatus

pod_eviction_get_pdb_status(b) == SelectInSeq(pdbStatus, LAMBDA s : s.name = b)

\* The first budget that covers the pod and has a status decides.  Nothing sets
\* current_healthy or disruptions_active.
pod_eviction_can_disrupt_pod(covering) ==
    LET i == SelectInSeq(pdbRows, LAMBDA r : r.name \in covering /\ pod_eviction_get_pdb_status(r.name) > 0)
        s == pdbStatus[pod_eviction_get_pdb_status(pdbRows[i].name)]
    IN  i > 0 => IF pdbRows[i].policy = "MIN_AVAILABLE" THEN s.healthy > pdbRows[i].value
                                                        ELSE s.active < pdbRows[i].value

PdbNext ==
    \E b \in PdbNames :
       \/ \E policy \in {"MIN_AVAILABLE", "MAX_UNAVAILABLE"}, value \in PdbValues :
             pod_eviction_create_pdb(b, policy, value) \/ pod_eviction_update_pdb(b, policy, value)
       \/ pod_eviction_delete_pdb(b)

\* A pod under budgets is refused as the first of them says and never on the word of a
\* budget that does not cover it: statuses of deleted budgets, budgets of the same name
\* and a full status table change nothing for a budget of positive value.
BudgetsDecide ==
    \A b \in PdbNames :
       LET i == pod_eviction_get_pdb(b)
       IN  /\ i = 0 => pod_eviction_can_disrupt_pod({b})
           /\ i > 0 /\ pod_eviction_get_pdb_status(b) > 0
                 => (pod_eviction_can_disrupt_pod({b})
                       <=> pdbRows[i].policy = "MAX_UNAVAILABLE" /\ pdbRows[i].value > 0)

---------------------------------------------------------------------------
NodeInit ==
    /\ node_lifecycle_controller_init /\ node_monitor_new /\ Evicting /\ PdbInit
    /\ nlClock = 0

=============================================================================
