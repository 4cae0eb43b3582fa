-------------------------- MODULE NetworkControl --------------------------
(***************************************************************************)
(* The in-memory state of the networking code: the service addresses and   *)
(* routes of sirah/internal/controller/network_controller.c, the network   *)
(* policies of networkpolicy_controller.c and of                           *)
(* sirah/internal/networking/policy_enforcer.c, the taints of              *)
(* taint_controller.c, and the namespaces and VXLAN endpoints of           *)
(* internal/network.  The kernel devices they stand for are set up by      *)
(* nothing in these files and are not modelled.                            *)
(***************************************************************************)
EXTENDS Integers, FiniteSets, SequencesExt

CONSTANTS
    NcServices,     \* services, namespace/name
    NcPods,         \* pod IPs
    IpStart, IpEnd, \* service_ip_start and service_ip_end
    MaxIps,         \* max_allocated_ips (1000)
    MaxRoutes,      \* max_routes (1000)
    RoutePods,      \* pods kept of a route (32)
    NpPolicies,     \* policies: name, ns, ports_ok, ingress and egress rules
    NpFlows,        \* flows: dest_ns, labelled, direction, port, ip
    MaxPolicies,    \* max_policies (1000)
    NtNodes,        \* nodes
    NtTaints,       \* taints: key, effect
    MaxTaintNodes,  \* max_nodes (100)
    NodeTaintSlots, \* taints a node has room for (10)
    NtIds,          \* network namespace ids
    NtThreads,      \* threads calling the namespace manager
    NtStale,        \* stale_seconds
    VxUnseen,       \* seconds after which an endpoint is unhealthy (120)
    NtTableBound,   \* bound: rows of the growing tables
    NtTimeBound     \* bound: seconds counted

ASSUME NcAssumption ==
    /\ IpStart \in Nat /\ IpEnd \in Nat /\ MaxIps \in Nat
    /\ MaxIps <= IpEnd - IpStart

VARIABLES ncIps, ncNext, ncRoutes, npTable, peTable, peDeny, npAborted,
          tnNodes, tnOverrun, nsTable, nsPc, vxEps, vxFdb, vxUp, ntClock

ncVars == <<ncIps, ncNext, ncRoutes>>
npVars == <<npTable, peTable, peDeny, npAborted>>
tnVars == <<tnNodes, tnOverrun>>
nsVars == <<nsTable, nsPc>>
vxVars == <<vxEps, vxFdb, vxUp>>
ntVars == <<ncVars, npVars, tnVars, nsVars, vxVars, ntClock>>

---------------------------------------------------------------------------
(* network_controller.c: addresses and routes.                             *)

network_controller_new == ncIps = <<>> /\ ncNext = 0 /\ ncRoutes = <<>>

IpRangeSize == IpEnd - IpStart

Allocation(svc) == SelectInSeq(ncIps, LAMBDA a : a.svc = svc)

\* Mutation: the next offset is the number of addresses in use.
allocate_by_use_count(svc) ==
    /\ Allocation(svc) = 0 /\ Len(ncIps) < MaxIps
    /\ ncIps' = Append(ncIps, [svc |-> svc, used |-> TRUE,
                               ip |-> IpStart + Cardinality({i \in DOMAIN ncIps : ncIps[i].used})])
    /\ ncNext' = ncNext
    /\ UNCHANGED ncRoutes

\* A service that has an address, released or not, is given it again without a change.
network_allocate_service_ip(svc) ==
    /\ Allocation(svc) = 0 /\ Len(ncIps) < MaxIps
    /\ ncIps' = Append(ncIps, [svc |-> svc, used |-> TRUE,
                               ip |-> IpStart + (ncNext % IpRangeSize)])
    /\ ncNext' = (ncNext + 1) % IpRangeSize
    /\ UNCHANGED ncRoutes

\* The row stays.
network_release_service_ip(svc) ==
    LET i == Allocation(svc)
    IN  /\ i > 0 /\ ncIps[i].used
        /\ ncIps' = [ncIps EXCEPT ![i].used = FALSE]
        /\ UNCHANGED <<ncNext, ncRoutes>>

network_get_service_ip(svc) ==
    LET i == Allocation(svc) IN IF i > 0 /\ ncIps[i].used THEN ncIps[i].ip ELSE -1

RouteOf(vip) == SelectInSeq(ncRoutes, LAMBDA r : r.vip = vip)

network_update_service_routes(vip, pods) ==
    LET i   == RouteOf(vip)
        row == [vip |-> vip, at |-> 0,
                pods |-> SubSeq(pods, 1, IF Len(pods) < RoutePods THEN Len(pods) ELSE RoutePods)]
    IN  /\ i > 0 \/ Len(ncRoutes) < MaxRoutes
        /\ ncRoutes' = IF i > 0 THEN [ncRoutes EXCEPT ![i] = row] ELSE Append(ncRoutes, row)
        /\ UNCHANGED <<ncIps, ncNext>>

network_select_backend_pod(vip) ==
    LET i == RouteOf(vip)
    IN  /\ i > 0 /\ ncRoutes[i].pods # <<>>
        /\ ncRoutes' = [ncRoutes EXCEPT ![i].at = (@ + 1) % Len(ncRoutes[i].pods)]
        /\ UNCHANGED <<ncIps, ncNext>>

NcNext ==
    \/ \E svc \in NcServices : network_allocate_service_ip(svc) \/ network_release_service_ip(svc)
    \/ \E i \in DOMAIN ncIps :
          \/ \E p \in NcPods, q \in NcPods : network_update_service_routes(ncIps[i].ip, <<p, q>>)
          \/ network_update_service_routes(ncIps[i].ip, <<>>)
          \/ network_select_backend_pod(ncIps[i].ip)

---------------------------------------------------------------------------
(* Network policies.  Freeing one (k8s_network_policy_spec_free) releases   *)
(* the selector embedded at the start of the spec, and then the spec: the  *)
(* process aborts.                                                         *)

NpInit == npTable = <<>> /\ peTable = <<>> /\ peDeny = [d \in {"ingress", "egress"} |-> FALSE]
          /\ npAborted = FALSE

k8s_networkpolicy_controller_get(p) ==
    SelectInSeq(npTable, LAMBDA q : q.name = p.name /\ q.ns = p.ns)

k8s_networkpolicy_controller_exists(p) == k8s_networkpolicy_controller_get(p) > 0

\* A name and a namespace, and ports in 1..65535.
k8s_networkpolicy_controller_validate(p) == p.name # "" /\ p.ns # "" /\ p.ports_ok

k8s_networkpolicy_controller_create(p) ==
    /\ ~k8s_networkpolicy_controller_exists(p)
    /\ Len(npTable) < MaxPolicies
    /\ k8s_networkpolicy_controller_validate(p)
    /\ npTable' = Append(npTable, p)
    /\ UNCHANGED <<peTable, peDeny, npAborted>>

k8s_network_policy_free == npAborted' = TRUE /\ UNCHANGED <<npTable, peTable, peDeny>>

k8s_networkpolicy_controller_update(p) ==
    /\ k8s_networkpolicy_controller_validate(p)
    /\ k8s_networkpolicy_controller_exists(p)
    /\ k8s_network_policy_free

k8s_networkpolicy_controller_delete(p) ==
    k8s_networkpolicy_controller_exists(p) /\ k8s_network_policy_free

k8s_networkpolicy_controller_list(ns) == SelectSeq(npTable, LAMBDA p : p.ns = ns)

\* No look for the name: a policy added twice is there twice.
k8s_policy_enforcer_add_policy(p) ==
    /\ Len(peTable) < NtTableBound
    /\ peTable' = Append(peTable, p)
    /\ UNCHANGED <<npTable, peDeny, npAborted>>

Enforced(p) == \E i \in DOMAIN peTable : peTable[i].name = p.name /\ peTable[i].ns = p.ns

k8s_policy_enforcer_remove_policy(p) == Enforced(p) /\ k8s_network_policy_free

k8s_policy_enforcer_update_policy(p) == Enforced(p) /\ k8s_network_policy_free

SetDefaultDeny(dir) ==
    /\ peDeny' = [peDeny EXCEPT ![dir] = ~@]
    /\ UNCHANGED <<npTable, peTable, npAborted>>

\* k8s_network_label_selector_matches accepts any labels there are.
k8s_network_label_selector_matches(labelled) == labelled

\* The destination is the pod that is looked at, whatever the direction.
k8s_policy_matches_pod(p, flow) ==
    flow.dest_ns = p.ns /\ k8s_network_label_selector_matches(flow.labelled)

\* "10.0.0.0/8" contains the addresses that begin with "10.0.0.0", a CIDR without a
\* prefix length itself.
k8s_cidr_contains_ip(cidr, ip) == cidr = ip

k8s_rule_allows_traffic(rule, flow) ==
    /\ rule.ports # {} => flow.port \in rule.ports
    /\ \/ rule.cidrs = {} /\ ~rule.pods
       \/ \E c \in rule.cidrs : k8s_cidr_contains_ip(c, flow.ip)
       \/ rule.pods /\ k8s_network_label_selector_matches(flow.labelled)

\* Mutation: the loop stops at the first policy that selects the pod.
evaluate_first_policy(table, flow) ==
    LET i == SelectInSeq(table, LAMBDA p : k8s_policy_matches_pod(p, flow))
    IN  IF i > 0
        THEN IF \E r \in table[i].rules[flow.direction] : k8s_rule_allows_traffic(r, flow)
             THEN "ALLOW" ELSE "DENY"
        ELSE IF peDeny[flow.direction] THEN "DENY" ELSE "ALLOW"

\* The loop over the table, from its first row: found, then allowed.
k8s_policy_enforcer_evaluate(table, flow) ==
    LET Scan[i \in 1..(Len(table) + 1), found \in BOOLEAN] ==
            IF i > Len(table) THEN IF found THEN "DENY" ELSE "NO_POLICY"
            ELSE IF ~k8s_policy_matches_pod(table[i], flow) THEN Scan[i + 1, found]
            ELSE IF \E r \in table[i].rules[flow.direction] : k8s_rule_allows_traffic(r, flow)
                 THEN "ALLOW"
            ELSE Scan[i + 1, TRUE]
        verdict == Scan[1, FALSE]
    IN  IF verdict # "NO_POLICY" THEN verdict
        ELSE IF peDeny[flow.direction] THEN "DENY" ELSE "ALLOW"

NpNext ==
    /\ ~npAborted
    /\ \/ \E p \in NpPolicies :
             \/ k8s_networkpolicy_controller_create(p)
             \/ k8s_networkpolicy_controller_update(p)
             \/ k8s_networkpolicy_controller_delete(p)
             \/ k8s_policy_enforcer_add_policy(p)
             \/ k8s_policy_enforcer_remove_policy(p)
             \/ k8s_policy_enforcer_update_policy(p)
       \/ \E dir \in {"ingress", "egress"} : SetDefaultDeny(dir)

---------------------------------------------------------------------------
(* taint_controller.c.                                                     *)

k8s_taint_controller_new == tnNodes = <<>> /\ tnOverrun = FALSE

TaintNode(n) == SelectInSeq(tnNodes, LAMBDA r : r.node = n)

\* No look for the name.
k8s_taint_controller_register_node(n) ==
    /\ Len(tnNodes) < MaxTaintNodes
    /\ tnNodes' = Append(tnNodes, [node |-> n, taints |-> <<>>])
    /\ UNCHANGED tnOverrun

k8s_taint_controller_unregister_node(n) ==
    LET i == TaintNode(n)
    IN  i > 0 /\ tnNodes' = RemoveAt(tnNodes, i) /\ UNCHANGED tnOverrun

\* The array has NodeTaintSlots places and the call does not count them.
k8s_taint_controller_add_taint(n, t) ==
    LET i == TaintNode(n)
    IN  /\ i > 0
        /\ IF Len(tnNodes[i].taints) < NodeTaintSlots
           THEN tnNodes' = [tnNodes EXCEPT ![i].taints = Append(@, t)] /\ UNCHANGED tnOverrun
           ELSE tnOverrun' = TRUE /\ UNCHANGED tnNodes

\* The first taint with the value in the field, of the first node of the name that has one.
RemoveTaint(n, field, value) ==
    LET Fits(t) == t[field] = value
        rows == {i \in DOMAIN tnNodes : /\ tnNodes[i].node = n
                                        /\ \E j \in DOMAIN tnNodes[i].taints : Fits(tnNodes[i].taints[j])}
        i    == CHOOSE k \in rows : \A m \in rows : k <= m
    IN  /\ rows # {}
        /\ tnNodes' = [tnNodes EXCEPT ![i].taints = RemoveAt(@, SelectInSeq(@, Fits))]
        /\ UNCHANGED tnOverrun

k8s_taint_controller_remove_taint(n, key) == RemoveTaint(n, "key", key)

k8s_taint_controller_remove_taint_by_effect(n, effect) == RemoveTaint(n, "effect", effect)

k8s_taint_controller_get_taints(n) == IF TaintNode(n) > 0 THEN tnNodes[TaintNode(n)].taints ELSE <<>>

TnNext ==
    /\ ~tnOverrun
    /\ \E n \in NtNodes :
          \/ k8s_taint_controller_register_node(n)
          \/ k8s_taint_controller_unregister_node(n)
          \/ \E t \in NtTaints : \/ k8s_taint_controller_add_taint(n, t)
                                 \/ k8s_taint_controller_remove_taint(n, t.key)
                                 \/ k8s_taint_controller_remove_taint_by_effect(n, t.effect)

---------------------------------------------------------------------------
(* netns_manager.c.  netns_manager_get_namespace unlocks the manager before *)
(* it gives out the address of the row; its callers lock the row after.    *)

Outside == [pc |-> "out", id |-> "none", row |-> 0]

netns_manager_create == nsTable = <<>> /\ nsPc = [t \in NtThreads |-> Outside]

netns_manager_create_namespace(t, id) ==
    /\ nsPc[t] = Outside /\ Len(nsTable) < NtTableBound
    /\ nsTable' = Append(nsTable, [id |-> id, ip |-> "config", touched |-> ntClock])
    /\ UNCHANGED nsPc

netns_manager_get_namespace(id) == SelectInSeq(nsTable, LAMBDA n : n.id = id)

netns_manager_delete_namespace(t, id) ==
    LET i == netns_manager_get_namespace(id)
    IN  /\ nsPc[t] = Outside /\ i > 0
        /\ nsTable' = RemoveAt(nsTable, i)
        /\ UNCHANGED nsPc

\* The first half of add_interface, exec_in_namespace and configure_ip.
Looks(t, id, op) ==
    /\ nsPc[t] = Outside /\ netns_manager_get_namespace(id) > 0
    /\ nsPc' = [nsPc EXCEPT ![t] = [pc |-> op, id |-> id, row |-> netns_manager_get_namespace(id)]]
    /\ UNCHANGED nsTable

\* The second half writes to the row, whichever namespace is there by now; past the end
\* of the table it writes to memory that holds none.
Touch(t, op) ==
    /\ nsPc[t].pc = op
    /\ nsPc' = [nsPc EXCEPT ![t] = Outside]
    /\ nsTable' = IF nsPc[t].row <= Len(nsTable)
                  THEN [nsTable EXCEPT ![nsPc[t].row].touched = ntClock,
                                       ![nsPc[t].row].ip = IF op = "ip" THEN "configured" ELSE @]
                  ELSE nsTable

netns_manager_add_interface(t) == Touch(t, "interface")

netns_manager_exec_in_namespace(t) == Touch(t, "exec")

netns_manager_configure_ip(t) == Touch(t, "ip")

Stale(n) == ntClock - n.touched > NtStale

\* Mutation: the loop runs forward over the table it shifts.
cleanup_forward(table) ==
    LET Scan[i \in 1..(Len(table) + 1), rows \in UNION {[1..k -> Range(table)] : k \in 0..Len(table)}] ==
            IF i > Len(rows) THEN rows
            ELSE IF Stale(rows[i]) THEN Scan[i + 1, RemoveAt(rows, i)] ELSE Scan[i + 1, rows]
    IN  Scan[1, table]

\* The loop runs from the last row to the first.
Unstale(table) ==
    LET Scan[i \in 0..Len(table)] ==       \* what is left after the rows above i were seen
            IF i = Len(table) THEN table
            ELSE IF Stale(Scan[i + 1][i + 1]) THEN RemoveAt(Scan[i + 1], i + 1) ELSE Scan[i + 1]
    IN  Scan[0]

netns_manager_cleanup_stale(t) ==
    /\ nsPc[t] = Outside
    /\ nsTable' = Unstale(nsTable) /\ nsTable' # nsTable
    /\ UNCHANGED nsPc

NtTime == ntClock < NtTimeBound /\ ntClock' = ntClock + 1

NsNext ==
    \/ /\ \E t \in NtThreads :
             \/ \E id \in NtIds : \/ netns_manager_create_namespace(t, id)
                                  \/ netns_manager_delete_namespace(t, id)
                                  \/ \E op \in {"interface", "exec", "ip"} : Looks(t, id, op)
             \/ netns_manager_add_interface(t)
             \/ netns_manager_exec_in_namespace(t)
             \/ netns_manager_configure_ip(t)
             \/ netns_manager_cleanup_stale(t)
       /\ UNCHANGED ntClock
    \/ NtTime /\ UNCHANGED nsVars

---------------------------------------------------------------------------
(* vxlan_tunnel.c.                                                         *)

vxlan_tunnel_create == vxEps = <<>> /\ vxFdb = <<>> /\ vxUp = FALSE

VxEndpoint(n) == SelectInSeq(vxEps, LAMBDA e : e.node = n)

vxlan_tunnel_initialize == vxUp' = TRUE /\ UNCHANGED <<vxEps, vxFdb>>
vxlan_tunnel_teardown == vxUp' = FALSE /\ UNCHANGED <<vxEps, vxFdb>>

\* An endpoint that is known is only seen again: its address and CIDR stay.
vxlan_tunnel_add_endpoint(n, ip) ==
    LET i == VxEndpoint(n)
    IN  /\ i = 0 => Len(vxEps) < NtTableBound
        /\ vxEps' = IF i > 0 THEN [vxEps EXCEPT ![i].healthy = TRUE, ![i].seen = ntClock]
                    ELSE Append(vxEps, [node |-> n, ip |-> ip, healthy |-> TRUE,
                                        seen |-> ntClock, failed |-> 0])
        /\ UNCHANGED <<vxFdb, vxUp>>

vxlan_tunnel_remove_endpoint(n) ==
    LET i == VxEndpoint(n)
    IN  i > 0 /\ vxEps' = RemoveAt(vxEps, i) /\ UNCHANGED <<vxFdb, vxUp>>

vxlan_tunnel_update_fdb(mac, ip) ==
    LET i == SelectInSeq(vxFdb, LAMBDA e : e.mac = mac)
    IN  /\ i = 0 => Len(vxFdb) < NtTableBound
        /\ vxFdb' = IF i > 0 THEN [vxFdb EXCEPT ![i].ip = ip] ELSE Append(vxFdb, [mac |-> mac, ip |-> ip])
        /\ UNCHANGED <<vxEps, vxUp>>

Checked(e) ==
    IF ntClock - e.seen > VxUnseen
    THEN [e EXCEPT !.healthy = FALSE, !.failed = IF @ < NtTimeBound THEN @ + 1 ELSE @]
    ELSE [e EXCEPT !.healthy = TRUE, !.failed = 0]

vxlan_tunnel_health_check ==
    /\ vxEps' = [i \in DOMAIN vxEps |-> Checked(vxEps[i])]
    /\ UNCHANGED <<vxFdb, vxUp>>

VxNext ==
    \/ /\ \/ vxlan_tunnel_initialize \/ vxlan_tunnel_teardown \/ vxlan_tunnel_health_check
          \/ \E n \in NtNodes, ip \in NcPods : \/ vxlan_tunnel_add_endpoint(n, ip)
                                               \/ vxlan_tunnel_remove_endpoint(n)
                                               \/ vxlan_tunnel_update_fdb(n, ip)
       /\ UNCHANGED ntClock
    \/ NtTime /\ UNCHANGED vxVars

---------------------------------------------------------------------------
NtInit ==
    /\ network_controller_new /\ NpInit /\ k8s_taint_controller_new
    /\ netns_manager_create /\ vxlan_tunnel_create
    /\ ntClock = 0

\* No two services have the same address, released rows included, and every address is in
\* the range: the counter of network_allocate_service_ip wraps, but the table is full before.
\* The round robin of a route points at one of its pods.
ServiceIpsUnique ==
    /\ \A i, j \in DOMAIN ncIps : ncIps[i].ip = ncIps[j].ip => i = j
    /\ \A i \in DOMAIN ncIps : ncIps[i].ip \in IpStart..(IpEnd - 1)
    /\ \A i \in DOMAIN ncRoutes : ncRoutes[i].pods # <<>> => ncRoutes[i].at < Len(ncRoutes[i].pods)

\* A flow is allowed exactly when some rule of some policy that selects its pod allows it, or
\* when no policy selects the pod and there is no default denial: the order the policies were
\* added to the enforcer in, and a policy that is there twice, do not matter.
PolicyVerdict ==
    \A flow \in NpFlows :
        LET selecting == {p \in Range(peTable) : k8s_policy_matches_pod(p, flow)}
        IN  k8s_policy_enforcer_evaluate(peTable, flow) = "ALLOW" <=>
              IF selecting = {} THEN ~peDeny[flow.direction]
              ELSE \E p \in selecting : \E r \in p.rules[flow.direction] : k8s_rule_allows_traffic(r, flow)

\* netns_manager_cleanup_stale removes the stale namespaces and no others, in place; and an
\* endpoint of the tunnel that has just been checked is healthy exactly when it was seen
\* lately, so a node has one endpoint and the forwarding table one entry for a MAC.
StaleOnesGo ==
    /\ Unstale(nsTable) = SelectSeq(nsTable, LAMBDA n : ~Stale(n))
    /\ Cardinality({e.node : e \in Range(vxEps)}) = Len(vxEps)
    /\ Cardinality({e.mac : e \in Range(vxFdb)}) = Len(vxFdb)

============================================================================
