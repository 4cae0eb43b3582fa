-------------------------- MODULE ServiceRegistry --------------------------
(***************************************************************************)
(* The service registry of the API server                                  *)
(* (sirah/internal/apiserver/service_registry.c) over the load balancers   *)
(* and the DNS cache of sirah/pkg/networking.  A service is in up to three *)
(* tables: the services, the balancers and the cache; the registry keeps   *)
(* them in step without a lock, so a call is one step.  A service name     *)
(* stands for namespace/name, an endpoint for the IP of its pod.           *)
(***************************************************************************)
EXTENDS Integers, FiniteSets, SequencesExt

CONSTANTS
    SrNames,          \* services
    SrIps,            \* cluster IPs
    SrPods,           \* pod IPs
    MaxServices,      \* capacity of the services, the balancers and the cache (1000)
    MaxEndpoints,     \* capacity of a balancer and of a service's endpoints (100)
    SrCountBound      \* bound: connections counted, selections made

ASSUME SrAssumption == MaxServices \in Nat /\ MaxEndpoints \in Nat /\ SrCountBound \in Nat

VARIABLES srServices, srLbs, srDns, srAnswer

srVars == <<srServices, srLbs, srDns, srAnswer>>

\* The k8s_service_t, load_balancer_t and dns_cache_entry_t of a service.
Service(n, ip) == [name |-> n, ip |-> ip, eps |-> <<>>]
load_balancer_new(n) == [name |-> n, eps |-> <<>>, rr |-> 0]
CacheEntry(n, ip) == [name |-> n, ip |-> ip, fresh |-> TRUE]

NoIp == "none"

service_registry_new ==
    /\ srServices = <<>> /\ srLbs = <<>> /\ srDns = <<>>
    /\ srAnswer = NoIp

IndexOf(table, n) == SelectInSeq(table, LAMBDA row : row.name = n)

---------------------------------------------------------------------------
(* dns_resolver.c                                                          *)

dns_resolver_update_service(dns, n, ip) ==
    LET i == IndexOf(dns, n)
    IN  IF i > 0 THEN [dns EXCEPT ![i] = CacheEntry(n, ip)]
        ELSE IF Len(dns) < MaxServices THEN Append(dns, CacheEntry(n, ip)) ELSE dns

dns_resolver_remove_service(dns, n) ==
    LET i == IndexOf(dns, n) IN IF i > 0 THEN RemoveAt(dns, i) ELSE dns

\* The lookup drops the entries of the name that have expired.
LookedUp(dns, n) == SelectSeq(dns, LAMBDA e : e.name # n \/ e.fresh)

dns_resolver_lookup(dns, n) ==
    LET i == IndexOf(LookedUp(dns, n), n)
    IN  IF i > 0 THEN LookedUp(dns, n)[i].ip ELSE NoIp

\* The first entry with this IP that has not expired.
dns_resolver_reverse_lookup(dns, ip) ==
    LET i == SelectInSeq(dns, LAMBDA e : e.ip = ip /\ e.fresh)
    IN  IF i > 0 THEN dns[i].name ELSE NoIp

dns_resolver_list_services(dns) == Len(SelectSeq(dns, LAMBDA e : e.fresh))

\* default_ttl has passed since the entry was made.
DnsExpires(i) ==
    /\ srDns[i].fresh
    /\ srDns' = [srDns EXCEPT ![i].fresh = FALSE]
    /\ UNCHANGED <<srServices, srLbs, srAnswer>>

dns_resolver_flush_cache ==
    /\ srDns # <<>> /\ srDns' = <<>>
    /\ UNCHANGED <<srServices, srLbs, srAnswer>>

---------------------------------------------------------------------------
(* service_registry.c: the services.                                       *)

\* Mutation: a service that is replaced keeps its DNS entry.
add_service_keeps_dns(n, ip) ==
    LET i == IndexOf(srServices, n)
    IN  /\ Len(srServices) < MaxServices
        /\ srServices' = IF i > 0 THEN [srServices EXCEPT ![i] = Service(n, ip)]
                         ELSE Append(srServices, Service(n, ip))
        /\ srDns' = IF i > 0 THEN srDns ELSE dns_resolver_update_service(srDns, n, ip)
        /\ srLbs' = IF i = 0 /\ Len(srLbs) < MaxServices
                    THEN Append(srLbs, load_balancer_new(n)) ELSE srLbs
        /\ UNCHANGED srAnswer

\* A service of the same name is replaced (its endpoints are those of the new one) and
\* keeps its balancer; a full registry refuses even that.
service_registry_add_service(n, ip) ==
    LET i == IndexOf(srServices, n)
    IN  /\ Len(srServices) < MaxServices
        /\ srServices' = IF i > 0 THEN [srServices EXCEPT ![i] = Service(n, ip)]
                         ELSE Append(srServices, Service(n, ip))
        /\ srDns' = dns_resolver_update_service(srDns, n, ip)
        /\ srLbs' = IF i = 0 /\ Len(srLbs) < MaxServices
                    THEN Append(srLbs, load_balancer_new(n)) ELSE srLbs
        /\ UNCHANGED srAnswer

service_registry_remove_service(n) ==
    LET i == IndexOf(srServices, n)
        j == IndexOf(srLbs, n)
    IN  /\ i > 0
        /\ srServices' = RemoveAt(srServices, i)
        /\ srDns' = dns_resolver_remove_service(srDns, n)
        /\ srLbs' = IF j > 0 THEN RemoveAt(srLbs, j) ELSE srLbs
        /\ UNCHANGED srAnswer

service_registry_get(n) == IndexOf(srServices, n)

\* The cache first, then the service itself.
Discovered(n) ==
    LET i == service_registry_get(n)
    IN  IF dns_resolver_lookup(srDns, n) # NoIp THEN dns_resolver_lookup(srDns, n)
        ELSE IF i > 0 THEN srServices[i].ip ELSE NoIp

service_registry_discover_service(n) ==
    /\ srAnswer' = Discovered(n)
    /\ srDns' = LookedUp(srDns, n)
    /\ UNCHANGED <<srServices, srLbs>>

service_registry_list_services(names) ==
    SelectSeq(srServices, LAMBDA s : s.name \in names)

---------------------------------------------------------------------------
(* The endpoints of a balancer.                                            *)

Balancer(n) == IndexOf(srLbs, n)
SrEndpoint(lb, p) == SelectInSeq(lb.eps, LAMBDA e : e.ip = p)

load_balancer_add_endpoint(lb, p) ==
    IF SrEndpoint(lb, p) > 0 THEN lb
    ELSE [lb EXCEPT !.eps = Append(@, [ip |-> p, conns |-> 0])]

\* k8s_service_add_endpoint does not look for the pod.
k8s_service_add_endpoint(svc, p) ==
    IF Len(svc.eps) < MaxEndpoints THEN [svc EXCEPT !.eps = Append(@, p)] ELSE svc

service_registry_add_endpoint(n, p) ==
    LET j == Balancer(n)
        i == service_registry_get(n)
    IN  /\ j > 0 /\ Len(srLbs[j].eps) < MaxEndpoints
        /\ srLbs' = [srLbs EXCEPT ![j] = load_balancer_add_endpoint(@, p)]
        /\ srServices' = IF i > 0
                         THEN [srServices EXCEPT ![i] = k8s_service_add_endpoint(@, p)]
                         ELSE srServices
        /\ UNCHANGED <<srDns, srAnswer>>

load_balancer_remove_endpoint(lb, p) ==
    [lb EXCEPT !.eps = RemoveAt(@, SrEndpoint(lb, p))]

\* The service keeps the endpoint in its status.
service_registry_remove_endpoint(n, p) ==
    LET j == Balancer(n)
    IN  /\ j > 0 /\ SrEndpoint(srLbs[j], p) > 0
        /\ srLbs' = [srLbs EXCEPT ![j] = load_balancer_remove_endpoint(@, p)]
        /\ UNCHANGED <<srServices, srDns, srAnswer>>

\* Round robin, the strategy of every balancer the registry makes.
load_balancer_select_endpoint(lb) == lb.eps[(lb.rr % Len(lb.eps)) + 1].ip

service_registry_select_endpoint(n) ==
    LET j == Balancer(n)
    IN  /\ j > 0 /\ srLbs[j].eps # <<>> /\ srLbs[j].rr < SrCountBound
        /\ srAnswer' = load_balancer_select_endpoint(srLbs[j])
        /\ srLbs' = [srLbs EXCEPT ![j].rr = @ + 1]
        /\ UNCHANGED <<srServices, srDns>>

load_balancer_endpoint_connected(n, p) ==
    LET j == Balancer(n)
        e == SrEndpoint(srLbs[j], p)
    IN  /\ j > 0 /\ e > 0 /\ srLbs[j].eps[e].conns < SrCountBound
        /\ srLbs' = [srLbs EXCEPT ![j].eps[e].conns = @ + 1]
        /\ UNCHANGED <<srServices, srDns, srAnswer>>

load_balancer_endpoint_disconnected(n, p) ==
    LET j == Balancer(n)
        e == SrEndpoint(srLbs[j], p)
    IN  /\ j > 0 /\ e > 0 /\ srLbs[j].eps[e].conns > 0
        /\ srLbs' = [srLbs EXCEPT ![j].eps[e].conns = @ - 1]
        /\ UNCHANGED <<srServices, srDns, srAnswer>>

load_balancer_clear_endpoints(n) ==
    LET j == Balancer(n)
    IN  /\ j > 0 /\ srLbs[j].eps # <<>>
        /\ srLbs' = [srLbs EXCEPT ![j].eps = <<>>]
        /\ UNCHANGED <<srServices, srDns, srAnswer>>

SrNext ==
    \/ \E n \in SrNames :
          \/ \E ip \in SrIps : service_registry_add_service(n, ip)
          \/ service_registry_remove_service(n)
          \/ service_registry_discover_service(n)
          \/ service_registry_select_endpoint(n)
          \/ load_balancer_clear_endpoints(n)
          \/ \E p \in SrPods :
                \/ service_registry_add_endpoint(n, p)
                \/ service_registry_remove_endpoint(n, p)
                \/ Balancer(n) > 0 /\ load_balancer_endpoint_connected(n, p)
                \/ Balancer(n) > 0 /\ load_balancer_endpoint_disconnected(n, p)
    \/ \E i \in DOMAIN srDns : DnsExpires(i)
    \/ dns_resolver_flush_cache

SrSpec == service_registry_new /\ [][SrNext]_srVars

---------------------------------------------------------------------------
NamesOf(table) == {table[i].name : i \in DOMAIN table}
Unique(table)  == Cardinality(NamesOf(table)) = Len(table)

\* The three tables stay in step: each has a name once, a service has its balancer and
\* nothing else has one, every balancer has an endpoint once, and what discovery answers
\* is the IP of the service as last added, or nothing when there is no such service, through
\* the entries that service_registry_add_service and service_registry_remove_service keep
\* in the DNS cache, their expiry, and flushes.
RegistryInStep ==
    /\ Unique(srServices) /\ Unique(srLbs) /\ Unique(srDns)
    /\ NamesOf(srLbs) = NamesOf(srServices)
    /\ \A j \in DOMAIN srLbs :
          Cardinality({e.ip : e \in Range(srLbs[j].eps)}) = Len(srLbs[j].eps)
    /\ \A n \in SrNames :
          LET i == service_registry_get(n)
          IN  Discovered(n) = IF i > 0 THEN srServices[i].ip ELSE NoIp
    /\ \A i \in DOMAIN srDns :
          dns_resolver_reverse_lookup(srDns, srDns[i].ip) \in NamesOf(srServices) \cup {NoIp}
    /\ dns_resolver_list_services(srDns) <= Len(service_registry_list_services(SrNames))

============================================================================
