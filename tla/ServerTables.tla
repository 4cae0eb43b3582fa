---------------------------- MODULE ServerTables ----------------------------
(***************************************************************************)
(* The tables that live inside the processes of src/sirah and that nothing *)
(* else shares: the cache of responses (cache/request_cache.c), the pool   *)
(* of connections (optimization/connection_pool.c), the store of events    *)
(* (core/events.c), the custom resource definitions                        *)
(* (apiserver/crd_manager.c), the admission webhooks (admission.c,         *)
(* webhooks.c) and the stores of apiserver/endpoints.c with the endpoints  *)
(* that only answer.  None of them takes a lock; one thread uses each.     *)
(*                                                                         *)
(* The cache evicts one entry, however many bytes it must make room for,   *)
(* and reads the first of no entries when one response alone is too large  *)
(* for an empty cache: svBroken.                                           *)
(***************************************************************************)
EXTENDS Integers, Sequences, FiniteSets, FiniteSetsExt, SequencesExt

CONSTANTS
    SvKeys,         \* requests, remote ends, names of events, definitions and configs
    SvSizes,        \* bytes of a cached response
    CacheEntries,   \* max_entries
    CacheBytes,     \* max_size_bytes
    CacheTtl,       \* ttl_seconds
    PoolLimit,      \* max_connections
    PoolIdle,       \* idle_timeout_seconds
    PoolUsers,      \* who may hold a connection
    SvRows,         \* the size of the other tables
    CrdVersions,    \* K8S_MAX_CRD_VERSIONS
    SvCount         \* bound: hits of an entry, count of an event, seconds

ASSUME SvAssumption ==
    /\ {CacheEntries, CacheBytes, PoolLimit, SvRows, CrdVersions, SvCount} \subseteq Nat \ {0}
    /\ CacheTtl \in Nat /\ PoolIdle \in Nat /\ SvSizes \subseteq Nat

VARIABLES
    rcEntries,  \* cache->entries: [key, size, age, hits]
    rcBytes,    \* cache->current_size_bytes
    rcEnabled,
    svBroken,
    cpConns,    \* pool->connections: [id, remote, in_use, idle]
    cpHeld,     \* user -> the connection it was given, 0 for none
    cpMade,     \* connections made so far
    svEvents,   \* core/events.c: [key, count]
    crds,       \* manager->crds: [name, versions]
    svHooks,    \* ctrl->mutating_configs, validating_configs: [mutating, validating], the same shape
    epServices, \* endpoints.c: service_store
    epEvents,   \* endpoints.c: event_store
    epReply     \* the code of the last answer

rcVars == <<rcEntries, rcBytes, rcEnabled, svBroken>>
cpVars == <<cpConns, cpHeld, cpMade>>
otherTables == <<svEvents, crds, svHooks, epServices, epEvents, epReply>>
svVars == <<rcVars, cpVars, otherTables>>

Capped(n) == IF n < SvCount THEN n + 1 ELSE n

---------------------------------------------------------------------------
(* cache/request_cache.c.  An age is the seconds since created_at, and     *)
(* stops one past the time to live.                                        *)

k8s_request_cache_new == rcEntries = <<>> /\ rcBytes = 0 /\ rcEnabled = TRUE /\ svBroken = FALSE

k8s_request_cache_set_enabled(on) ==
    rcEnabled' = on /\ UNCHANGED <<rcEntries, rcBytes, svBroken>>

k8s_cache_entry_expired(entry) == entry.age > CacheTtl

LeastUsed ==
    Min({i \in DOMAIN rcEntries : \A j \in DOMAIN rcEntries : rcEntries[i].hits <= rcEntries[j].hits})

\* It does not look for the key: a second entry of a key stays behind the first.
k8s_request_cache_put(key, size) ==
    LET entry == [key |-> key, size |-> size, age |-> 0, hits |-> 0]
        room == Len(rcEntries) < CacheEntries /\ rcBytes + size <= CacheBytes
    IN  /\ rcEnabled
        /\ svBroken' = (~room /\ rcEntries = <<>>)
        /\ IF svBroken' THEN UNCHANGED <<rcEntries, rcBytes>>
           ELSE IF room THEN rcEntries' = Append(rcEntries, entry) /\ rcBytes' = rcBytes + size
           ELSE /\ rcEntries' = Append(RemoveAt(rcEntries, LeastUsed), entry)
                /\ rcBytes' = rcBytes - rcEntries[LeastUsed].size + size
        /\ UNCHANGED rcEnabled

CacheRow(key) ==
    LET at == {i \in DOMAIN rcEntries : rcEntries[i].key = key} IN IF at = {} THEN 0 ELSE Min(at)

CacheDrops(i) ==
    /\ rcEntries' = RemoveAt(rcEntries, i)
    /\ rcBytes' = rcBytes - rcEntries[i].size

k8s_request_cache_get_forgets(key) ==
    LET i == CacheRow(key) IN
    /\ rcEnabled /\ i # 0
    /\ IF k8s_cache_entry_expired(rcEntries[i]) THEN rcEntries' = RemoveAt(rcEntries, i)
       ELSE rcEntries' = [rcEntries EXCEPT ![i].hits = Capped(@)]
    /\ UNCHANGED <<rcBytes, rcEnabled, svBroken>>

k8s_request_cache_get(key) ==
    LET i == CacheRow(key) IN
    /\ rcEnabled /\ i # 0
    /\ IF k8s_cache_entry_expired(rcEntries[i]) THEN CacheDrops(i)
       ELSE rcEntries' = [rcEntries EXCEPT ![i].hits = Capped(@)] /\ UNCHANGED rcBytes
    /\ UNCHANGED <<rcEnabled, svBroken>>

\* Asking is getting: it counts as a hit and drops an expired entry.
k8s_request_cache_contains(key) == k8s_request_cache_get(key)

k8s_request_cache_remove(key) ==
    CacheRow(key) # 0 /\ CacheDrops(CacheRow(key)) /\ UNCHANGED <<rcEnabled, svBroken>>

k8s_request_cache_clear ==
    /\ rcEntries # <<>>
    /\ rcEntries' = <<>> /\ rcBytes' = 0 /\ UNCHANGED <<rcEnabled, svBroken>>

k8s_request_cache_get_hits == FoldSeq(LAMBDA e, n : e.hits + n, 0, rcEntries)

CacheAges ==
    /\ rcEntries' = [i \in DOMAIN rcEntries |->
            [rcEntries[i] EXCEPT !.age = IF @ <= CacheTtl THEN @ + 1 ELSE @]]
    /\ UNCHANGED <<rcBytes, rcEnabled, svBroken>>

RcNext ==
    /\ ~svBroken
    /\ \/ \E key \in SvKeys :
             \/ \E size \in SvSizes : k8s_request_cache_put(key, size)
             \/ k8s_request_cache_contains(key) \/ k8s_request_cache_remove(key)
       \/ k8s_request_cache_clear \/ CacheAges
       \/ \E on \in BOOLEAN : k8s_request_cache_set_enabled(on)
    /\ UNCHANGED <<cpVars, otherTables>>

---------------------------------------------------------------------------
(* optimization/connection_pool.c.                                         *)

k8s_connection_pool_new == cpConns = <<>> /\ cpHeld = [u \in PoolUsers |-> 0] /\ cpMade = 0

ConnRow(id) ==
    LET at == {i \in DOMAIN cpConns : cpConns[i].id = id} IN IF at = {} THEN 0 ELSE Min(at)

k8s_connection_pool_acquire_any(u, remote) ==
    LET idle == {i \in DOMAIN cpConns : cpConns[i].remote = remote} IN
    /\ cpHeld[u] = 0
    /\ \/ /\ idle # {}
          /\ cpConns' = [cpConns EXCEPT ![Min(idle)].in_use = TRUE, ![Min(idle)].idle = 0]
          /\ cpHeld' = [cpHeld EXCEPT ![u] = cpConns[Min(idle)].id]
          /\ UNCHANGED cpMade
       \/ /\ idle = {} /\ Len(cpConns) < PoolLimit /\ cpMade < SvCount + PoolLimit
          /\ cpMade' = cpMade + 1
          /\ cpConns' = Append(cpConns, [id |-> cpMade', remote |-> remote, in_use |-> TRUE, idle |-> 0])
          /\ cpHeld' = [cpHeld EXCEPT ![u] = cpMade']

\* The first idle connection to the remote end, or a new one while the pool
\* has room, or none.
k8s_connection_pool_acquire(u, remote) ==
    LET idle == {i \in DOMAIN cpConns : ~cpConns[i].in_use /\ cpConns[i].remote = remote} IN
    /\ cpHeld[u] = 0
    /\ \/ /\ idle # {}
          /\ cpConns' = [cpConns EXCEPT ![Min(idle)].in_use = TRUE, ![Min(idle)].idle = 0]
          /\ cpHeld' = [cpHeld EXCEPT ![u] = cpConns[Min(idle)].id]
          /\ UNCHANGED cpMade
       \/ /\ idle = {} /\ Len(cpConns) < PoolLimit /\ cpMade < SvCount + PoolLimit
          /\ cpMade' = cpMade + 1
          /\ cpConns' = Append(cpConns, [id |-> cpMade', remote |-> remote, in_use |-> TRUE, idle |-> 0])
          /\ cpHeld' = [cpHeld EXCEPT ![u] = cpMade']

k8s_connection_pool_release(u) ==
    LET i == ConnRow(cpHeld[u]) IN
    /\ cpHeld[u] # 0
    /\ cpConns' = IF i = 0 THEN cpConns ELSE [cpConns EXCEPT ![i].in_use = FALSE, ![i].idle = 0]
    /\ cpHeld' = [cpHeld EXCEPT ![u] = 0]
    /\ UNCHANGED cpMade

\* The holder gives a broken connection up.
k8s_connection_pool_remove(u) ==
    LET i == ConnRow(cpHeld[u]) IN
    /\ cpHeld[u] # 0 /\ i # 0
    /\ cpConns' = RemoveAt(cpConns, i)
    /\ cpHeld' = [cpHeld EXCEPT ![u] = 0]
    /\ UNCHANGED cpMade

k8s_connection_pool_cleanup_idle ==
    /\ \E i \in DOMAIN cpConns : ~cpConns[i].in_use /\ cpConns[i].idle > PoolIdle
    /\ cpConns' = SelectSeq(cpConns, LAMBDA c : c.in_use \/ c.idle <= PoolIdle)
    /\ UNCHANGED <<cpHeld, cpMade>>

k8s_connection_pool_get_active == Cardinality({i \in DOMAIN cpConns : cpConns[i].in_use})
k8s_connection_pool_get_idle == Cardinality({i \in DOMAIN cpConns : ~cpConns[i].in_use})

PoolAges ==
    /\ cpConns' = [i \in DOMAIN cpConns |->
            [cpConns[i] EXCEPT !.idle = IF @ <= PoolIdle THEN @ + 1 ELSE @]]
    /\ UNCHANGED <<cpHeld, cpMade>>

PoolNext ==
    /\ \/ \E u \in PoolUsers :
             \/ \E remote \in SvKeys : k8s_connection_pool_acquire(u, remote)
             \/ k8s_connection_pool_release(u) \/ k8s_connection_pool_remove(u)
       \/ k8s_connection_pool_cleanup_idle \/ PoolAges
    /\ UNCHANGED <<rcVars, otherTables>>

---------------------------------------------------------------------------
(* core/events.c: a full store drops its oldest event.                     *)

event_record(key) ==
    LET at == {i \in DOMAIN svEvents : svEvents[i].key = key} IN
    svEvents' = IF at # {} THEN [svEvents EXCEPT ![Min(at)].count = Capped(@)]
                ELSE Append(IF Len(svEvents) >= SvRows THEN Tail(svEvents) ELSE svEvents,
                            [key |-> key, count |-> 1])

event_get_for_pod(key) == SelectSeq(svEvents, LAMBDA e : e.key = key)

event_store_shutdown == svEvents' = <<>>

---------------------------------------------------------------------------
(* apiserver/crd_manager.c.  The store of custom resources is a stub: a    *)
(* resource of a known definition is accepted and never found again.       *)

k8s_crd_manager_get(name) ==
    LET at == {i \in DOMAIN crds : crds[i].name = name} IN IF at = {} THEN 0 ELSE Min(at)

k8s_crd_add_version(versions, v) == IF Len(versions) < CrdVersions THEN Append(versions, v) ELSE versions

k8s_crd_manager_register(name, versions) ==
    /\ Len(crds) < SvRows /\ k8s_crd_manager_get(name) = 0
    /\ crds' = Append(crds, [name |-> name,
                             versions |-> IF versions = <<>> THEN k8s_crd_add_version(<<>>, "v1") ELSE versions])

k8s_crd_manager_unregister(name) ==
    k8s_crd_manager_get(name) # 0 /\ crds' = RemoveAt(crds, k8s_crd_manager_get(name))

\* The versions are added to those that are there, again if they are.
k8s_crd_manager_update(name, versions) ==
    /\ k8s_crd_manager_get(name) # 0
    /\ crds' = [crds EXCEPT ![k8s_crd_manager_get(name)].versions =
                    FoldLeft(k8s_crd_add_version, @, versions)]

k8s_crd_manager_list(room) == IF Len(crds) > room THEN {} ELSE {crds[i].name : i \in DOMAIN crds}
k8s_crd_manager_exists(name) == k8s_crd_manager_get(name) # 0
k8s_custom_resource_validate(name) == k8s_crd_manager_get(name) # 0
k8s_custom_resource_create(name) == k8s_custom_resource_validate(name)
k8s_custom_resource_get(name) == 0
k8s_custom_resource_list(name) == IF k8s_crd_manager_get(name) = 0 THEN -1 ELSE 0
k8s_custom_resource_update(name) == k8s_custom_resource_validate(name)
k8s_custom_resource_delete(name) == k8s_crd_manager_get(name) # 0
k8s_custom_resource_delete_all(name) == k8s_crd_manager_get(name) # 0

---------------------------------------------------------------------------
(* apiserver/admission.c.  Registering does not look for the name; nothing *)
(* asks the webhooks: an object is admitted as it is.                      *)

Unhooked(configs, name) ==
    LET at == {i \in DOMAIN configs : configs[i] = name} IN
    IF at = {} THEN configs ELSE RemoveAt(configs, Min(at))

k8s_admission_register_mutating_webhook(name) ==
    Len(svHooks.mutating) < SvRows /\ svHooks' = [svHooks EXCEPT !.mutating = Append(@, name)]
k8s_admission_register_validating_webhook(name) ==
    Len(svHooks.validating) < SvRows /\ svHooks' = [svHooks EXCEPT !.validating = Append(@, name)]
k8s_admission_unregister_mutating_webhook(name) ==
    svHooks' = [svHooks EXCEPT !.mutating = Unhooked(@, name)]
k8s_admission_unregister_validating_webhook(name) ==
    svHooks' = [svHooks EXCEPT !.validating = Unhooked(@, name)]
k8s_admission_mutate(object) == object
k8s_admission_validate(object) == 0

---------------------------------------------------------------------------
(* apiserver/endpoints.c.  A created service is not looked for; a          *)
(* registered node is not kept: the list is the control plane alone.       *)

init_node_store == {"control-plane"}
endpoint_list_nodes == init_node_store
endpoint_get_node(name) == IF name \in init_node_store THEN 200 ELSE 404
endpoint_register_node(parsed) == IF parsed THEN 200 ELSE 400
endpoint_node_heartbeat(name) == IF name = "" THEN 400 ELSE 200

ServiceRow(name) ==
    LET at == {i \in DOMAIN epServices : epServices[i] = name} IN IF at = {} THEN 0 ELSE Min(at)

endpoint_list_services == epServices
endpoint_get_service(name) == epReply' = IF ServiceRow(name) = 0 THEN 404 ELSE 200

endpoint_create_service(name, parsed) ==
    /\ epReply' = IF ~parsed THEN 400 ELSE IF Len(epServices) >= SvRows THEN 507 ELSE 201
    /\ epServices' = IF epReply' = 201 THEN Append(epServices, name) ELSE epServices

endpoint_delete_service(name) ==
    /\ epReply' = IF ServiceRow(name) = 0 THEN 404 ELSE 200
    /\ epServices' = IF ServiceRow(name) = 0 THEN epServices ELSE RemoveAt(epServices, ServiceRow(name))

endpoint_pod_events(pod) == SelectSeq(epEvents, LAMBDA e : e = pod)

record_pod_event(pod) ==
    epEvents' = Append(IF Len(epEvents) >= SvRows THEN Tail(epEvents) ELSE epEvents, pod)

\* The endpoints below keep nothing: they answer what they were sent, an
\* object of the name they were asked for, or an empty list.
endpoint_list_deployments == 200
endpoint_get_deployment == 200
endpoint_create_deployment(parsed) == IF parsed THEN 201 ELSE 400
endpoint_patch_deployment(parsed) == IF parsed THEN 200 ELSE 400
endpoint_delete_deployment == 200
endpoint_list_daemonsets == 200
endpoint_get_daemonset == 200
endpoint_create_daemonset(parsed) == IF parsed THEN 201 ELSE 400
endpoint_update_daemonset(parsed) == IF parsed THEN 200 ELSE 400
endpoint_patch_daemonset(parsed) == IF parsed THEN 200 ELSE 400
endpoint_delete_daemonset == 200
endpoint_list_jobs == 200
endpoint_get_job == 200
endpoint_create_job(parsed) == IF parsed THEN 201 ELSE 400
endpoint_update_job(parsed) == IF parsed THEN 200 ELSE 400
endpoint_patch_job(parsed) == IF parsed THEN 200 ELSE 400
endpoint_delete_job == 200
endpoint_list_cronjobs == 200
endpoint_get_cronjob == 200
endpoint_create_cronjob(parsed) == IF parsed THEN 201 ELSE 400
endpoint_update_cronjob(parsed) == IF parsed THEN 200 ELSE 400
endpoint_patch_cronjob(parsed) == IF parsed THEN 200 ELSE 400
endpoint_delete_cronjob == 200
endpoint_list_events == 200
endpoint_create_event(parsed) == IF parsed THEN 201 ELSE 400
endpoint_get_event == 200
endpoint_delete_event == 204

StubReplies(parsed) ==
    {endpoint_list_deployments, endpoint_get_deployment, endpoint_delete_deployment,
     endpoint_list_daemonsets, endpoint_get_daemonset, endpoint_delete_daemonset,
     endpoint_list_jobs, endpoint_get_job, endpoint_delete_job,
     endpoint_list_cronjobs, endpoint_get_cronjob, endpoint_delete_cronjob,
     endpoint_list_events, endpoint_get_event, endpoint_delete_event,
     endpoint_create_deployment(parsed), endpoint_patch_deployment(parsed),
     endpoint_create_daemonset(parsed), endpoint_update_daemonset(parsed), endpoint_patch_daemonset(parsed),
     endpoint_create_job(parsed), endpoint_update_job(parsed), endpoint_patch_job(parsed),
     endpoint_create_cronjob(parsed), endpoint_update_cronjob(parsed), endpoint_patch_cronjob(parsed),
     endpoint_create_event(parsed), endpoint_register_node(parsed)}

EventNext ==
    /\ event_store_shutdown \/ \E name \in SvKeys : event_record(name)
    /\ UNCHANGED <<rcVars, cpVars, crds, svHooks, epServices, epEvents, epReply>>

CrdNext ==
    /\ \E name \in SvKeys, versions \in {<<>>, <<"v2">>} :
          \/ k8s_crd_manager_register(name, versions)
          \/ k8s_crd_manager_update(name, versions)
          \/ k8s_crd_manager_unregister(name)
    /\ UNCHANGED <<rcVars, cpVars, svEvents, svHooks, epServices, epEvents, epReply>>

HookNext ==
    /\ \E name \in SvKeys :
          \/ k8s_admission_register_mutating_webhook(name)
          \/ k8s_admission_register_validating_webhook(name)
          \/ k8s_admission_unregister_mutating_webhook(name)
          \/ k8s_admission_unregister_validating_webhook(name)
    /\ UNCHANGED <<rcVars, cpVars, svEvents, crds, epServices, epEvents, epReply>>

EpNext ==
    /\ \E name \in SvKeys, parsed \in BOOLEAN :
          \/ endpoint_create_service(name, parsed) /\ UNCHANGED epEvents
          \/ endpoint_delete_service(name) /\ UNCHANGED epEvents
          \/ endpoint_get_service(name) /\ UNCHANGED <<epServices, epEvents>>
          \/ epReply' \in StubReplies(parsed) /\ UNCHANGED <<epServices, epEvents>>
          \/ record_pod_event(name) /\ UNCHANGED <<epServices, epReply>>
    /\ UNCHANGED <<rcVars, cpVars, svEvents, crds, svHooks>>

SvInit ==
    /\ k8s_request_cache_new /\ k8s_connection_pool_new
    /\ svEvents = <<>> /\ crds = <<>> /\ svHooks = [mutating |-> <<>>, validating |-> <<>>]
    /\ epServices = <<>> /\ epEvents = <<>> /\ epReply = 0

\* However entries are put, hit, expired, removed and evicted, the bytes the
\* cache accounts for are those of the entries it has, and it has no more
\* entries than it may.
CacheAccounted ==
    /\ rcBytes = FoldSeq(LAMBDA e, n : e.size + n, 0, rcEntries)
    /\ Len(rcEntries) <= CacheEntries

\* A connection in use has exactly one holder, which the pool still knows, and
\* a connection nobody holds is idle.
ConnectionHeldOnce ==
    /\ \A i \in DOMAIN cpConns :
          Cardinality({u \in PoolUsers : cpHeld[u] = cpConns[i].id}) = IF cpConns[i].in_use THEN 1 ELSE 0
    /\ \A u \in PoolUsers : cpHeld[u] # 0 => ConnRow(cpHeld[u]) # 0
    /\ Len(cpConns) <= PoolLimit

=============================================================================
