-------------------------------- MODULE Quota --------------------------------
(***************************************************************************)
(* Admission by quota and by limit range.                                   *)
(*  - resource_quota.c behind its mutex, with quota_middleware.c, which     *)
(*    works out what a pod asks for;                                        *)
(*  - quota_controller.c over the types of pkg/types/quota.c, used by one   *)
(*    thread;                                                               *)
(*  - limitrange.c behind its mutex.                                        *)
(* Asking whether a pod may be created and charging for it are two calls,   *)
(* so the threads that create pods (they are not in the repository) may all *)
(* be told yes before one of them is charged.                               *)
(***************************************************************************)
EXTENDS Integers, Sequences, SequencesExt, FiniteSetsExt

CONSTANTS
    QtCallers,     \* threads that create and delete objects
    QtNames,       \* names of quotas and limit ranges, in one namespace
    QtHards,       \* hard limits given to quotas
    QtPods,        \* pods: sequences of containers
    QtObjects,     \* bound on the objects that exist at a time
    MaxQuotas,     \* MAX_RESOURCE_QUOTAS
    LrItems,       \* sequences of items given to limit ranges
    LrContainers,  \* containers admitted against them
    MaxLimitRanges \* 100 in the code

VARIABLES
    quotas,   \* g_quota_manager.quotas, in table order
    qtPc,     \* a caller: nothing, or what it has been allowed to create
    qtHeld,   \* the objects that exist, a sequence of what each uses
    ctlQuotas,\* the quotas of the quota controller
    ctlEnabled,
    ctlHeld,  \* the objects charged to them
    ranges,   \* limitrange_manager.limitranges, in table order
    lrPc      \* a container on its way through the limit ranges

qtVars == <<quotas, qtPc, qtHeld>>
ctlVars == <<ctlQuotas, ctlEnabled, ctlHeld>>
lrVars == <<ranges, lrPc>>

QtKinds == {"cpu", "memory", "pods", "services", "configmaps", "secrets"}
quota_usage_t == [QtKinds -> Nat]
Nothing == [k \in QtKinds |-> 0]

quota_add(total, qty) == [k \in QtKinds |-> total[k] + qty[k]]
quota_subtract(total, qty) ==
    [k \in QtKinds |-> IF total[k] < qty[k] THEN 0 ELSE total[k] - qty[k]]

\* What the objects that exist add up to.
Total(held) == FoldLeft(quota_add, Nothing, held)

-----------------------------------------------------------------------------
(* quota_middleware.c: what a pod asks for.                                *)

parse_cpu_quantity(q) == IF q.unit = "m" THEN q.value ELSE q.value * 1000
parse_memory_quantity(q) ==
    q.value * (CASE q.unit = "Ki" -> 1024 [] q.unit = "Mi" -> 1048576 [] OTHER -> 1)

\* A container's request is added to the total; its limit replaces the total
\* when it is larger than the total so far.
AddContainer(total, request, limit) ==
    LET sum == total + request IN IF limit > sum THEN limit ELSE sum

parse_pod_cpu(pod) ==
    FoldLeft(LAMBDA t, c : AddContainer(t, parse_cpu_quantity(c.cpu_request),
                                        parse_cpu_quantity(c.cpu_limit)), 0, pod)
parse_pod_memory(pod) ==
    FoldLeft(LAMBDA t, c : AddContainer(t, parse_memory_quantity(c.memory_request),
                                        parse_memory_quantity(c.memory_limit)), 0, pod)

\* A pod that gives nothing is taken to ask for 100m and 128Mi.
PodDemand(pod) ==
    [Nothing EXCEPT !.cpu = IF parse_pod_cpu(pod) = 0 THEN 100 ELSE parse_pod_cpu(pod),
                    !.memory = IF parse_pod_memory(pod) = 0 THEN 134217728
                               ELSE parse_pod_memory(pod),
                    !.pods = 1]
ServiceDemand == [Nothing EXCEPT !.services = 1]
ConfigMapDemand == [Nothing EXCEPT !.configmaps = 1]
SecretDemand == [Nothing EXCEPT !.secrets = 1]

-----------------------------------------------------------------------------
(* resource_quota.c.  Only the first quota of a namespace is looked at and  *)
(* charged.                                                                 *)

find_quota_index(name) == {i \in DOMAIN quotas : quotas[i].name = name}

resource_quota_create(name, hard) ==
    /\ find_quota_index(name) = {}
    /\ Len(quotas) < MaxQuotas
    /\ quotas' = Append(quotas, [name |-> name, hard |-> hard, used |-> Nothing])
    /\ UNCHANGED <<qtPc, qtHeld>>

\* The usage is kept.
resource_quota_update(name, hard) ==
    /\ \E i \in find_quota_index(name) : quotas' = [quotas EXCEPT ![i].hard = hard]
    /\ UNCHANGED <<qtPc, qtHeld>>

resource_quota_delete(name) ==
    /\ \E i \in find_quota_index(name) : quotas' = RemoveAt(quotas, i)
    /\ UNCHANGED <<qtPc, qtHeld>>

\* Mutant of resource_quota_can_create_pod: the count of pods may pass the limit.
resource_quota_can_create_pod_off_by_one(q, what) ==
    /\ \A k \in {"cpu", "memory"} : q.hard[k] > 0 => q.used[k] + what[k] <= q.hard[k]
    /\ q.hard.pods > 0 => q.used.pods <= q.hard.pods

\* A limit of 0 is no limit.  A pod is refused when the total would pass the
\* limit for cpu and memory, and when the count has reached it for pods.
resource_quota_can_create_pod(q, what) ==
    /\ \A k \in {"cpu", "memory"} : q.hard[k] > 0 => q.used[k] + what[k] <= q.hard[k]
    /\ q.hard.pods > 0 => q.used.pods < q.hard.pods

resource_quota_can_create_service(q) == q.hard.services > 0 => q.used.services < q.hard.services
resource_quota_can_create_configmap(q) == q.hard.configmaps > 0 => q.used.configmaps < q.hard.configmaps
resource_quota_can_create_secret(q) == q.hard.secrets > 0 => q.used.secrets < q.hard.secrets

\* Without a quota the answer is QUOTA_NOT_FOUND and the object is created; with one, the
\* first has to be among those that admit the object.
Allowed(c, what, admitting) ==
    /\ qtPc[c] = Nothing /\ Len(qtHeld) < QtObjects
    /\ quotas # <<>> => 1 \in admitting
    /\ qtPc' = [qtPc EXCEPT ![c] = what]
    /\ UNCHANGED <<quotas, qtHeld>>

quota_middleware_check_pod_creation(c, pod) ==
    Allowed(c, PodDemand(pod), {i \in DOMAIN quotas : resource_quota_can_create_pod(quotas[i], PodDemand(pod))})
quota_middleware_check_service_creation(c) ==
    Allowed(c, ServiceDemand, {i \in DOMAIN quotas : resource_quota_can_create_service(quotas[i])})
quota_middleware_check_configmap_creation(c) ==
    Allowed(c, ConfigMapDemand, {i \in DOMAIN quotas : resource_quota_can_create_configmap(quotas[i])})
quota_middleware_check_secret_creation(c) ==
    Allowed(c, SecretDemand, {i \in DOMAIN quotas : resource_quota_can_create_secret(quotas[i])})

\* Charge the first quota, if there is one.
Charge(c, kind) ==
    /\ qtPc[c][kind] > 0
    /\ quotas' = IF quotas = <<>> THEN quotas
                 ELSE [quotas EXCEPT ![1].used = quota_add(@, qtPc[c])]
    /\ qtHeld' = Append(qtHeld, qtPc[c])
    /\ qtPc' = [qtPc EXCEPT ![c] = Nothing]

resource_quota_add_pod(c) == Charge(c, "pods")
resource_quota_add_service(c) == Charge(c, "services")
resource_quota_add_configmap(c) == Charge(c, "configmaps")
resource_quota_add_secret(c) == Charge(c, "secrets")

\* Give back to the first quota, which may be another than the one charged;
\* what would fall below 0 is set to 0.
GiveBack(kind) ==
    \E i \in DOMAIN qtHeld :
        /\ qtHeld[i][kind] > 0
        /\ quotas' = IF quotas = <<>> THEN quotas
                     ELSE [quotas EXCEPT ![1].used = quota_subtract(@, qtHeld[i])]
        /\ qtHeld' = RemoveAt(qtHeld, i)
        /\ UNCHANGED qtPc

resource_quota_remove_pod == GiveBack("pods")
resource_quota_remove_service == GiveBack("services")
resource_quota_remove_configmap == GiveBack("configmaps")
resource_quota_remove_secret == GiveBack("secrets")

\* resource_quota_manager_shutdown, and init again.
resource_quota_manager_shutdown ==
    /\ quotas' = <<>>
    /\ UNCHANGED <<qtPc, qtHeld>>

QtNext ==
    \/ \E name \in QtNames, hard \in QtHards :
         resource_quota_create(name, hard) \/ resource_quota_update(name, hard)
    \/ \E name \in QtNames : resource_quota_delete(name)
    \/ resource_quota_manager_shutdown
    \/ \E c \in QtCallers :
         \/ \E pod \in QtPods : quota_middleware_check_pod_creation(c, pod)
         \/ quota_middleware_check_service_creation(c)
         \/ quota_middleware_check_configmap_creation(c)
         \/ quota_middleware_check_secret_creation(c)
         \/ resource_quota_add_pod(c) \/ resource_quota_add_service(c)
         \/ resource_quota_add_configmap(c) \/ resource_quota_add_secret(c)
    \/ resource_quota_remove_pod \/ resource_quota_remove_service
    \/ resource_quota_remove_configmap \/ resource_quota_remove_secret

-----------------------------------------------------------------------------
(* quota_controller.c: every quota of the namespace is asked and charged,   *)
(* and a limit of 0 admits nothing.                                         *)

find_ctl_quota(name) == {i \in DOMAIN ctlQuotas : ctlQuotas[i].name = name}
k8s_resource_quota_new(name, hard) == [name |-> name, hard |-> hard, used |-> Nothing]

k8s_quota_controller_create_quota(name, hard) ==
    /\ Len(ctlQuotas) < MaxQuotas
    /\ find_ctl_quota(name) = {}
    /\ ctlQuotas' = Append(ctlQuotas, k8s_resource_quota_new(name, hard))
    /\ UNCHANGED <<ctlEnabled, ctlHeld>>

\* The new object takes the place of the old one, with its own usage of 0.
k8s_quota_controller_update_quota(name, hard) ==
    /\ \E i \in find_ctl_quota(name) :
         ctlQuotas' = [ctlQuotas EXCEPT ![i] = k8s_resource_quota_new(name, hard)]
    /\ UNCHANGED <<ctlEnabled, ctlHeld>>

k8s_quota_controller_delete_quota(name) ==
    /\ \E i \in find_ctl_quota(name) : ctlQuotas' = RemoveAt(ctlQuotas, i)
    /\ UNCHANGED <<ctlEnabled, ctlHeld>>

k8s_quota_controller_set_enabled(enabled) ==
    /\ ctlEnabled' = enabled
    /\ UNCHANGED <<ctlQuotas, ctlHeld>>

k8s_resource_quantity_exceeds(used, limit) == \E k \in QtKinds : used[k] > limit[k]
k8s_resource_quota_can_admit(q, what) ==
    ~k8s_resource_quantity_exceeds(quota_add(q.used, what), q.hard)
k8s_quota_controller_can_admit_resource(what) ==
    ctlEnabled => \A i \in DOMAIN ctlQuotas : k8s_resource_quota_can_admit(ctlQuotas[i], what)

k8s_quota_controller_record_resource_usage(what) ==
    ctlQuotas' = [i \in DOMAIN ctlQuotas |->
                    [ctlQuotas[i] EXCEPT !.used = quota_add(@, what)]]
k8s_quota_controller_release_resource_usage(what) ==
    ctlQuotas' = [i \in DOMAIN ctlQuotas |->
                    [ctlQuotas[i] EXCEPT !.used = quota_subtract(@, what)]]

CtlCreate(what) ==
    /\ Len(ctlHeld) < QtObjects
    /\ k8s_quota_controller_can_admit_resource(what)
    /\ k8s_quota_controller_record_resource_usage(what)
    /\ ctlHeld' = Append(ctlHeld, what)
    /\ UNCHANGED ctlEnabled

CtlDelete ==
    /\ \E i \in DOMAIN ctlHeld :
         /\ k8s_quota_controller_release_resource_usage(ctlHeld[i])
         /\ ctlHeld' = RemoveAt(ctlHeld, i)
    /\ UNCHANGED ctlEnabled

CtlNext ==
    \/ \E name \in QtNames, hard \in QtHards :
         \/ k8s_quota_controller_create_quota(name, hard)
         \/ k8s_quota_controller_update_quota(name, hard)
    \/ \E name \in QtNames : k8s_quota_controller_delete_quota(name)
    \/ \E enabled \in BOOLEAN : k8s_quota_controller_set_enabled(enabled)
    \/ \E pod \in QtPods : CtlCreate(PodDemand(pod))
    \/ CtlDelete

-----------------------------------------------------------------------------
(* limitrange.c.  An item has a type and, for cpu, a minimum, a maximum and *)
(* defaults for the request and the limit; memory is treated alike.  0 is   *)
(* no bound.                                                                *)

find_limitrange_index(name) == {i \in DOMAIN ranges : ranges[i].name = name}

limitrange_validate_spec(items) == Len(items) \in 1..10

limitrange_create(name, items) ==
    /\ Len(ranges) < MaxLimitRanges
    /\ find_limitrange_index(name) = {}
    /\ limitrange_validate_spec(items)
    /\ ranges' = Append(ranges, [name |-> name, items |-> items])
    /\ UNCHANGED lrPc

limitrange_update(name, items) ==
    /\ limitrange_validate_spec(items)
    /\ \E i \in find_limitrange_index(name) : ranges' = [ranges EXCEPT ![i].items = items]
    /\ UNCHANGED lrPc

limitrange_delete(name) ==
    /\ \E i \in find_limitrange_index(name) : ranges' = RemoveAt(ranges, i)
    /\ UNCHANGED lrPc

\* The first item of a type in the first limit range of the namespace: the
\* search does not go on to the next range.  <<>> if there is none.
FirstItem(type) ==
    IF ranges = <<>> THEN <<>>
    ELSE LET found == SelectSeq(Head(ranges).items, LAMBDA it : it.type = type)
         IN  IF found = <<>> THEN <<>> ELSE <<Head(found)>>

Default(value, fallback) == IF value > 0 THEN value ELSE fallback

limitrange_apply_container_defaults(container) ==
    LET item == FirstItem("Container")
    IN  IF item = <<>> THEN container
        ELSE [container EXCEPT !.request = Default(@, item[1].default_request)]

limitrange_apply_container_limit_defaults(container) ==
    LET item == FirstItem("Container")
    IN  IF item = <<>> THEN container
        ELSE [container EXCEPT !.limit = Default(@, item[1].default)]

\* Mutant of limitrange_validate_container: the bounds themselves are refused.
limitrange_validate_container_strict(container) ==
    LET item == FirstItem("Container")
    IN  item # <<>> =>
          /\ container.request > 0 /\ item[1].min > 0 => container.request > item[1].min
          /\ container.limit > 0 /\ item[1].max > 0 => container.limit < item[1].max

\* The minimum is held against the request only, the maximum against the limit.
limitrange_validate_container(container) ==
    LET item == FirstItem("Container")
    IN  item # <<>> =>
          /\ container.request > 0 /\ item[1].min > 0 => container.request >= item[1].min
          /\ container.limit > 0 /\ item[1].max > 0 => container.limit <= item[1].max

limitrange_validate_pod(request) ==
    LET item == FirstItem("Pod")
    IN  item # <<>> => (request > 0 /\ item[1].max > 0 => request <= item[1].max)

limitrange_validate_storage(bytes) ==
    LET item == FirstItem("PersistentVolumeClaim")
    IN  item # <<>> => (bytes > 0 /\ item[1].max > 0 => bytes <= item[1].max)

\* A caller takes a container through the three calls; the ranges may change
\* between them.
LrStart(container) ==
    /\ lrPc.at = "idle"
    /\ lrPc' = [at |-> "limits", container |-> limitrange_apply_container_defaults(container)]
    /\ UNCHANGED ranges

LrLimits ==
    /\ lrPc.at = "limits"
    /\ lrPc' = [at |-> "validate",
                container |-> limitrange_apply_container_limit_defaults(lrPc.container)]
    /\ UNCHANGED ranges

\* Then the pod made of this one container and its claim is admitted or refused.
LrValidate ==
    /\ lrPc.at = "validate"
    /\ lrPc' = [lrPc EXCEPT !.at =
         IF /\ limitrange_validate_container(lrPc.container)
            /\ limitrange_validate_pod(lrPc.container.request)
            /\ limitrange_validate_storage(lrPc.container.storage)
         THEN "admitted" ELSE "refused"]
    /\ UNCHANGED ranges

LrDone ==
    /\ lrPc.at \in {"admitted", "refused"}
    /\ lrPc' = [lrPc EXCEPT !.at = "idle"]
    /\ UNCHANGED ranges

LrNext ==
    \/ \E name \in QtNames, items \in LrItems :
         limitrange_create(name, items) \/ limitrange_update(name, items)
    \/ \E name \in QtNames : limitrange_delete(name)
    \/ \E container \in LrContainers : LrStart(container)
    \/ LrLimits \/ LrValidate \/ LrDone

QuotaInit ==
    /\ quotas = <<>> /\ qtPc = [c \in QtCallers |-> Nothing] /\ qtHeld = <<>>
    /\ ctlQuotas = <<>> /\ ctlEnabled = TRUE /\ ctlHeld = <<>>
    /\ ranges = <<>>
    /\ lrPc = [at |-> "idle", container |-> CHOOSE c \in LrContainers : TRUE]

-----------------------------------------------------------------------------
Largest(rows, k) == Max({r[k] : r \in rows})

\* The quotas neither let too much through nor refuse for objects that are
\* gone.  With n callers between the check and the charge, the first quota of
\* resource_quota.c is passed by at most what n - 1 of them ask for; and no
\* quota, of either implementation, counts more than the objects that exist
\* use, however quotas come, go and are replaced under them (usage is set to 0
\* rather than below when an object is given back to a quota that was never
\* charged for it).
QuotaBounded ==
    /\ \A i \in DOMAIN quotas : \A k \in QtKinds :
         /\ quotas[i].used[k] <= Total(qtHeld)[k]
         /\ (\A h \in QtHards : h[k] > 0) =>
              quotas[i].used[k] <=
                Largest(QtHards, k) + (Cardinality(QtCallers) - 1)
                  * Largest({PodDemand(p) : p \in QtPods} \cup {ServiceDemand}, k)
    /\ \A i \in DOMAIN ctlQuotas : \A k \in QtKinds :
         ctlQuotas[i].used[k] <= Total(ctlHeld)[k]

\* Defaults and bounds of a limit range agree: where the minimum is at most the
\* default request, and the default limit at most the maximum, a container that
\* gives no figures is given some that pass (limitrange_apply_container_defaults,
\* limitrange_apply_container_limit_defaults, limitrange_validate_container).
DefaultsPass ==
    LET item == FirstItem("Container")
        empty == [request |-> 0, limit |-> 0, storage |-> 0]
    IN  item # <<>> /\ item[1].min <= item[1].default_request
                    /\ item[1].default <= item[1].max =>
          limitrange_validate_container(limitrange_apply_container_limit_defaults(
              limitrange_apply_container_defaults(empty)))

=============================================================================
