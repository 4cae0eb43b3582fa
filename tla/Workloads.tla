----------------------------- MODULE Workloads -----------------------------
(***************************************************************************)
(* The workload controllers that work on etcd: the handlers of             *)
(* apiserver/endpoints_controllers.c, apiserver/endpoints_etcd_services.c, *)
(* apiserver/endpoints_etcd_deployments.c and                              *)
(* controller/phase5_controllers.c, the loops and handlers of              *)
(* controller/statefulset_controller.c and                                 *)
(* controller/daemonset_controller.c, and the sweep of                     *)
(* apiserver/controllers.c, which goes through the object API.             *)
(*                                                                         *)
(* The resources share no keys, so a behaviour is about one object of one  *)
(* kind (wlKind) and the pods made for it.  A slot is an ordinal of a      *)
(* StatefulSet or a node of a DaemonSet.  The store is etcd as EtcdClient  *)
(* describes it: a call may fail, a failed write may have been made, and a *)
(* get leaves response->revision at 0.                                     *)
(***************************************************************************)
EXTENDS Integers, FiniteSets

CONSTANTS
    WlKinds,      \* the resources looked at
    WlUsers,      \* threads that serve requests
    WlOrdinals,   \* bound: replicas asked for
    WlNodes,      \* names of nodes
    WlRetries,    \* max_retries of job_track_execution
    WlFailBound,  \* bound: calls that fail
    WlRevBound    \* bound: writes of the object

CasKinds == {"statefulsets", "jobs", "limitranges", "daemonsets"}
SetKinds == {"services", "deployments"}
ApiKinds == {"statefulsets_api", "jobs_api"}

ASSUME WlAssumption ==
    /\ WlKinds \subseteq CasKinds \cup SetKinds \cup ApiKinds
    /\ WlOrdinals \in Nat /\ WlRetries \in Nat
    /\ WlFailBound \in Nat /\ WlRevBound \in Nat

VARIABLES
    wlKind,   \* the resource of this behaviour
    wlOmits,  \* external: etcd leaves an empty kvs array out of its replies
    wlObj,    \* external: the object
    wlRev,    \* external: etcd's revision
    wlReq,    \* thread -> the request it serves
    wlPods,   \* external: slot -> phase of its pod
    wlTaint,  \* external: the nodes with a NoSchedule taint
    wlLoop,   \* the controller's thread
    wlSync,   \* g_controller_status of the kind
    wlFails   \* calls that have failed

wlVars == <<wlKind, wlOmits, wlObj, wlRev, wlReq, wlPods, wlTaint, wlLoop, wlSync, wlFails>>

NoObject  == [mod |-> 0, spec |-> 0, failed |-> 0, over |-> FALSE]
Ready     == [pc |-> "idle", read |-> NoObject, want |-> 0, left |-> {}, code |-> 0]
Resting   == [pc |-> "rest", want |-> 0, left |-> {}]

\* The names of the pods: ordinals, nodes, or (Jobs) seconds of the clock.
Slots == CASE wlKind \in ApiKinds \cup {"statefulsets"} -> 0 .. WlOrdinals - 1
           [] wlKind = "daemonsets" -> WlNodes
           [] OTHER -> {}

\* The slots of an object of this kind that asks for n, tainted nodes included.
Wanted(n) == IF wlKind = "daemonsets" THEN WlNodes ELSE {s \in Slots : s < n}

WlInit ==
    /\ wlKind \in WlKinds
    /\ wlOmits \in BOOLEAN
    /\ wlObj = NoObject
    /\ wlRev = 0
    /\ wlReq = [u \in WlUsers |-> Ready]
    /\ wlPods = [s \in Slots |-> "none"]
    /\ wlTaint = {}
    /\ wlLoop = Resting
    /\ wlSync = [enabled |-> TRUE, due |-> TRUE, running |-> TRUE]
    /\ wlFails = 0

Fails == wlFails < WlFailBound /\ wlFails' = wlFails + 1
Works == UNCHANGED wlFails

\* A put has the next revision.  That of a delete is compared with nothing and not counted.
WlWrite(obj) ==
    IF obj = NoObject THEN wlObj' = NoObject /\ UNCHANGED wlRev
    ELSE /\ wlRev < WlRevBound /\ wlRev' = wlRev + 1
         /\ wlObj' = [obj EXCEPT !.mod = wlRev + 1]

WlNoWrite == UNCHANGED <<wlObj, wlRev>>

\* A put or a delete; one that fails may have been made.
WlPut(u, obj, code) ==
    \/ Works /\ WlWrite(obj) /\ wlReq' = [wlReq EXCEPT ![u] = [Ready EXCEPT !.code = code]]
    \/ /\ Fails /\ (WlWrite(obj) \/ WlNoWrite)
       /\ wlReq' = [wlReq EXCEPT ![u] = [Ready EXCEPT !.code = 500]]

\* etcd_manager_get leaves response->revision alone.
GetRevision == 0

otherThanObj == <<wlKind, wlOmits, wlPods, wlTaint, wlLoop, wlSync>>

WlAt(u, k, pc) == wlKind = k /\ wlReq[u].pc = pc

Replies(u, code) ==
    /\ wlReq' = [wlReq EXCEPT ![u] = [Ready EXCEPT !.code = code]]
    /\ WlNoWrite

---------------------------------------------------------------------------
(* POST: a body without a name is refused; otherwise whatever is stored is *)
(* replaced.  DELETE: the object goes, its pods stay.                      *)

Posted(u, k) ==
    /\ WlAt(u, k, "idle")
    /\ \/ Works /\ Replies(u, 400)
       \/ \E n \in 0 .. WlOrdinals : WlPut(u, [NoObject EXCEPT !.mod = 1, !.spec = n], 201)
    /\ UNCHANGED otherThanObj

endpoint_create_statefulset(u)     == Posted(u, "statefulsets")
endpoint_create_statefulset_sts(u) == Posted(u, "statefulsets")
create_statefulset_defaults(u)     == Posted(u, "statefulsets")
endpoint_create_job(u)             == Posted(u, "jobs")
endpoint_create_limitrange(u)      == Posted(u, "limitranges")
endpoint_create_daemonset(u)       == Posted(u, "daemonsets")
create_daemonset_phase5(u)         == Posted(u, "daemonsets")
endpoint_create_service_etcd(u)    == Posted(u, "services")
endpoint_create_deployment_etcd(u) == Posted(u, "deployments")

WlPost(u) ==
    \/ endpoint_create_statefulset(u) \/ endpoint_create_statefulset_sts(u)
    \/ create_statefulset_defaults(u) \/ endpoint_create_job(u)
    \/ endpoint_create_limitrange(u) \/ endpoint_create_daemonset(u)
    \/ create_daemonset_phase5(u) \/ endpoint_create_service_etcd(u)
    \/ endpoint_create_deployment_etcd(u)

Deleted(u, k) ==
    /\ WlAt(u, k, "idle")
    /\ WlPut(u, NoObject, 204)
    /\ UNCHANGED otherThanObj

endpoint_delete_statefulset(u)     == Deleted(u, "statefulsets")
endpoint_delete_statefulset_sts(u) == Deleted(u, "statefulsets")
delete_statefulset_again(u)        == Deleted(u, "statefulsets")
endpoint_delete_job(u)             == Deleted(u, "jobs")
endpoint_delete_limitrange(u)      == Deleted(u, "limitranges")
endpoint_delete_daemonset(u)       == Deleted(u, "daemonsets")
delete_daemonset_phase5(u)         == Deleted(u, "daemonsets")
endpoint_delete_service_etcd(u)    == Deleted(u, "services")
endpoint_delete_deployment_etcd(u) == Deleted(u, "deployments")

WlDelete(u) ==
    \/ endpoint_delete_statefulset(u) \/ endpoint_delete_statefulset_sts(u)
    \/ delete_statefulset_again(u) \/ endpoint_delete_job(u)
    \/ endpoint_delete_limitrange(u) \/ endpoint_delete_daemonset(u)
    \/ delete_daemonset_phase5(u) \/ endpoint_delete_service_etcd(u)
    \/ endpoint_delete_deployment_etcd(u)

---------------------------------------------------------------------------
(* GET answers 404 also when the call fails, except for services and       *)
(* deployments; LIST answers 200 whatever the call said, with the same     *)
(* exception.                                                              *)

Got(u, k, failed) ==
    /\ WlAt(u, k, "idle")
    /\ \/ Works /\ Replies(u, IF wlObj = NoObject THEN 404 ELSE 200)
       \/ Fails /\ Replies(u, failed)
    /\ UNCHANGED otherThanObj

endpoint_get_statefulset(u)     == Got(u, "statefulsets", 404)
endpoint_get_statefulset_sts(u) == Got(u, "statefulsets", 404)
get_statefulset_again(u)        == Got(u, "statefulsets", 404)
endpoint_get_job(u)             == Got(u, "jobs", 404)
endpoint_get_limitrange(u)      == Got(u, "limitranges", 404)
endpoint_get_daemonset(u)       == Got(u, "daemonsets", 404)
endpoint_get_service_etcd(u)    == Got(u, "services", 500)
endpoint_get_deployment_etcd(u) == Got(u, "deployments", 500)

WlGet(u) ==
    \/ endpoint_get_statefulset(u) \/ endpoint_get_statefulset_sts(u)
    \/ get_statefulset_again(u) \/ endpoint_get_job(u)
    \/ endpoint_get_limitrange(u) \/ endpoint_get_daemonset(u)
    \/ endpoint_get_service_etcd(u) \/ endpoint_get_deployment_etcd(u)

Listed(u, k, failed) ==
    /\ WlAt(u, k, "idle")
    /\ \/ Works /\ Replies(u, 200)
       \/ Fails /\ Replies(u, failed)
    /\ UNCHANGED otherThanObj

endpoint_list_statefulsets(u)     == Listed(u, "statefulsets", 200)
endpoint_list_statefulsets_sts(u) == Listed(u, "statefulsets", 200)
list_statefulsets_again(u)        == Listed(u, "statefulsets", 200)
endpoint_list_jobs(u)             == Listed(u, "jobs", 200)
endpoint_list_limitranges(u)      == Listed(u, "limitranges", 200)
endpoint_list_daemonsets(u)       == Listed(u, "daemonsets", 200)
list_daemonsets_phase5(u)         == Listed(u, "daemonsets", 200)
endpoint_list_services_etcd(u)    == Listed(u, "services", 500)
endpoint_list_deployments_etcd(u) == Listed(u, "deployments", 500)

WlList(u) ==
    \/ endpoint_list_statefulsets(u) \/ endpoint_list_statefulsets_sts(u)
    \/ list_statefulsets_again(u) \/ endpoint_list_jobs(u)
    \/ endpoint_list_limitranges(u) \/ endpoint_list_daemonsets(u)
    \/ list_daemonsets_phase5(u) \/ endpoint_list_services_etcd(u)
    \/ endpoint_list_deployments_etcd(u)

---------------------------------------------------------------------------
(* PATCH: a get, and a compare-and-swap with the revision that get left at *)
(* 0: it takes place only when the object has gone in between.             *)

Reads(u, k, pc, failed) ==
    /\ WlAt(u, k, "idle")
    /\ \/ /\ Works /\ wlObj # NoObject
          /\ \E n \in 0 .. WlOrdinals :
                wlReq' = [wlReq EXCEPT ![u] = [Ready EXCEPT !.pc = pc, !.read = wlObj, !.want = n]]
          /\ WlNoWrite
       \/ Works /\ wlObj = NoObject /\ Replies(u, 404)
       \/ Fails /\ Replies(u, failed)
    /\ UNCHANGED otherThanObj

\* etcd_manager_patch: the codes for a compare that fails and for a call that fails.
Swaps(u, obj, ok, conflict, failed) ==
    /\ \/ Works /\ wlObj.mod = GetRevision /\ WlWrite(obj)
          /\ wlReq' = [wlReq EXCEPT ![u] = [Ready EXCEPT !.code = ok]]
       \/ Works /\ wlObj.mod # GetRevision /\ Replies(u, conflict)
       \/ Fails /\ Replies(u, failed)

Patched(u, k, conflict) ==
    \/ Reads(u, k, "patch", 404)
    \/ /\ WlAt(u, k, "patch")
       /\ Swaps(u, [wlReq[u].read EXCEPT !.spec = wlReq[u].want], 200, conflict, 500)
       /\ UNCHANGED otherThanObj

endpoint_patch_statefulset(u)     == Patched(u, "statefulsets", 409)
endpoint_patch_statefulset_sts(u) == Patched(u, "statefulsets", 500)
patch_statefulset_replicas(u)     == Patched(u, "statefulsets", 500)
endpoint_patch_job(u)             == Patched(u, "jobs", 409)
endpoint_patch_limitrange(u)      == Patched(u, "limitranges", 409)
endpoint_patch_daemonset(u)       == Patched(u, "daemonsets", 500)

\* Services and deployments compare the client's resourceVersion with mod_revision and
\* then put, whatever has happened since the get.
CheckedPut(u, k) ==
    \/ Reads(u, k, "check", 500)
    \/ /\ WlAt(u, k, "check")
       /\ \/ Works /\ Replies(u, 409)
          \/ WlPut(u, [wlReq[u].read EXCEPT !.spec = wlReq[u].want], 200)
       /\ UNCHANGED otherThanObj

endpoint_patch_service_etcd(u)    == CheckedPut(u, "services")
endpoint_patch_deployment_etcd(u) == CheckedPut(u, "deployments")

\* A pod of the job has failed: one more failure, and the end when max_retries is
\* reached; otherwise the thread sleeps between the get and the compare-and-swap.
job_track_execution(u) ==
    \/ Reads(u, "jobs", "track", 0)
    \/ /\ WlAt(u, "jobs", "track")
       /\ LET n == wlReq[u].read.failed + 1
          IN  Swaps(u, [wlReq[u].read EXCEPT !.failed = n, !.over = @ \/ n >= WlRetries],
                    0, 0, 0)
       /\ UNCHANGED otherThanObj

WlPatch(u) ==
    \/ endpoint_patch_statefulset(u) \/ endpoint_patch_statefulset_sts(u)
    \/ patch_statefulset_replicas(u) \/ endpoint_patch_job(u)
    \/ endpoint_patch_limitrange(u) \/ endpoint_patch_daemonset(u)
    \/ endpoint_patch_service_etcd(u) \/ endpoint_patch_deployment_etcd(u)
    \/ job_track_execution(u)

---------------------------------------------------------------------------
(* statefulset_scale: pods are made or deleted one by one, then the number *)
(* of replicas is swapped in, and the outcome of that ignored.             *)

SetPod(s, phase) ==
    \/ Works /\ wlPods' = [wlPods EXCEPT ![s] = phase]
    \/ Fails /\ wlPods' \in {wlPods, [wlPods EXCEPT ![s] = phase]}

statefulset_create_pod(s) == SetPod(s, "Pending")

Between(m, n) == {s \in Slots : m <= s /\ s < n}

statefulset_scale(u) ==
    LET r   == wlReq[u]
        up  == Between(r.read.spec, r.want)
        off == Between(r.want, r.read.spec)
    IN  \/ Reads(u, "statefulsets", "scale", 0)
        \/ /\ WlAt(u, "statefulsets", "scale") /\ up \cup off # {}
           /\ wlReq' = [wlReq EXCEPT ![u].pc = "scaling", ![u].left = up \cup off]
           /\ Works /\ WlNoWrite /\ UNCHANGED otherThanObj
        \/ /\ WlAt(u, "statefulsets", "scaling") /\ r.left # {}
           /\ \E s \in r.left :
                 /\ \A t \in r.left : IF up # {} THEN s <= t ELSE t <= s
                 /\ IF up # {} THEN statefulset_create_pod(s) ELSE SetPod(s, "none")
                 /\ wlReq' = [wlReq EXCEPT ![u].left = @ \ {s}]
           /\ WlNoWrite
           /\ UNCHANGED <<wlKind, wlOmits, wlTaint, wlLoop, wlSync>>
        \/ /\ wlKind = "statefulsets" /\ r.left = {}
           /\ r.pc = "scaling" \/ (r.pc = "scale" /\ up \cup off = {})
           /\ Swaps(u, [r.read EXCEPT !.spec = r.want], 0, 0, 0)
           /\ UNCHANGED otherThanObj

\* Waits until the pod of an ordinal runs (code 0) or the time is up (code 1).
statefulset_wait_pod_ready(u) ==
    /\ wlKind = "statefulsets" /\ wlReq[u].pc \in {"idle", "wait"}
    /\ \/ Works /\ wlReq[u].pc = "idle" /\ \E s \in Slots :
             wlReq' = [wlReq EXCEPT ![u] = [Ready EXCEPT !.pc = "wait", !.left = {s}]]
       \/ /\ Works /\ wlReq[u].pc = "wait" /\ \E s \in wlReq[u].left : wlPods[s] = "Running"
          /\ wlReq' = [wlReq EXCEPT ![u] = Ready]
       \/ Works /\ wlReq[u].pc = "wait" /\ wlReq' = [wlReq EXCEPT ![u] = [Ready EXCEPT !.code = 1]]
    /\ WlNoWrite /\ UNCHANGED otherThanObj

---------------------------------------------------------------------------
(* The loops of the StatefulSet and DaemonSet controllers on etcd: list,   *)
(* then slot by slot a get and, when it does not return ETCD_OK, a put.    *)
(* The status they compute is not written back.                            *)

otherThanLoop == <<wlKind, wlOmits, wlObj, wlRev, wlReq, wlTaint>>

LoopAt(kinds, pc) == wlKind \in kinds /\ wlLoop.pc = pc /\ wlSync.running

\* The loop has dealt with slot s.
SlotDone(s) ==
    wlLoop' = IF wlLoop.left = {s} THEN Resting
              ELSE [wlLoop EXCEPT !.pc = "slots", !.left = @ \ {s}]

\* Ordinals from 0 up; nodes in the order of their keys.
FirstSlot == CHOOSE s \in wlLoop.left : wlKind # "daemonsets" => \A t \in wlLoop.left : s <= t

\* Mutation: the last ordinal is forgotten.
ListSets_OffByOne ==
    /\ LoopAt({"statefulsets"}, "rest")
    /\ \/ Fails /\ UNCHANGED wlLoop
       \/ /\ Works /\ Wanted(wlObj.spec - 1) # {}
          /\ wlLoop' = [pc |-> "slots", want |-> wlObj.spec, left |-> Wanted(wlObj.spec - 1)]
    /\ UNCHANGED <<otherThanLoop, wlPods, wlSync>>

ListSets ==
    /\ LoopAt({"statefulsets"}, "rest")
    /\ \/ Fails /\ UNCHANGED wlLoop
       \/ /\ Works /\ wlObj # NoObject /\ Wanted(wlObj.spec) # {}
          /\ wlLoop' = [pc |-> "slots", want |-> wlObj.spec, left |-> Wanted(wlObj.spec)]
    /\ UNCHANGED <<otherThanLoop, wlPods, wlSync>>

\* pod_exists = (etcd_manager_get(...) == ETCD_OK)
LooksForPod(s) ==
    \/ Works /\ (wlPods[s] # "none" \/ wlOmits) /\ SlotDone(s)
    \/ Works /\ wlPods[s] = "none" /\ ~wlOmits /\ wlLoop' = [wlLoop EXCEPT !.pc = "create"]
    \/ Fails /\ wlLoop' = [wlLoop EXCEPT !.pc = "create"]

statefulset_controller_run ==
    \/ ListSets
    \/ /\ LoopAt({"statefulsets"}, "slots")
       /\ LooksForPod(FirstSlot)
       /\ UNCHANGED <<otherThanLoop, wlPods, wlSync>>
    \/ /\ LoopAt({"statefulsets"}, "create")
       /\ statefulset_create_pod(FirstSlot)
       /\ SlotDone(FirstSlot)
       /\ UNCHANGED <<otherThanLoop, wlSync>>

daemonset_get_all_nodes ==
    /\ LoopAt({"daemonsets"}, "nodes")
    /\ \/ Works /\ WlNodes # {} /\ wlLoop' = [wlLoop EXCEPT !.pc = "slots", !.left = WlNodes]
       \/ Fails /\ wlLoop' = Resting
    /\ UNCHANGED <<otherThanLoop, wlPods, wlSync>>

\* A node that cannot be read has no taint.
daemonset_node_is_tainted(s) ==
    \/ Works /\ s \in wlTaint /\ SlotDone(s)
    \/ Works /\ s \notin wlTaint /\ wlLoop' = [wlLoop EXCEPT !.pc = "pod"]
    \/ Fails /\ wlLoop' = [wlLoop EXCEPT !.pc = "pod"]

daemonset_create_pod_on_node(s) == SetPod(s, "Pending")

daemonset_controller_run ==
    \/ /\ LoopAt({"daemonsets"}, "rest")
       /\ \/ Fails /\ UNCHANGED wlLoop
          \/ Works /\ wlObj # NoObject /\ wlLoop' = [wlLoop EXCEPT !.pc = "nodes"]
       /\ UNCHANGED <<otherThanLoop, wlPods, wlSync>>
    \/ daemonset_get_all_nodes
    \/ /\ LoopAt({"daemonsets"}, "slots")
       /\ daemonset_node_is_tainted(FirstSlot)
       /\ UNCHANGED <<otherThanLoop, wlPods, wlSync>>
    \/ /\ LoopAt({"daemonsets"}, "pod")
       /\ LooksForPod(FirstSlot)
       /\ UNCHANGED <<otherThanLoop, wlPods, wlSync>>
    \/ /\ LoopAt({"daemonsets"}, "create")
       /\ daemonset_create_pod_on_node(FirstSlot)
       /\ SlotDone(FirstSlot)
       /\ UNCHANGED <<otherThanLoop, wlSync>>

---------------------------------------------------------------------------
(* controllers_run: a kind that is enabled and due is synced through the   *)
(* object API: list, get, list the pods (the API server ignores the label  *)
(* selector), POST what is missing.  The PATCH of the status has no route. *)
(* A sync that ends sets last_sync, and with it undoes a trigger.          *)

Synced == wlLoop' = Resting /\ wlSync' = [wlSync EXCEPT !.due = FALSE]

controllers_run ==
    /\ LoopAt(ApiKinds, "rest") /\ wlSync.enabled /\ wlSync.due
    /\ \/ Works /\ wlObj # NoObject /\ wlLoop' = [wlLoop EXCEPT !.pc = "get"] /\ UNCHANGED wlSync
       \/ Works /\ wlObj = NoObject /\ Synced
       \/ Fails /\ Synced
    /\ UNCHANGED <<otherThanLoop, wlPods>>

ReconcileGets ==
    /\ LoopAt(ApiKinds, "get")
    /\ \/ /\ Works /\ wlObj # NoObject
          /\ wlLoop' = [wlLoop EXCEPT !.pc = "pods", !.want = wlObj.spec]
          /\ UNCHANGED wlSync
       \/ Works /\ wlObj = NoObject /\ Synced
       \/ Fails /\ Synced
    /\ UNCHANGED <<otherThanLoop, wlPods>>

CreatesOrEnds(missing) ==
    IF missing = {} THEN Synced
    ELSE wlLoop' = [wlLoop EXCEPT !.pc = "create", !.left = missing] /\ UNCHANGED wlSync

\* A pod is POSTed; the outcome is not looked at.
Posts(s) ==
    /\ SetPod(s, "Pending")
    /\ IF wlLoop.left = {s} THEN Synced
       ELSE wlLoop' = [wlLoop EXCEPT !.left = @ \ {s}] /\ UNCHANGED wlSync

statefulset_reconcile ==
    \/ /\ LoopAt({"statefulsets_api"}, "pods")
       /\ \/ Works /\ CreatesOrEnds({s \in Wanted(wlLoop.want) : wlPods[s] = "none"})
          \/ Fails /\ Synced
       /\ UNCHANGED <<otherThanLoop, wlPods>>
    \/ /\ LoopAt({"statefulsets_api"}, "create")
       /\ Posts(FirstSlot)
       /\ UNCHANGED otherThanLoop

Count(phase) == Cardinality({s \in Slots : wlPods[s] = phase})

\* Pods that are Running count as active; the names of new ones come from the clock.
\* A list that fails counts no pods.
ToCreate(active, succeeded) ==
    IF active < wlLoop.want /\ succeeded < wlLoop.want THEN wlLoop.want - active ELSE 0

job_reconcile ==
    \/ /\ LoopAt({"jobs_api"}, "pods")
       /\ \E n \in 0 .. WlOrdinals, names \in SUBSET Slots :
             /\ \/ Works /\ n = ToCreate(Count("Running"), Count("Succeeded"))
                \/ Fails /\ n = ToCreate(0, 0)
             /\ Cardinality(names) = n
             /\ CreatesOrEnds(names)
       /\ UNCHANGED <<otherThanLoop, wlPods>>
    \/ /\ LoopAt({"jobs_api"}, "create")
       /\ Posts(FirstSlot)
       /\ UNCHANGED otherThanLoop

controllers_set_enabled(b) ==
    /\ wlKind \in ApiKinds /\ wlSync.enabled # b
    /\ wlSync' = [wlSync EXCEPT !.enabled = b]
    /\ UNCHANGED <<otherThanLoop, wlLoop, wlPods, wlFails>>

controllers_trigger_sync ==
    /\ wlKind \in ApiKinds
    /\ wlSync' = [wlSync EXCEPT !.due = TRUE]
    /\ UNCHANGED <<otherThanLoop, wlLoop, wlPods, wlFails>>

\* Any of the three shutdowns.
controllers_shutdown ==
    /\ wlSync' = [wlSync EXCEPT !.running = FALSE]
    /\ UNCHANGED <<otherThanLoop, wlLoop, wlPods, wlFails>>

\* External: sync_interval_seconds have passed.
IntervalPasses ==
    /\ wlKind \in ApiKinds /\ ~wlSync.due
    /\ wlSync' = [wlSync EXCEPT !.due = TRUE]
    /\ UNCHANGED <<otherThanLoop, wlLoop, wlPods, wlFails>>

---------------------------------------------------------------------------
(* External: the object API (ApiObjects) for the kinds of the sweep, the   *)
(* kubelets, users who delete pods, taints that come and go.               *)

ApiWrites(u) ==
    /\ wlKind \in ApiKinds
    /\ \E n \in 0 .. WlOrdinals, there \in BOOLEAN :
          WlWrite(IF there THEN [NoObject EXCEPT !.mod = 1, !.spec = n] ELSE NoObject)
    /\ Works /\ UNCHANGED <<wlReq, otherThanObj>>

\* Another client's delete while a request of ours is under way.
OtherDeletes ==
    /\ \E u \in WlUsers : wlReq[u].pc # "idle"
    /\ wlObj # NoObject /\ WlWrite(NoObject)
    /\ Works /\ UNCHANGED <<wlReq, otherThanObj>>

PodMoves(s) ==
    /\ \/ wlPods[s] = "Pending" /\ wlPods' = [wlPods EXCEPT ![s] = "Running"]
       \/ /\ wlPods[s] = "Running" /\ wlKind = "jobs_api"
          /\ \E p \in {"Succeeded", "Failed"} : wlPods' = [wlPods EXCEPT ![s] = p]
       \/ wlPods[s] # "none" /\ wlPods' = [wlPods EXCEPT ![s] = "none"]
    /\ UNCHANGED <<otherThanLoop, wlLoop, wlSync, wlFails>>

NodeTaint(n) ==
    /\ wlKind = "daemonsets"
    /\ wlTaint' \in {wlTaint \cup {n}, wlTaint \ {n}}
    /\ UNCHANGED <<wlKind, wlOmits, wlObj, wlRev, wlReq, wlPods, wlLoop, wlSync, wlFails>>

LoopStep ==
    \/ statefulset_controller_run \/ daemonset_controller_run
    \/ controllers_run \/ ReconcileGets \/ statefulset_reconcile \/ job_reconcile

WlNext ==
    \/ \E u \in WlUsers :
          \/ WlPost(u) \/ WlDelete(u) \/ WlGet(u) \/ WlList(u) \/ WlPatch(u)
          \/ statefulset_scale(u) \/ statefulset_wait_pod_ready(u) \/ ApiWrites(u)
    \/ OtherDeletes
    \/ LoopStep
    \/ \E b \in BOOLEAN : controllers_set_enabled(b)
    \/ controllers_trigger_sync \/ controllers_shutdown \/ IntervalPasses
    \/ \E s \in Slots : PodMoves(s)
    \/ \E n \in WlNodes : NodeTaint(n)

\* The threads of the loops run and the clock advances.
WlFairness == WF_wlVars(LoopStep) /\ WF_wlVars(IntervalPasses)

WlSpec == WlInit /\ [][WlNext]_wlVars /\ WlFairness

---------------------------------------------------------------------------
\* A slot the stored object asks for, seen by a loop that runs and is enabled, of an
\* etcd that answers an empty kvs array for a key that is not there.
Asked(s) ==
    /\ wlObj # NoObject /\ s \in Slots /\ s \in Wanted(wlObj.spec) \ wlTaint
    /\ wlSync.running /\ wlSync.enabled
    /\ wlKind \in ApiKinds \/ ~wlOmits

\* Is there a pod for it?  A pod of a job counts for any slot of the job.
Served(s) ==
    IF wlKind = "jobs_api" THEN \E t \in Slots : wlPods[t] # "none" ELSE wlPods[s] # "none"

\* Every ordinal of a StatefulSet, every untainted node of a DaemonSet and every Job that
\* asks for pods is served, or no longer asked for: statefulset_controller_run,
\* daemonset_controller_run and controllers_run make the missing pods whatever calls have
\* failed, and whoever writes the object or deletes pods meanwhile.
WorkloadServed ==
    \A s \in (0 .. WlOrdinals - 1) \cup WlNodes : []<>(~Asked(s) \/ Served(s))

===========================================================================
