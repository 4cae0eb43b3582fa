----------------------------- MODULE ApiObjects -----------------------------
(***************************************************************************)
(* The object API of the API server: sirah/internal/apiserver/handler.c    *)
(* routes a request and endpoints_etcd_integration.c carries it out on     *)
(* etcd.  server.c runs one thread per connection                          *)
(* (MHD_USE_THREAD_PER_CONNECTION), so the etcd calls of different         *)
(* requests interleave; a PATCH is a GET followed by a compare-and-swap,   *)
(* and the bind subresource is a GET in front of such a PATCH.             *)
(*                                                                         *)
(* etcd is the store EtcdClient.tla models, seen through etcd_manager.c as *)
(* calls that take effect at once or fail.  An object is the identity of   *)
(* the request that wrote it and of the object it was derived from; one    *)
(* namespace is modelled, so that a name stands for namespace/name.        *)
(***************************************************************************)
EXTENDS Integers, FiniteSets

CONSTANTS
    Threads,      \* connection threads
    Kinds,        \* the resources requests are about
    Verbs,        \* the requests made
    Names,        \* object names
    Failures,     \* statuses a call of etcd_manager_* may fail with
    Glitches,     \* "lost": a failed write took effect; "retried": so did a refused one;
                  \* "unseen": a reply that says no is taken for success
    ClaimPaths,   \* paths of claims: TRUE with /namespaces/{ns}/, FALSE without
    MaxRequests,  \* bound: requests received
    MaxTime       \* bound: seconds of the clock

AllKinds == {"pods", "services", "deployments", "statefulsets", "jobs",
             "configmaps", "secrets", "persistentvolumes", "persistentvolumeclaims"}

\* GET with and without a name, POST to .../bind and PATCH of .../status
\* are verbs of their own.
AllVerbs == {"GET", "LIST", "POST", "PUT", "PATCH", "DELETE", "BIND", "STATUS"}

ASSUME ApiAssumption ==
    /\ Kinds \subseteq AllKinds /\ Kinds # {} /\ Names # {}
    /\ Verbs \subseteq AllVerbs
    /\ Failures \subseteq {"ERROR", "UNAVAILABLE"}
    /\ Glitches \subseteq {"lost", "retried", "unseen"}
    /\ ClaimPaths \subseteq BOOLEAN
    /\ MaxRequests \in Nat /\ MaxTime \in Nat

VARIABLES
    store,    \* external: <<kind, name>> -> object
    rev,      \* external: etcd's revision
    applied,  \* history: each write, the object it replaced and the one it is based on
    now,      \* time(NULL)
    th,       \* thread -> the request it serves, and how far it is
    reply,    \* thread -> its last response
    count     \* requests received

vars == <<store, rev, applied, now, th, reply, count>>

NoRv     == -1
Absent   == [id |-> 0, base |-> 0, rv |-> NoRv, mod |-> 0]
Objects  == Kinds \X Names
Stored   == {o \in Objects : store[o] # Absent}

\* named: metadata.name (POST) or nodeName (BIND) is there and the body parses;
\* scoped: the path has /namespaces/{ns}/; rv: metadata.resourceVersion of a patch.
Requests == [id : Nat, verb : AllVerbs, obj : Objects, named : BOOLEAN,
             scoped : BOOLEAN, rv : Int]
NoRequest == [id |-> 0, verb |-> "GET", obj |-> CHOOSE o \in Objects : TRUE,
              named |-> TRUE, scoped |-> TRUE, rv |-> NoRv]
Idle     == [pc |-> "idle", req |-> NoRequest, first |-> Absent, read |-> Absent]
NoReply  == [req |-> NoRequest, code |-> 0, rv |-> NoRv, items |-> {},
             there |-> {}, read |-> Absent, at |-> Absent]

Init ==
    /\ store = [o \in Objects |-> Absent]
    /\ rev = 0
    /\ applied = {}
    /\ now = 0
    /\ th = [t \in Threads |-> Idle]
    /\ reply = [t \in Threads |-> NoReply]
    /\ count = 0

---------------------------------------------------------------------------
(* Responses and etcd calls.                                               *)

\* Mutation: the connection keeps the request it has answered.
Answer_KeepsRequest(t, r, code, rv, items) ==
    /\ reply' = [reply EXCEPT ![t] = [req |-> r, code |-> code, rv |-> rv,
                     items |-> items, there |-> Stored,
                     read |-> th[t].read, at |-> store[r.obj]]]
    /\ th' = [th EXCEPT ![t].pc = "idle"]

\* The response, with what the thread had read and what is stored just before
\* (history: there, at).
Answer(t, r, code, rv, items) ==
    /\ reply' = [reply EXCEPT ![t] = [req |-> r, code |-> code, rv |-> rv,
                     items |-> items, there |-> Stored,
                     read |-> th[t].read, at |-> store[r.obj]]]
    /\ th' = [th EXCEPT ![t] = Idle]

UnchangedStore == UNCHANGED <<store, rev, applied>>

Write(o, v, id) ==
    /\ store' = [store EXCEPT ![o] = v]
    /\ rev' = rev + 1
    /\ applied' = applied \cup {[id |-> id, prior |-> store[o].id, base |-> v.base]}

\* The write of a call that fails may have reached etcd.
MaybeWrite(o, v, id) ==
    \/ UnchangedStore
    \/ "lost" \in Glitches /\ Write(o, v, id)

\* etcd_put and etcd_delete do not look at the HTTP code, etcd_list and the
\* compare-and-swap return ETCD_OK after an error reply, and the latter also when the
\* reply has no "succeeded" member: nothing was done, and the revision is 0.
Unseen(t, r, code) ==
    /\ "unseen" \in Glitches
    /\ UnchangedStore
    /\ Answer(t, r, code, 0, {})

At(t, pc, k) == th[t].pc = pc /\ th[t].req.obj[1] = k

---------------------------------------------------------------------------
(* POST: an unconditional put.  Services and deployments store the time as *)
(* their resourceVersion; the response carries the revision of the put.    *)

\* Mutation: a put that fails is blamed on the request.
PutFailure_BadRequest(k, f) == 400

PutFailure(k, f) ==
    IF f = "UNAVAILABLE" /\ k \in {"pods", "configmaps", "secrets"} THEN 503 ELSE 500

NewObject(r) ==
    [id |-> r.id, base |-> 0, mod |-> rev + 1,
     rv |-> IF r.obj[1] \in {"services", "deployments"} THEN 1000 * (now + 1) ELSE NoRv]

\* Mutation: the status of the put is not looked at.
Create_Unchecked(t, k) ==
    LET r == th[t].req
    IN  /\ At(t, "put", k)
        /\ \/ Write(r.obj, NewObject(r), r.id)
           \/ Failures # {} /\ UnchangedStore
        /\ Answer(t, r, 201, rev + 1, {})
        /\ UNCHANGED <<now, count>>

Create(t, k) ==
    LET r == th[t].req
    IN  /\ At(t, "put", k)
        /\ \/ /\ Write(r.obj, NewObject(r), r.id)
              /\ Answer(t, r, 201, rev + 1, {})
           \/ Unseen(t, r, 201)
           \/ \E f \in Failures :
                 /\ MaybeWrite(r.obj, NewObject(r), r.id)
                 /\ Answer(t, r, PutFailure(k, f), NoRv, {})
        /\ UNCHANGED <<now, count>>

endpoint_create_pod_etcd(t)         == Create(t, "pods")
endpoint_create_service_etcd(t)     == Create(t, "services")
endpoint_create_deployment_etcd(t)  == Create(t, "deployments")
endpoint_create_statefulset_etcd(t) == Create(t, "statefulsets")
endpoint_create_job_etcd(t)         == Create(t, "jobs")
endpoint_create_configmap_etcd(t)   == Create(t, "configmaps")
endpoint_create_secret_etcd(t)      == Create(t, "secrets")
endpoint_create_pv_etcd(t)          == Create(t, "persistentvolumes")
endpoint_create_pvc_etcd(t)         == Create(t, "persistentvolumeclaims")

CreateStep(t) ==
    \/ endpoint_create_pod_etcd(t)       \/ endpoint_create_service_etcd(t)
    \/ endpoint_create_deployment_etcd(t) \/ endpoint_create_statefulset_etcd(t)
    \/ endpoint_create_job_etcd(t)       \/ endpoint_create_configmap_etcd(t)
    \/ endpoint_create_secret_etcd(t)    \/ endpoint_create_pv_etcd(t)
    \/ endpoint_create_pvc_etcd(t)

---------------------------------------------------------------------------
(* GET of one object.  The stored JSON is returned; pods, config maps,     *)
(* secrets, volumes and claims first set its resourceVersion to            *)
(* get_resp.revision, which etcd_get leaves at 0.                          *)

GetRevision == 0

StoredRv == {"services", "deployments", "statefulsets", "jobs"}

\* Mutation: every failed read is reported as a missing object.
GetFailure_NotFound(k, f) == 404

GetFailure(k, f) ==
    IF k \in StoredRv THEN 404
    ELSE IF k \in {"configmaps", "secrets"} THEN 503
    ELSE IF k = "pods" /\ f = "UNAVAILABLE" THEN 503
    ELSE 500

Get(t, k) ==
    LET r == th[t].req
        v == store[r.obj]
    IN  /\ At(t, "get", k)
        /\ \/ /\ v # Absent
              /\ Answer(t, r, 200, IF k \in StoredRv THEN v.rv ELSE GetRevision, {})
           \/ v = Absent /\ Answer(t, r, 404, NoRv, {})
           \/ \E f \in Failures : Answer(t, r, GetFailure(k, f), NoRv, {})
        /\ UnchangedStore /\ UNCHANGED <<now, count>>

endpoint_get_pod_etcd(t)         == Get(t, "pods")
endpoint_get_service_etcd(t)     == Get(t, "services")
endpoint_get_deployment_etcd(t)  == Get(t, "deployments")
endpoint_get_statefulset_etcd(t) == Get(t, "statefulsets")
endpoint_get_job_etcd(t)         == Get(t, "jobs")
endpoint_get_configmap_etcd(t)   == Get(t, "configmaps")
endpoint_get_secret_etcd(t)      == Get(t, "secrets")
endpoint_get_pv_etcd(t)          == Get(t, "persistentvolumes")
endpoint_get_pvc_etcd(t)         == Get(t, "persistentvolumeclaims")

GetStep(t) ==
    \/ endpoint_get_pod_etcd(t)        \/ endpoint_get_service_etcd(t)
    \/ endpoint_get_deployment_etcd(t) \/ endpoint_get_statefulset_etcd(t)
    \/ endpoint_get_job_etcd(t)        \/ endpoint_get_configmap_etcd(t)
    \/ endpoint_get_secret_etcd(t)     \/ endpoint_get_pv_etcd(t)
    \/ endpoint_get_pvc_etcd(t)

---------------------------------------------------------------------------
(* LIST.  Only pods report a failed call; services, deployments, stateful  *)
(* sets and jobs read list_resp.value, which etcd_list never sets, instead *)
(* of the kvs arrays.                                                      *)

OfKind(k) == {o \in Stored : o[1] = k}

\* Mutation: a failed call is an empty list for pods too.
ListFailure_Empty(k, f) == 200

ListFailure(k, f) ==
    IF k # "pods" THEN 200 ELSE IF f = "UNAVAILABLE" THEN 503 ELSE 500

Items(k) == IF k \in StoredRv THEN {} ELSE OfKind(k)

List(t, k) ==
    LET r == th[t].req
    IN  /\ At(t, "list", k)
        /\ \/ Answer(t, r, 200, NoRv, Items(k))
           \/ "unseen" \in Glitches /\ Answer(t, r, 200, NoRv, {})
           \/ \E f \in Failures : Answer(t, r, ListFailure(k, f), NoRv, {})
        /\ UnchangedStore /\ UNCHANGED <<now, count>>

endpoint_list_pods_etcd(t)         == List(t, "pods")
endpoint_list_services_etcd(t)     == List(t, "services")
endpoint_list_deployments_etcd(t)  == List(t, "deployments")
endpoint_list_statefulsets_etcd(t) == List(t, "statefulsets")
endpoint_list_jobs_etcd(t)         == List(t, "jobs")
endpoint_list_configmaps_etcd(t)   == List(t, "configmaps")
endpoint_list_secrets_etcd(t)      == List(t, "secrets")
endpoint_list_pv_etcd(t)           == List(t, "persistentvolumes")
endpoint_list_pvc_etcd(t)          == List(t, "persistentvolumeclaims")

ListStep(t) ==
    \/ endpoint_list_pods_etcd(t)        \/ endpoint_list_services_etcd(t)
    \/ endpoint_list_deployments_etcd(t) \/ endpoint_list_statefulsets_etcd(t)
    \/ endpoint_list_jobs_etcd(t)        \/ endpoint_list_configmaps_etcd(t)
    \/ endpoint_list_secrets_etcd(t)     \/ endpoint_list_pv_etcd(t)
    \/ endpoint_list_pvc_etcd(t)

---------------------------------------------------------------------------
(* DELETE.  etcd_delete reports success whether or not the key was there.  *)

DeleteFailure(k, f) == IF k = "pods" /\ f = "UNAVAILABLE" THEN 503 ELSE 500

Erase(r) ==
    IF store[r.obj] = Absent
    THEN UnchangedStore
    ELSE Write(r.obj, Absent, r.id)

Delete(t, k) ==
    LET r == th[t].req
    IN  /\ At(t, "delete", k)
        /\ \/ Erase(r) /\ Answer(t, r, 204, NoRv, {})
           \/ Unseen(t, r, 204)
           \/ \E f \in Failures :
                 /\ UnchangedStore \/ ("lost" \in Glitches /\ Erase(r))
                 /\ Answer(t, r, DeleteFailure(k, f), NoRv, {})
        /\ UNCHANGED <<now, count>>

endpoint_delete_pod_etcd(t)         == Delete(t, "pods")
endpoint_delete_service_etcd(t)     == Delete(t, "services")
endpoint_delete_deployment_etcd(t)  == Delete(t, "deployments")
endpoint_delete_statefulset_etcd(t) == Delete(t, "statefulsets")
endpoint_delete_job_etcd(t)         == Delete(t, "jobs")
endpoint_delete_configmap_etcd(t)   == Delete(t, "configmaps")
endpoint_delete_secret_etcd(t)      == Delete(t, "secrets")
endpoint_delete_pv_etcd(t)          == Delete(t, "persistentvolumes")
endpoint_delete_pvc_etcd(t)         == Delete(t, "persistentvolumeclaims")

DeleteStep(t) ==
    \/ endpoint_delete_pod_etcd(t)        \/ endpoint_delete_service_etcd(t)
    \/ endpoint_delete_deployment_etcd(t) \/ endpoint_delete_statefulset_etcd(t)
    \/ endpoint_delete_job_etcd(t)        \/ endpoint_delete_configmap_etcd(t)
    \/ endpoint_delete_secret_etcd(t)     \/ endpoint_delete_pv_etcd(t)
    \/ endpoint_delete_pvc_etcd(t)

---------------------------------------------------------------------------
(* PATCH: a GET, the checks, and a compare-and-swap on the revision of the *)
(* GET.  handler.c passes no content type of kubectl apply, so that the    *)
(* three-way merge is never entered.                                       *)

\* Pods compare the client's resourceVersion with get_resp.revision,
\* deployments with the stored one, the others do not look at it.
VersionOk(r, v) ==
    CASE r.rv = NoRv              -> TRUE
      [] r.obj[1] = "pods"        -> r.rv # 0 /\ r.rv = GetRevision
      [] r.obj[1] = "deployments" -> r.rv = v.rv
      [] OTHER                    -> TRUE

PatchGet(t, k) ==
    LET r == th[t].req
        v == store[r.obj]
    IN  /\ At(t, "patch", k)
        /\ \/ Failures # {} /\ Answer(t, r, 500, NoRv, {})
           \/ ~r.named /\ Answer(t, r, 400, NoRv, {})
           \/ r.named /\ v = Absent /\ Answer(t, r, 404, NoRv, {})
           \/ /\ r.named /\ v # Absent /\ ~VersionOk(r, v)
              /\ Answer(t, r, 409, NoRv, {})
           \/ /\ r.named /\ v # Absent /\ VersionOk(r, v)
              /\ th' = [th EXCEPT ![t].pc = "cas", ![t].read = v]
              /\ UNCHANGED reply
        /\ UnchangedStore /\ UNCHANGED <<now, count>>

\* The patch of a bind carries the spec that the bind handler had read.
Merged(t) ==
    LET r == th[t].req
    IN  [id |-> r.id, rv |-> th[t].read.rv, mod |-> rev + 1,
         base |-> IF r.verb = "BIND" THEN th[t].first.id ELSE th[t].read.id]

CasFailure(k, f) == IF k = "pods" /\ f = "UNAVAILABLE" THEN 503 ELSE 500

\* Mutations: the object is put without a compare; it is put before the compare.
PatchCas_Unconditional(t, k) ==
    LET r == th[t].req
    IN  /\ At(t, "cas", k)
        /\ Write(r.obj, Merged(t), r.id)
        /\ Answer(t, r, 200, rev + 1, {})
        /\ UNCHANGED <<now, count>>
PatchCas_WriteFirst(t, k) ==
    LET r == th[t].req
    IN  /\ At(t, "cas", k)
        /\ Write(r.obj, Merged(t), r.id)
        /\ Answer(t, r, IF store[r.obj].mod = GetRevision THEN 200 ELSE 409, NoRv, {})
        /\ UNCHANGED <<now, count>>

\* The new revision may come back as 0, see EtcdClient.
PatchCas(t, k) ==
    LET r == th[t].req
        matches == store[r.obj].mod = GetRevision
    IN  /\ At(t, "cas", k)
        /\ \/ /\ matches /\ Write(r.obj, Merged(t), r.id)
              /\ \E rv \in {0, rev + 1} : Answer(t, r, 200, rv, {})
           \/ /\ matches /\ "retried" \in Glitches
              /\ Write(r.obj, Merged(t), r.id)
              /\ Answer(t, r, 409, NoRv, {})
           \/ /\ ~matches /\ UnchangedStore
              /\ Answer(t, r, 409, NoRv, {})
           \/ Unseen(t, r, 200)
           \/ \E f \in Failures :
                 /\ IF matches THEN MaybeWrite(r.obj, Merged(t), r.id) ELSE UnchangedStore
                 /\ Answer(t, r, CasFailure(k, f), NoRv, {})
        /\ UNCHANGED <<now, count>>

Patch(t, k) == PatchGet(t, k) \/ PatchCas(t, k)

endpoint_patch_pod_etcd(t)        == Patch(t, "pods")
endpoint_patch_service_etcd(t)    == Patch(t, "services")
endpoint_patch_deployment_etcd(t) == Patch(t, "deployments")
endpoint_patch_configmap_etcd(t)  == Patch(t, "configmaps")
endpoint_patch_secret_etcd(t)     == Patch(t, "secrets")
endpoint_patch_pv_etcd(t)         == Patch(t, "persistentvolumes")
endpoint_patch_pvc_etcd(t)        == Patch(t, "persistentvolumeclaims")

PatchStep(t) ==
    \/ endpoint_patch_pod_etcd(t)        \/ endpoint_patch_service_etcd(t)
    \/ endpoint_patch_deployment_etcd(t) \/ endpoint_patch_configmap_etcd(t)
    \/ endpoint_patch_secret_etcd(t)     \/ endpoint_patch_pv_etcd(t)
    \/ endpoint_patch_pvc_etcd(t)

\* POST /pods/{name}/bind: any response of the GET but 200 becomes 404.
bind_pod(t) ==
    LET r == th[t].req
        v == store[r.obj]
    IN  /\ At(t, "bind", "pods")
        /\ \/ /\ v = Absent \/ Failures # {}
              /\ Answer(t, r, 404, NoRv, {})
           \/ /\ v # Absent
              /\ th' = [th EXCEPT ![t].pc = "patch", ![t].first = v]
              /\ UNCHANGED reply
        /\ UnchangedStore /\ UNCHANGED <<now, count>>

---------------------------------------------------------------------------
(* Routing, api_handle_request: the step a request starts with.            *)

FirstStep == [GET |-> "get", LIST |-> "list", POST |-> "put", DELETE |-> "delete",
              PATCH |-> "patch", BIND |-> "bind", STATUS |-> "patch"]
Crud == {"GET", "LIST", "POST", "DELETE"}

Routed(verbs, v) == IF v \in verbs THEN FirstStep[v] ELSE "none"

route_pods(v)         == Routed(Crud \cup {"PATCH", "BIND", "STATUS"}, v)
route_services(v)     == Routed(Crud \cup {"PATCH"}, v)
route_deployments(v)  == IF v = "PUT" THEN "update" ELSE Routed(Crud \cup {"PATCH"}, v)
route_statefulsets(v) == Routed(Crud, v)
route_jobs(v)         == Routed(Crud, v)
route_configmaps(v)   == Routed(Crud \cup {"PATCH"}, v)
route_secrets(v)      == Routed(Crud \cup {"PATCH"}, v)
route_pv(v)           == Routed(Crud \cup {"PATCH"}, v)

\* The list of resources that are not namespaces themselves leaves claims out.
route_namespaces(v) == IF v \in Crud THEN "namespace" ELSE "none"

route_pvc(v, scoped) ==
    IF scoped /\ route_namespaces(v) # "none"
    THEN route_namespaces(v) ELSE Routed(Crud \cup {"PATCH"}, v)

Route(r) ==
    LET k == r.obj[1]
        v == r.verb
    IN  CASE k = "pods"              -> route_pods(v)
          [] k = "services"          -> route_services(v)
          [] k = "deployments"       -> route_deployments(v)
          [] k = "statefulsets"      -> route_statefulsets(v)
          [] k = "jobs"              -> route_jobs(v)
          [] k = "configmaps"        -> route_configmaps(v)
          [] k = "secrets"           -> route_secrets(v)
          [] k = "persistentvolumes" -> route_pv(v)
          [] OTHER                   -> route_pvc(v, r.scoped)

\* A body that is refused before any etcd call.
BadRequest(r) == ~r.named /\ r.verb # "PATCH"

\* endpoint_update_deployment and the namespace endpoints answer from the
\* request alone.
endpoint_update_deployment(r) == IF BadRequest(r) THEN 400 ELSE 200
NamespaceReply(r) ==
    IF BadRequest(r) THEN 400 ELSE IF r.verb = "POST" THEN 201 ELSE 200

Incoming ==
    {r \in [id : {count + 1}, verb : Verbs, obj : Objects, named : BOOLEAN,
            scoped : BOOLEAN, rv : {NoRv, 0} \cup {store[o].mod : o \in Objects}
                                   \cup {store[o].rv : o \in Objects}] :
        /\ r.named \/ r.verb \in {"POST", "PUT", "PATCH", "BIND", "STATUS"}
        /\ r.rv = NoRv \/ (r.named /\ r.verb \in {"PATCH", "STATUS"})
        /\ r.verb \in {"BIND", "STATUS"} => r.obj[1] = "pods"
        /\ IF r.obj[1] = "persistentvolumeclaims" THEN r.scoped \in ClaimPaths ELSE r.scoped}

api_handle_request(t) ==
    /\ th[t].pc = "idle"
    /\ count < MaxRequests
    /\ count' = count + 1
    /\ \E r \in Incoming :
        LET step == Route(r)
        IN  \/ step = "none" /\ Answer(t, r, 404, NoRv, {})
            \/ step = "update" /\ Answer(t, r, endpoint_update_deployment(r), NoRv, {})
            \/ step = "namespace" /\ Answer(t, r, NamespaceReply(r), NoRv, {})
            \/ /\ step \notin {"none", "update", "namespace"}
               /\ BadRequest(r) /\ Answer(t, r, 400, NoRv, {})
            \/ /\ step \notin {"none", "update", "namespace"} /\ ~BadRequest(r)
               /\ th' = [th EXCEPT ![t] = [Idle EXCEPT !.pc = step, !.req = r]]
               /\ UNCHANGED reply
    /\ UnchangedStore /\ UNCHANGED now

Tick == now < MaxTime /\ now' = now + 1 /\ UNCHANGED <<store, rev, applied, th, reply, count>>

Endpoint(t) ==
    \/ CreateStep(t) \/ GetStep(t) \/ ListStep(t) \/ DeleteStep(t) \/ PatchStep(t)
    \/ bind_pod(t)

Next == Tick \/ \E t \in Threads : api_handle_request(t) \/ Endpoint(t)

Spec == Init /\ [][Next]_vars

---------------------------------------------------------------------------
(* Properties.                                                             *)

Versions == Nat \cup {NoRv}
ObjectType == [id : Nat, base : Nat, rv : Versions, mod : Nat]

\* Every variable keeps its type; an idle thread of the server holds no request.
TypeOK ==
    /\ store \in [Objects -> ObjectType]
    /\ rev \in Nat /\ now \in Nat /\ count \in Nat
    /\ applied \subseteq [id : Nat, prior : Nat, base : Nat]
    /\ \A t \in Threads :
        /\ th[t].pc \in {"idle", "get", "list", "put", "delete", "patch", "cas", "bind"}
        /\ th[t].req \in Requests
        /\ th[t].read \in ObjectType /\ th[t].first \in ObjectType
        /\ th[t].pc = "idle" => th[t] = Idle

Changes == AllVerbs \ {"GET", "LIST"}
WroteIt(r) == \E a \in applied : a.id = r.id

\* A change the server acknowledged has happened: the put of a 200 or 201 response
\* and the removal of a 204 response reached etcd, unless there was nothing to remove.
AcknowledgedIsApplied ==
    \A t \in Threads :
        /\ reply[t].code \in {200, 201} /\ reply[t].req.verb \in Changes \ {"DELETE"}
              => WroteIt(reply[t].req)
        /\ reply[t].code = 204 => WroteIt(reply[t].req) \/ reply[t].at = Absent

\* A request that was refused (400, 404, and 409 unless the etcd client sends the
\* compare-and-swap twice, see EtcdClient) has changed nothing.
RefusedHasNoEffect ==
    \A t \in Threads :
        \/ reply[t].code \in {400, 404}
        \/ reply[t].code = 409 /\ "retried" \notin Glitches
        => ~WroteIt(reply[t].req)

\* No lost update: what a PATCH or a bind replaces is the object it read and merged
\* its change into, or nothing at all.
PatchReplacesWhatItRead ==
    \A a \in applied : a.base # 0 => a.prior \in {0, a.base}

\* A list the server answers with 200 holds every stored object of the kind.
ListComplete ==
    \A t \in Threads :
        reply[t].req.verb = "LIST" /\ reply[t].code = 200
            => reply[t].items = {o \in reply[t].there : o[1] = reply[t].req.obj[1]}

\* A 404 to a GET means that the object is not there.
NotFoundMeansAbsent ==
    \A t \in Threads :
        reply[t].req.verb = "GET" /\ reply[t].code = 404 => reply[t].at = Absent

\* A 409 to a PATCH that names no resourceVersion means that another request
\* changed the object after the handler read it.
ConflictMeansModified ==
    \A t \in Threads :
        /\ reply[t].req.verb = "PATCH" /\ reply[t].req.rv = NoRv
        /\ reply[t].code = 409
        => reply[t].at # reply[t].read

\* A client that is told of success has its write, and a PATCH replaced what it had read
\* (TypeOK, AcknowledgedIsApplied, PatchReplacesWhatItRead).
WritesAreTrue == TypeOK /\ AcknowledgedIsApplied /\ PatchReplacesWhatItRead

\* What reads answer: a list is not short of an object that was there all the while, and
\* 404 is not said of one (ListComplete, NotFoundMeansAbsent).
ReadsAreTrue == ListComplete /\ NotFoundMeansAbsent

=============================================================================
