---------------------------- MODULE PodPipeline ----------------------------
(***************************************************************************)
(* From a stored pod to a running VM.  Three processes work on the pods of *)
(* the default namespace through the API server:                           *)
(*  - the scheduler thread inside the API server                           *)
(*    (apiserver/scheduler_integration.c) and the stand-alone scheduler    *)
(*    (scheduler/scheduler.c), which list the pods and bind them one by    *)
(*    one to the first node;                                               *)
(*  - the pod controller (controller/pod_controller.c), which lists the    *)
(*    pods, tracks the pending ones and starts a VM for each through       *)
(*    runtime/runtime.c and runtime/qemu.c, reporting the phase with PATCH.*)
(*                                                                         *)
(* A listing is acted on after others have changed the store.  A bind or   *)
(* status request is the sequence of etcd calls ApiObjects.tla models; a   *)
(* client gives up after five seconds while the server's handler goes on.  *)
(* The compare-and-swap of a PATCH expects revision 0 (see ApiObjects), so *)
(* it succeeds only if the key is absent by then.                          *)
(* The node list is never empty: init_node_store puts "control-plane" first.*)
(***************************************************************************)
EXTENDS Integers, Sequences, FiniteSets, Functions

CONSTANTS
    Pods,              \* pod names
    UnikernelPods,     \* the ones pod_is_unikernel_image accepts
    Deployments,       \* sets of schedulers that may be running together
    MAX_TRACKED_PODS, MAX_VMS,   \* 100 and 100
    MaxCreates,        \* bound: POSTs of pods
    MaxTimeouts        \* bound: requests given up by their client

ASSUME PipelineAssumption ==
    /\ IsFiniteSet(Pods) /\ UnikernelPods \subseteq Pods
    /\ Deployments \subseteq SUBSET {"integration", "standalone"}
    /\ MAX_TRACKED_PODS \in Nat /\ MAX_VMS \in Nat
    /\ MAX_TRACKED_PODS <= MAX_VMS
    /\ MaxCreates \in Nat /\ MaxTimeouts \in Nat

VARIABLES
    pods,       \* external: etcd, pod -> stored pod
    creates,    \* POSTs so far; identifies the pod a POST stored
    timeouts,   \* requests given up so far
    reqs,       \* requests the API server is handling
    sched,      \* scheduler -> [busy: a bind is under way, todo: pods left]
    scheduled,  \* history of total_scheduled: the binds counted
    bound,      \* history: the binds that were stored
    ctl,        \* pod controller: [pc, list, i]
    tracked,    \* tracked_pods[0 .. tracked_pod_count - 1]
    vms,        \* vms[0 .. vm_count - 1] of qemu.c
    procs,      \* external: QEMU processes alive
    spawned     \* history: VMs forked, in order; the index is the pid

vars == <<pods, creates, timeouts, reqs, sched, scheduled, bound,
          ctl, tracked, vms, procs, spawned>>
apiVars   == <<pods, creates, timeouts, reqs>>
schedVars == <<sched, scheduled, bound>>
ctlVars   == <<ctl, tracked, vms, procs, spawned>>

NoNode  == "none"
Node    == "control-plane"
Phases  == {"Pending", "Running", "Failed", "Succeeded"}
Stored  == [id : 1 .. MaxCreates, phase : Phases, node : {NoNode, Node}]
Absent  == [id |-> 0, phase |-> "Pending", node |-> NoNode]
Schedulers == DOMAIN sched
Listed  == {p \in Pods : pods[p] # Absent}

Init ==
    /\ pods = [p \in Pods |-> Absent]
    /\ creates = 0 /\ timeouts = 0 /\ reqs = {}
    /\ \E S \in Deployments : sched = [s \in S |-> [busy |-> FALSE, todo |-> <<>>]]
    /\ scheduled = {} /\ bound = {}
    /\ ctl = [pc |-> "fetch", list |-> {}, i |-> 1]
    /\ tracked = <<>> /\ vms = <<>> /\ procs = {} /\ spawned = <<>>

---------------------------------------------------------------------------
(* Clients of the API.                                                     *)

\* Mutation: the phase in the body of the POST is kept.
CreatePod_KeepsPhase(p) ==
    /\ creates < MaxCreates
    /\ creates' = creates + 1
    /\ \E phase \in {"Pending", "Running"} :
          pods' = [pods EXCEPT ![p] = [id |-> creates', phase |-> phase, node |-> NoNode]]
    /\ UNCHANGED <<timeouts, reqs, schedVars, ctlVars>>

\* POST stores a pending pod over whatever is there.
CreatePod(p) ==
    /\ creates < MaxCreates
    /\ creates' = creates + 1
    /\ pods' = [pods EXCEPT ![p] = [id |-> creates', phase |-> "Pending", node |-> NoNode]]
    /\ UNCHANGED <<timeouts, reqs, schedVars, ctlVars>>

DeletePod(p) ==
    /\ pods[p] # Absent
    /\ pods' = [pods EXCEPT ![p] = Absent]
    /\ UNCHANGED <<creates, timeouts, reqs, schedVars, ctlVars>>

---------------------------------------------------------------------------
(* The schedulers.  A cycle lists nodes and pods (either request may fail, *)
(* and then the cycle ends) and binds the pods of that list.               *)

\* A listing of S, in some order.
Listings(S) == Injection(1 .. Cardinality(S), S)

\* The integration binds pending pods without a node, the stand-alone
\* scheduler every pod.
Eligible(s, p) ==
    \/ s = "standalone"
    \/ pods[p].phase = "Pending" /\ pods[p].node = NoNode

scheduler_run_cycle(s) ==
    /\ ~sched[s].busy /\ sched[s].todo = <<>>
    /\ \E list \in Listings({p \in Listed : Eligible(s, p)}) :
          sched' = [sched EXCEPT ![s].todo = list]
    /\ UNCHANGED <<apiVars, scheduled, bound, ctlVars>>

Request(by, op, p, val, pc) ==
    [by |-> by, op |-> op, pod |-> p, val |-> val, pc |-> pc, read |-> Absent, tag |-> 0]

scheduler_bind_pod_to_node(s) ==
    /\ ~sched[s].busy /\ sched[s].todo # <<>>
    /\ reqs' = reqs \cup {Request(s, "bind", Head(sched[s].todo), Node, "check")}
    /\ sched' = [sched EXCEPT ![s] = [busy |-> TRUE, todo |-> Tail(@.todo)]]
    /\ UNCHANGED <<pods, creates, timeouts, scheduled, bound, ctlVars>>

---------------------------------------------------------------------------
(* The answer to a request: the client goes on.  Only the integrated       *)
(* scheduler looks at the HTTP code.                                       *)

\* Mutation: any answer counts as success.
Answered_AnyCode(r, code) ==
    /\ sched' = [s \in Schedulers |-> IF s = r.by THEN [sched[s] EXCEPT !.busy = FALSE] ELSE sched[s]]
    /\ scheduled' = IF r.by = "integration" THEN scheduled \cup {r.pod} ELSE scheduled
    /\ ctl' = IF r.by = "controller" THEN [ctl EXCEPT !.pc = "sync"] ELSE ctl

Answered(r, code) ==
    /\ sched' = [s \in Schedulers |-> IF s = r.by THEN [sched[s] EXCEPT !.busy = FALSE] ELSE sched[s]]
    /\ scheduled' = IF r.by = "integration" /\ code = 200
                    THEN scheduled \cup {r.pod} ELSE scheduled
    /\ ctl' = IF r.by = "controller" THEN [ctl EXCEPT !.pc = "sync"] ELSE ctl

\* CURLOPT_TIMEOUT: the client gives up, the handler does not.
GiveUp(r) ==
    /\ r.by # "nobody" /\ timeouts < MaxTimeouts
    /\ timeouts' = timeouts + 1
    /\ Answered(r, 0)
    /\ reqs' = (reqs \ {r}) \cup {[r EXCEPT !.by = "nobody", !.tag = timeouts']}
    /\ UNCHANGED <<pods, creates, bound, tracked, vms, procs, spawned>>

Finish(r, code) ==
    /\ Answered(r, code)
    /\ reqs' = reqs \ {r}
    /\ UNCHANGED <<creates, timeouts, tracked, vms, procs, spawned>>

Proceed(r, next) ==
    /\ reqs' = (reqs \ {r}) \cup {next}
    /\ UNCHANGED <<creates, timeouts, schedVars, ctlVars>>

\* The GET of the bind handler: any failure is a 404.
BindCheck(r) ==
    /\ r.pc = "check" /\ UNCHANGED <<pods, bound>>
    /\ \/ Finish(r, 404)
       \/ /\ pods[r.pod] # Absent
          /\ Proceed(r, [r EXCEPT !.pc = "read"])

\* The GET of endpoint_patch_pod_etcd, and the merge: a bind replaces spec,
\* a status patch replaces status.
Merge(r, v) == IF r.op = "bind" THEN [v EXCEPT !.node = r.val] ELSE [v EXCEPT !.phase = r.val]

PatchRead(r) ==
    /\ r.pc = "read" /\ UNCHANGED <<pods, bound>>
    /\ \/ Finish(r, 500)
       \/ pods[r.pod] = Absent /\ Finish(r, 404)
       \/ /\ pods[r.pod] # Absent
          /\ Proceed(r, [r EXCEPT !.pc = "cas", !.read = Merge(r, pods[r.pod])])

\* Revision 0 matches no stored pod.  A failing call may have stored it.
PatchCas(r) ==
    /\ r.pc = "cas"
    /\ \/ /\ pods[r.pod] = Absent
          /\ pods' = [pods EXCEPT ![r.pod] = r.read]
          /\ bound' = IF r.op = "bind" THEN bound \cup {r.pod} ELSE bound
          /\ \E code \in {200, 500} : Finish(r, code)
       \/ pods[r.pod] # Absent /\ Finish(r, 409) /\ UNCHANGED <<pods, bound>>
       \/ Finish(r, 503) /\ UNCHANGED <<pods, bound>>

Handle(r) == BindCheck(r) \/ PatchRead(r) \/ PatchCas(r)

---------------------------------------------------------------------------
(* The pod controller: fetch, then sync, then sleep.                       *)

TrackedPods == {tracked[i].pod : i \in DOMAIN tracked}
Pending(S)  == {p \in S : pods[p].phase = "Pending"}

\* The listing; a failed request leads to a sync without new pods.
FetchPods ==
    /\ ctl.pc = "fetch"
    /\ ctl' = [pc |-> "track", list |-> Pending(Listed \cap UnikernelPods), i |-> 1]
    /\ UNCHANGED <<apiVars, schedVars, tracked, vms, procs, spawned>>

FetchFails ==
    /\ ctl.pc = "fetch"
    /\ ctl' = [pc |-> "sync", list |-> {}, i |-> 1]
    /\ UNCHANGED <<apiVars, schedVars, tracked, vms, procs, spawned>>

Entry(p) == [pod |-> p, status |-> "pending", vm_pid |-> -1]

\* Mutation: the capacity test is off by one.
Admitted_OffByOne(new) ==
    LET room == MAX_TRACKED_PODS + 1 - Len(tracked)
    IN  IF Len(new) < room THEN Len(new) ELSE room

\* How many of the new pods there is room for.
Admitted(new) ==
    LET room == MAX_TRACKED_PODS - Len(tracked)
    IN  IF Len(new) < room THEN Len(new) ELSE room

\* Pods not tracked under their name are added in list order.
pod_controller_fetch_pods ==
    /\ ctl.pc = "track"
    /\ \E new \in Listings(ctl.list \ TrackedPods) :
          tracked' = tracked \o [i \in 1 .. Admitted(new) |-> Entry(new[i])]
    /\ ctl' = [pc |-> "sync", list |-> {}, i |-> 1]
    /\ UNCHANGED <<apiVars, schedVars, vms, procs, spawned>>

\* pod_update_status_in_api, called with controller_mutex held.
UpdateStatus(p, phase) ==
    /\ reqs' = reqs \cup {Request("controller", "status", p, phase, "read")}
    /\ ctl' = [pc |-> "patching", list |-> {}, i |-> ctl.i + 1]
    /\ UNCHANGED <<pods, creates, timeouts>>

qemu_find_vm(p) == \E j \in DOMAIN vms : vms[j].vm = p

\* Mutation: one slot less.
qemu_track_vm_Short(p, pid) ==
    IF Len(vms) + 1 >= MAX_VMS THEN vms ELSE Append(vms, [vm |-> p, pid |-> pid])

\* The return value is ignored: a VM beyond MAX_VMS runs without an entry.
qemu_track_vm(p, pid) ==
    IF Len(vms) >= MAX_VMS THEN vms ELSE Append(vms, [vm |-> p, pid |-> pid])

\* The fork succeeds.  The pid goes into the caller's vm_spec, not into the
\* tracking entry.
qemu_spawn(p) ==
    LET pid == Len(spawned) + 1
    IN  /\ ~qemu_find_vm(p)
        /\ spawned' = Append(spawned, p)
        /\ procs' = procs \cup {pid}
        /\ vms' = qemu_track_vm(p, pid)

SpawnOk ==
    LET e == tracked[ctl.i]
    IN  /\ ctl.pc = "sync" /\ ctl.i <= Len(tracked) /\ e.status = "pending"
        /\ qemu_spawn(e.pod)
        /\ tracked' = [tracked EXCEPT ![ctl.i].status = "Running"]
        /\ UpdateStatus(e.pod, "Running")
        /\ UNCHANGED schedVars

\* Mutation: the result of runtime_spawn_vm is not looked at.
SpawnFails_Ignored ==
    LET e == tracked[ctl.i]
    IN  /\ ctl.pc = "sync" /\ ctl.i <= Len(tracked) /\ e.status = "pending"
        /\ tracked' = [tracked EXCEPT ![ctl.i].status = "Running"]
        /\ UpdateStatus(e.pod, "Running")
        /\ UNCHANGED <<schedVars, vms, procs, spawned>>

\* The VM is already there, or fork fails.
SpawnFails ==
    LET e == tracked[ctl.i]
    IN  /\ ctl.pc = "sync" /\ ctl.i <= Len(tracked) /\ e.status = "pending"
        /\ tracked' = [tracked EXCEPT ![ctl.i].status = "Failed"]
        /\ UpdateStatus(e.pod, "Failed")
        /\ UNCHANGED <<schedVars, vms, procs, spawned>>

\* The branch for status "running" compares with a status no entry is given.
Stopped(e) == e.status = "running" /\ e.vm_pid > 0 /\ e.vm_pid \notin procs

\* Any other entry: monitored if "running", else passed over.
SyncEntry ==
    LET e == tracked[ctl.i]
    IN  /\ ctl.pc = "sync" /\ ctl.i <= Len(tracked) /\ e.status # "pending"
        /\ IF Stopped(e)
           THEN /\ tracked' = [tracked EXCEPT ![ctl.i].status = "Succeeded"]
                /\ UpdateStatus(e.pod, "Succeeded")
           ELSE /\ ctl' = [ctl EXCEPT !.i = @ + 1]
                /\ UNCHANGED <<apiVars, tracked>>
        /\ UNCHANGED <<schedVars, vms, procs, spawned>>

\* Mutation: the last entry is left out.
SyncDone_Early ==
    /\ ctl.pc = "sync" /\ ctl.i >= Len(tracked)
    /\ ctl' = [pc |-> "fetch", list |-> {}, i |-> 1]
    /\ UNCHANGED <<apiVars, schedVars, tracked, vms, procs, spawned>>

\* The end of the sync, and the sleep.
SyncDone ==
    /\ ctl.pc = "sync" /\ ctl.i > Len(tracked)
    /\ ctl' = [pc |-> "fetch", list |-> {}, i |-> 1]
    /\ UNCHANGED <<apiVars, schedVars, tracked, vms, procs, spawned>>

\* A VM ends on its own.
VmExits(pid) ==
    /\ pid \in procs
    /\ procs' = procs \ {pid}
    /\ UNCHANGED <<apiVars, schedVars, ctl, tracked, vms, spawned>>

pod_controller_sync_states == SpawnOk \/ SpawnFails \/ SyncEntry \/ SyncDone

Next ==
    \/ \E p \in Pods : CreatePod(p) \/ DeletePod(p)
    \/ \E s \in Schedulers : scheduler_run_cycle(s) \/ scheduler_bind_pod_to_node(s)
    \/ \E r \in reqs : Handle(r) \/ GiveUp(r)
    \/ FetchPods \/ FetchFails \/ pod_controller_fetch_pods
    \/ pod_controller_sync_states
    \/ \E pid \in procs : VmExits(pid)

\* The loops run for ever, a handler ends, a listing does not fail for ever.
Spec ==
    /\ Init /\ [][Next]_vars
    /\ WF_vars(pod_controller_fetch_pods) /\ WF_vars(pod_controller_sync_states)
    /\ SF_vars(FetchPods) /\ WF_vars(FetchPods \/ FetchFails)
    /\ WF_vars(\E r \in reqs : r.by = "controller" /\ Handle(r))

---------------------------------------------------------------------------
(* Properties.                                                             *)

\* The variables have their types; the tables are within their arrays, and
\* each actor waits for at most one request.
TypeOK ==
    /\ pods \in [Pods -> Stored \cup {Absent}]
    /\ creates \in 0 .. MaxCreates /\ timeouts \in 0 .. MaxTimeouts
    /\ \A s \in Schedulers : sched[s].busy = (\E r \in reqs : r.by = s)
    /\ (ctl.pc = "patching") = (\E r \in reqs : r.by = "controller")
    /\ \A r, q \in reqs : r.by = q.by /\ r.by # "nobody" => r = q
    /\ scheduled \subseteq Pods /\ bound \subseteq Pods
    /\ ctl.pc \in {"fetch", "track", "sync", "patching"} /\ ctl.list \subseteq UnikernelPods
    /\ Len(tracked) <= MAX_TRACKED_PODS /\ Len(vms) <= MAX_VMS
    /\ procs \subseteq DOMAIN spawned

\* qemu_spawn ignores the result of qemu_track_vm.  It never loses a VM by
\* that: the pod controller's table is no larger than the runtime's, so every
\* QEMU process alive is in vms[] with its pid, where qemu_stop finds it.
EveryVmIsKnown ==
    \A pid \in procs : \E j \in DOMAIN vms : vms[j] = [vm |-> spawned[pid], pid |-> pid]

\* A pod has at most one entry and at most one VM, also when it is deleted and
\* created again, and an entry marked Failed has no VM running behind it.
OneVmPerPod ==
    /\ \A i, j \in DOMAIN tracked : tracked[i].pod = tracked[j].pod => i = j
    /\ IsInjective(spawned)
    /\ \A i \in DOMAIN tracked :
          (tracked[i].status = "Running") = (tracked[i].pod \in Range(spawned))

\* A phase other than Pending in the store is the one the controller holds for
\* that pod, whatever was deleted, restored or timed out in between.
StoredPhaseIsTheControllers ==
    \A p \in Listed : pods[p].phase # "Pending" =>
        \E i \in DOMAIN tracked : tracked[i].pod = p /\ tracked[i].status = pods[p].phase

\* total_scheduled counts only binds that were stored, though binds time out
\* and fail after taking effect.
ScheduledWasBound == scheduled \subseteq bound

\* A pending unikernel pod gets its VM or is marked Failed, unless it is
\* deleted first or the table is full of other pods.
PendingPodIsStarted ==
    \A p \in UnikernelPods :
        pods[p] # Absent /\ pods[p].phase = "Pending" ~>
            \/ pods[p] = Absent
            \/ Len(tracked) = MAX_TRACKED_PODS /\ p \notin TrackedPods
            \/ \E i \in DOMAIN tracked : tracked[i].pod = p /\ tracked[i].status # "pending"

\* "Monitor VM status" (pod_controller.c:579): the entry of a VM that has
\* stopped becomes Succeeded.
StoppedVmIsReported ==
    \A p \in UnikernelPods :
        (\E k \in DOMAIN spawned : spawned[k] = p /\ k \notin procs) ~>
            (\E i \in DOMAIN tracked : tracked[i].pod = p /\ tracked[i].status = "Succeeded")

\* Machines and bindings are accounted for: every machine is known to the controller, a pod
\* has one at most, and what counts as scheduled was bound in the store (EveryVmIsKnown,
\* OneVmPerPod, ScheduledWasBound).
VmsAreAccounted == EveryVmIsKnown /\ OneVmPerPod /\ ScheduledWasBound

\* The phase the API server has stored for a pod is one that its controller gave it
\* (TypeOK, StoredPhaseIsTheControllers).
PhasesAreTrue == TypeOK /\ StoredPhaseIsTheControllers

=============================================================================
