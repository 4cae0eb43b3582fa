--------------------------- MODULE KubeletRuntime ---------------------------
(***************************************************************************)
(* The kubelet of src/sirah: its loop (kubelet/kubelet.c) over the phases  *)
(* of pods (pkg/lifecycle/pod_lifecycle.c), the containers it runs         *)
(* (unikernel_runtime.c) on virtual machines (qemu_manager.c), and the     *)
(* table of mounted volumes (volumes.c).  One thread calls everything.     *)
(*                                                                         *)
(* The name of a machine, and of the container on it, is its pod and the   *)
(* second it was made in.  A process is "alive", a "zombie" or "gone".     *)
(* The loop frees the name of the container, which lies inside a static    *)
(* table (kubelet.c:267, :270): the library aborts, kuBroken is TRUE and   *)
(* nothing happens any more.                                               *)
(***************************************************************************)
EXTENDS Integers, Sequences, FiniteSets, FiniteSetsExt, SequencesExt

CONSTANTS
    KuPodNames,
    KuVmLimit,          \* MAX_VMS
    KuContainerLimit,   \* MAX_CONTAINERS
    KuPodLimit,         \* the size of managed_pods
    KuEventLimit,       \* the size of lifecycle->events
    KuMountLimit,       \* the size of volume_mappings
    KuVolumes,          \* what a pod mounts: sets of claims
    KuPids,             \* bound: processes forked; the next fork fails
    KuSeconds           \* bound: the clock

ASSUME KuAssumption ==
    /\ {KuVmLimit, KuContainerLimit, KuPodLimit, KuEventLimit, KuMountLimit} \subseteq Nat
    /\ KuPids \in Nat /\ KuSeconds \in Nat

VARIABLES
    kuVms,      \* g_qemu_manager.vms: [id, state, pid]
    kuProcs,    \* external: pid -> what the process is
    kuForked,   \* external: processes forked so far
    kuCons,     \* g_runtime.containers: [id, running]
    kuManaged,  \* kubelet->managed_pods: [pod, phase, events, waited]
    kuRuntime,  \* kubelet->runtime: is there one
    kuMounts,   \* volume_mappings: [pod, claims]
    kuClock, kuBroken

kuMachine == <<kuVms, kuProcs, kuForked, kuCons>>
kuVars == <<kuMachine, kuManaged, kuRuntime, kuMounts, kuClock, kuBroken>>

NoRow == 0

FirstRow(table, id) ==
    LET rows == {i \in DOMAIN table : table[i].id = id} IN IF rows = {} THEN NoRow ELSE Min(rows)

---------------------------------------------------------------------------
(* kubelet/qemu_manager.c.                                                 *)

find_vm(id) == FirstRow(kuVms, id)

generate_vm_id(pod) == [pod |-> pod, at |-> kuClock]

\* The table as qemu_create_vm leaves it; the image may be missing.
qemu_create_vm(pod) ==
    IF Len(kuVms) < KuVmLimit
    THEN {kuVms, Append(kuVms, [id |-> generate_vm_id(pod), state |-> "CREATED", pid |-> 0])}
    ELSE {kuVms}

CanStart == kuForked < KuPids

\* fork succeeds: the machine runs, also if exec fails in the child.
Started(vms, i) == [vms EXCEPT ![i].state = "RUNNING", ![i].pid = kuForked + 1]

qemu_start_vm(vms, i) ==
    IF vms[i].state = "RUNNING"
    THEN kuVms' = vms /\ UNCHANGED <<kuProcs, kuForked>>
    ELSE /\ CanStart /\ kuVms' = Started(vms, i) /\ kuForked' = kuForked + 1
         /\ kuProcs' = [kuProcs EXCEPT ![kuForked + 1] = "alive"]

qemu_pause_vm(i) ==
    /\ kuVms[i].state = "RUNNING" /\ kuProcs[kuVms[i].pid] # "gone"
    /\ kuVms' = [kuVms EXCEPT ![i].state = "PAUSED"]
    /\ UNCHANGED <<kuProcs, kuForked, kuCons>>

qemu_resume_vm(i) ==
    /\ kuVms[i].state = "PAUSED" /\ kuProcs[kuVms[i].pid] # "gone"
    /\ kuVms' = [kuVms EXCEPT ![i].state = "RUNNING"]
    /\ UNCHANGED <<kuProcs, kuForked, kuCons>>

\* The process of machine i is signalled and reaped.
Reaped(i) == IF kuVms[i].pid > 0 THEN [kuProcs EXCEPT ![kuVms[i].pid] = "gone"] ELSE kuProcs

Stopped(vms, i) == [vms EXCEPT ![i].state = "STOPPED"]

\* SIGKILL and waitpid; the pid stays in the row, and is signalled again when
\* the machine is killed a second time.
qemu_kill_vm(i) == kuVms' = Stopped(kuVms, i) /\ kuProcs' = Reaped(i) /\ UNCHANGED kuForked

\* Mutation: a machine that does not react to SIGTERM in time is left alone.
qemu_stop_vm_gives_up(i) ==
    /\ kuVms' = IF kuVms[i].state = "STOPPED" THEN kuVms ELSE Stopped(kuVms, i)
    /\ kuProcs' \in {kuProcs, Reaped(i)}
    /\ UNCHANGED kuForked

\* SIGTERM; the process ends in time and is reaped, or it is killed.
qemu_stop_vm(i) ==
    IF kuVms[i].state = "STOPPED" THEN UNCHANGED <<kuVms, kuProcs, kuForked>>
                                  ELSE qemu_kill_vm(i)

\* Only a stopped machine is deleted.
qemu_delete_vm(i) == IF kuVms[i].state = "STOPPED" THEN RemoveAt(kuVms, i) ELSE kuVms

qemu_get_state(id) == LET i == find_vm(id) IN IF i = NoRow THEN "FAILED" ELSE kuVms[i].state
qemu_get_vm(id) == find_vm(id)
qemu_vm_exists(id) == find_vm(id) # NoRow
qemu_list_vms(max) == SubSeq(kuVms, 1, Min({max, Len(kuVms)}))
qemu_get_stats ==
    [total |-> Len(kuVms),
     running |-> Cardinality({i \in DOMAIN kuVms : kuVms[i].state = "RUNNING"})]

\* Every machine that its name finds is stopped.
qemu_manager_shutdown ==
    LET found == {i \in DOMAIN kuVms : find_vm(kuVms[i].id) = i /\ kuVms[i].state # "STOPPED"}
        pids  == {kuVms[i].pid : i \in found}
    IN  /\ kuVms' = [i \in DOMAIN kuVms |->
                        IF i \in found THEN [kuVms[i] EXCEPT !.state = "STOPPED"] ELSE kuVms[i]]
        /\ kuProcs' = [p \in DOMAIN kuProcs |-> IF p \in pids THEN "gone" ELSE kuProcs[p]]
        /\ UNCHANGED kuForked

---------------------------------------------------------------------------
(* kubelet/unikernel_runtime.c.                                            *)

find_container(id) == FirstRow(kuCons, id)

unikernel_container_create(pod) ==
    /\ Len(kuCons) < KuContainerLimit
    /\ \E vms \in qemu_create_vm(pod) : vms # kuVms /\ kuVms' = vms
    /\ kuCons' = Append(kuCons, [id |-> generate_vm_id(pod), running |-> FALSE])
    /\ UNCHANGED <<kuProcs, kuForked>>

\* A container whose machine is gone, or that runs, is refused.
unikernel_container_run(id) ==
    LET c == find_container(id)
    IN  /\ c # NoRow /\ ~kuCons[c].running /\ qemu_vm_exists(id)
        /\ qemu_start_vm(kuVms, find_vm(id))
        /\ kuCons' = [kuCons EXCEPT ![c].running = TRUE]

unikernel_container_stop(id) ==
    LET c == find_container(id)
    IN  /\ c # NoRow /\ kuCons[c].running
        /\ IF qemu_vm_exists(id) THEN qemu_stop_vm(find_vm(id))
                                 ELSE UNCHANGED <<kuVms, kuProcs, kuForked>>
        /\ kuCons' = [kuCons EXCEPT ![c].running = FALSE]

unikernel_container_kill(id) ==
    LET c == find_container(id)
    IN  /\ c # NoRow
        /\ IF qemu_vm_exists(id) THEN qemu_kill_vm(find_vm(id))
                                 ELSE UNCHANGED <<kuVms, kuProcs, kuForked>>
        /\ kuCons' = [kuCons EXCEPT ![c].running = FALSE]

\* The row of the machine stays when it was never started.
unikernel_container_remove(id) ==
    LET c == find_container(id)
    IN  /\ c # NoRow /\ ~kuCons[c].running
        /\ kuVms' = IF qemu_vm_exists(id) THEN qemu_delete_vm(find_vm(id)) ELSE kuVms
        /\ kuCons' = RemoveAt(kuCons, c)
        /\ UNCHANGED <<kuProcs, kuForked>>

unikernel_container_exists(id) == find_container(id) # NoRow
unikernel_container_inspect(id) == {kuCons[i] : i \in {find_container(id)} \ {NoRow}}
unikernel_runtime_stats ==
    [total |-> Len(kuCons), running |-> Cardinality({i \in DOMAIN kuCons : kuCons[i].running})]

\* The containers are forgotten; the machines are not.  kubelet_init calls it
\* once, or again after kubelet_shutdown, when no container runs.
unikernel_runtime_init ==
    /\ kuCons # <<>> /\ \A i \in DOMAIN kuCons : ~kuCons[i].running
    /\ kuCons' = <<>> /\ UNCHANGED <<kuVms, kuProcs, kuForked>>

unikernel_runtime_shutdown ==
    /\ qemu_manager_shutdown
    /\ kuCons' = [i \in DOMAIN kuCons |-> [kuCons[i] EXCEPT !.running = FALSE]]

ContainerIds == {kuCons[i].id : i \in DOMAIN kuCons}

\* external: a process ends by itself, or time passes.
ProcessEnds ==
    /\ \E p \in DOMAIN kuProcs : kuProcs[p] = "alive" /\ kuProcs' = [kuProcs EXCEPT ![p] = "zombie"]
    /\ UNCHANGED <<kuVms, kuForked, kuCons>>

KuClockMoves == kuClock < KuSeconds /\ kuClock' = kuClock + 1

RuntimeNext ==
    \/ /\ \/ \E pod \in KuPodNames : unikernel_container_create(pod)
          \/ \E id \in ContainerIds : \/ unikernel_container_run(id) \/ unikernel_container_stop(id)
                                      \/ unikernel_container_kill(id) \/ unikernel_container_remove(id)
          \/ \E i \in DOMAIN kuVms : find_vm(kuVms[i].id) = i /\ (qemu_pause_vm(i) \/ qemu_resume_vm(i))
          \/ unikernel_runtime_init \/ unikernel_runtime_shutdown \/ ProcessEnds
       /\ UNCHANGED <<kuManaged, kuRuntime, kuMounts, kuClock, kuBroken>>
    \/ KuClockMoves /\ UNCHANGED <<kuMachine, kuManaged, kuRuntime, kuMounts, kuBroken>>

---------------------------------------------------------------------------
(* pkg/lifecycle/pod_lifecycle.c.                                          *)

pod_lifecycle_add_event(l, n) == [l EXCEPT !.events = Min({@ + n, KuEventLimit})]

pod_lifecycle_new(pod) ==
    pod_lifecycle_add_event([pod |-> pod, phase |-> "Pending", events |-> 0, waited |-> FALSE], 1)

pod_lifecycle_is_ready(l) == l.phase = "Running"
pod_lifecycle_is_completed(l) == l.phase \in {"Succeeded", "Failed"}
pod_lifecycle_get_events(l) == l.events
pod_lifecycle_get_phase_string(l) == l.phase

pod_lifecycle_transition_to_running(l) ==
    IF l.phase = "Pending" THEN pod_lifecycle_add_event([l EXCEPT !.phase = "Running"], 2) ELSE l

pod_lifecycle_transition_to_succeeded(l) ==
    IF pod_lifecycle_is_completed(l) THEN l
    ELSE pod_lifecycle_add_event([l EXCEPT !.phase = "Succeeded"], 1)

pod_lifecycle_transition_to_failed(l) ==
    IF pod_lifecycle_is_completed(l) THEN l
    ELSE pod_lifecycle_add_event([l EXCEPT !.phase = "Failed"], 1)

pod_lifecycle_transition_to_terminating(l) ==
    IF l.phase = "Terminating" \/ pod_lifecycle_is_completed(l) THEN l
    ELSE pod_lifecycle_add_event([l EXCEPT !.phase = "Terminating"], 1)

---------------------------------------------------------------------------
(* kubelet/kubelet.c.                                                      *)

kubelet_new == <<>>

\* The runtime comes up or not.
kubelet_init == kuRuntime \in BOOLEAN

ManagedRow(pod) ==
    LET rows == {i \in DOMAIN kuManaged : kuManaged[i].pod = pod}
    IN  IF rows = {} THEN NoRow ELSE Min(rows)

\* The list of the node's pods cannot be read, or has some pods.
kubelet_get_assigned_pods == {{}} \cup SUBSET KuPodNames

\* One pod of the list.  A pod that was deleted stays managed, and so does
\* its machine.
kubelet_run(pod) ==
    LET row  == ManagedRow(pod)
        have == IF row # NoRow THEN kuManaged
                ELSE IF Len(kuManaged) < KuPodLimit
                     THEN Append(kuManaged, pod_lifecycle_new(pod)) ELSE kuManaged
        i    == IF row # NoRow THEN row ELSE Len(kuManaged) + 1
        due  == i \in DOMAIN have /\ have[i].phase = "Pending" /\ have[i].waited
    IN  /\ ~kuBroken
        /\ \/ ~due /\ kuManaged' = have /\ UNCHANGED <<kuMachine, kuBroken>>
           \/ /\ due /\ ~kuRuntime
              /\ kuManaged' = [have EXCEPT ![i] = pod_lifecycle_transition_to_running(@)]
              /\ UNCHANGED <<kuMachine, kuBroken>>
           \/ /\ due /\ kuRuntime /\ unikernel_container_create(pod)
              /\ kuManaged' = have /\ kuBroken' = TRUE
        /\ UNCHANGED <<kuRuntime, kuMounts, kuClock>>

\* A second passes for the pods that wait.
PodsWait ==
    /\ \E i \in DOMAIN kuManaged : ~kuManaged[i].waited
    /\ kuManaged' = [i \in DOMAIN kuManaged |-> [kuManaged[i] EXCEPT !.waited = TRUE]]
    /\ UNCHANGED <<kuMachine, kuRuntime, kuMounts, kuClock, kuBroken>>

\* What a status update of a pod reports.
kubelet_update_pod_status(i) == pod_lifecycle_get_phase_string(kuManaged[i])

PhaseChanges(i) ==
    /\ kuManaged' \in {[kuManaged EXCEPT ![i] = pod_lifecycle_transition_to_succeeded(@)],
                       [kuManaged EXCEPT ![i] = pod_lifecycle_transition_to_failed(@)],
                       [kuManaged EXCEPT ![i] = pod_lifecycle_transition_to_terminating(@)]}
    /\ UNCHANGED <<kuMachine, kuRuntime, kuMounts, kuClock, kuBroken>>

kubelet_run_health_checks == 0

kubelet_shutdown ==
    /\ kuRuntime /\ ~kuBroken /\ unikernel_runtime_shutdown /\ kuRuntime' = FALSE
    /\ UNCHANGED <<kuManaged, kuMounts, kuClock, kuBroken>>

---------------------------------------------------------------------------
(* kubelet/volumes.c.                                                      *)

\* The directory cannot be made, or a mapping is added; a pod that mounts
\* twice has two.
kubelet_mount_pod_volumes_impl(pod, claims) ==
    Len(kuMounts) < KuMountLimit /\ kuMounts' = Append(kuMounts, [pod |-> pod, claims |-> claims])

\* A node's own call: no volumes is no error.
kubelet_mount_pod_volumes(pod, claims) ==
    IF claims = {} THEN UNCHANGED kuMounts ELSE kubelet_mount_pod_volumes_impl(pod, claims)

kubelet_bind_persistent_volume(pod, claim) ==
    \E i \in DOMAIN kuMounts : kuMounts[i].pod = pod /\ claim \in kuMounts[i].claims

\* The first mapping of the pod is taken out.
kubelet_cleanup_pod_mounts(pod) ==
    LET rows == {i \in DOMAIN kuMounts : kuMounts[i].pod = pod}
    IN  rows # {} /\ kuMounts' = RemoveAt(kuMounts, Min(rows))

kubelet_cleanup_volumes(pod) == kubelet_cleanup_pod_mounts(pod)

Mounting ==
    /\ \E pod \in KuPodNames : \/ \E claims \in KuVolumes : kubelet_mount_pod_volumes(pod, claims)
                               \/ kubelet_cleanup_volumes(pod)
    /\ ~kuBroken /\ UNCHANGED <<kuMachine, kuManaged, kuRuntime, kuClock, kuBroken>>

KubeletNext ==
    \/ \E pods \in kubelet_get_assigned_pods : \E pod \in pods : kubelet_run(pod)
    \/ PodsWait \/ kubelet_shutdown \/ Mounting
    \/ \E i \in DOMAIN kuManaged : ~kuBroken /\ PhaseChanges(i)

KuInit ==
    /\ kuVms = <<>> /\ kuProcs = [p \in 1 .. KuPids |-> "gone"] /\ kuForked = 0
    /\ kuCons = <<>> /\ kuManaged = kubelet_new /\ kubelet_init
    /\ kuMounts = <<>> /\ kuClock = 0 /\ kuBroken = FALSE

---------------------------------------------------------------------------
(* Properties.                                                             *)

\* No machine runs that the manager does not know: a qemu process that lives
\* is the process of exactly one row, and that row says running or paused.
\* Names can collide (two machines of a pod made in one second), rows shift
\* when one is deleted, and a container may be gone while its machine stays.
VmProcessKnown ==
    \A p \in DOMAIN kuProcs : kuProcs[p] = "alive" =>
        Cardinality({i \in DOMAIN kuVms : kuVms[i].pid = p
                                          /\ kuVms[i].state \in {"RUNNING", "PAUSED"}}) = 1

=============================================================================
