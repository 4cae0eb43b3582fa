------------------------- MODULE PodPipelineProofs -------------------------
(***************************************************************************)
(* Proofs about PodPipeline, for any number of pods and any table sizes    *)
(* with MAX_TRACKED_PODS <= MAX_VMS.                                       *)
(*                                                                         *)
(* qemu_spawn ignores a full vms[].  The argument that this loses no VM is *)
(* a count: the VMs forked so far belong to different tracked pods, none   *)
(* of them the one about to be started, so they are fewer than the entries *)
(* of tracked_pods[], and those are at most MAX_VMS.                       *)
(***************************************************************************)
EXTENDS PodPipeline, FiniteSetTheorems, TLAPS

Statuses == {"pending", "Running", "Failed"}
Entries  == [pod : UnikernelPods, status : Statuses, vm_pid : {-1}]

\* What the controller's variables are, and what it holds in its tables.
CtlInv ==
    /\ tracked \in Seq(Entries) /\ spawned \in Seq(Pods)
    /\ ctl \in [pc : {"fetch", "track", "sync", "patching"}, list : SUBSET UnikernelPods,
                i : Nat \ {0}]
    /\ Len(tracked) <= MAX_TRACKED_PODS
    /\ procs \subseteq 1 .. Len(spawned)
    /\ vms = [k \in 1 .. Len(spawned) |-> [vm |-> spawned[k], pid |-> k]]

\* Entries are for different pods; VMs are those of the Running entries.
TableInv ==
    /\ \A i, j \in 1 .. Len(tracked) : tracked[i].pod = tracked[j].pod => i = j
    /\ \A k, l \in 1 .. Len(spawned) : spawned[k] = spawned[l] => k = l
    /\ \A k \in 1 .. Len(spawned) :
          \E i \in 1 .. Len(tracked) : tracked[i].pod = spawned[k]
    /\ \A i \in 1 .. Len(tracked) :
          (tracked[i].status = "Running")
              <=> (\E k \in 1 .. Len(spawned) : spawned[k] = tracked[i].pod)

IInv == CtlInv /\ TableInv

\* Whose requests are binds.
Fields == {"by", "op", "pod", "val", "pc", "read", "tag"}
ReqInv ==
    /\ \A r \in reqs : /\ DOMAIN r = Fields
                       /\ r.by = "integration" => r.op = "bind"
    /\ scheduled \subseteq bound

---------------------------------------------------------------------------

\* Fewer VMs than entries: if the entry at i has no VM, there is room in vms[].
LEMMA RoomForVm ==
    ASSUME CtlInv, TableInv, NEW i \in 1 .. Len(tracked),
           \A k \in 1 .. Len(spawned) : spawned[k] # tracked[i].pod
    PROVE  Len(spawned) < Len(tracked)
<1> DEFINE n == Len(spawned)
           m == Len(tracked)
           g == [k \in 1 .. n |-> CHOOSE j \in 1 .. m : tracked[j].pod = spawned[k]]
           T == (1 .. m) \ {i}
<1>1. n \in Nat /\ m \in Nat
  BY DEF CtlInv
<1>2. \A k \in 1 .. n : g[k] \in 1 .. m /\ tracked[g[k]].pod = spawned[k]
  BY SMTT(40) DEF TableInv
<1>3. g \in [1 .. n -> T]
  BY <1>2
<1>4. \A a, b \in 1 .. n : g[a] = g[b] => a = b
  <2> SUFFICES ASSUME NEW a \in 1 .. n, NEW b \in 1 .. n, g[a] = g[b]
               PROVE  a = b
    OBVIOUS
  <2>1. spawned[a] = spawned[b]
    BY <1>2
  <2> QED BY <2>1 DEF TableInv
<1>5. g \in Injection(1 .. n, T)
  BY <1>3, <1>4, Zenon DEF Injection, IsInjective
<1>6. \A k \in Nat : IsFiniteSet(1 .. k) /\ Cardinality(1 .. k) = k
  <2> SUFFICES ASSUME NEW k \in Nat PROVE IsFiniteSet(1 .. k) /\ Cardinality(1 .. k) = k
    OBVIOUS
  <2>1. 1 \in Int /\ k \in Int /\ (IF 1 > k THEN 0 ELSE k - 1 + 1) = k
    OBVIOUS
  <2> QED BY <2>1, FS_Interval, Zenon
<1>7. IsFiniteSet(T) /\ Cardinality(T) = m - 1
  BY <1>1, <1>6, FS_RemoveElement, Zenon
<1>8. Cardinality(1 .. n) <= Cardinality(T)
  BY <1>5, <1>7, FS_Injection
<1>9. Cardinality(1 .. n) = n
  BY <1>1, <1>6
<1> QED BY <1>1, <1>7, <1>8, <1>9

\* The entries after the listing's new pods have been added.
LEMMA TrackKeeps ==
    ASSUME IInv, pod_controller_fetch_pods
    PROVE  IInv'
<1> USE PipelineAssumption DEF IInv
<1> DEFINE N == ctl.list \ TrackedPods
<1>1. PICK new \in Listings(N) : tracked' = tracked \o [i \in 1 .. Admitted(new) |-> Entry(new[i])]
  BY Zenon DEF pod_controller_fetch_pods
<1> DEFINE a == Admitted(new)
           add == [i \in 1 .. a |-> Entry(new[i])]
           m == Len(tracked)
<1>2. N \subseteq UnikernelPods /\ IsFiniteSet(N) /\ Cardinality(N) \in Nat
  <2>1. N \subseteq UnikernelPods
    BY DEF CtlInv
  <2>2. N \in SUBSET Pods
    BY <2>1
  <2> QED BY <2>1, <2>2, FS_Subset, FS_CardinalityType
<1>3. new \in [1 .. Cardinality(N) -> N] /\ \A x, y \in 1 .. Cardinality(N) : new[x] = new[y] => x = y
  BY <1>1, Zenon DEF Listings, Injection, IsInjective
<1>4. m \in Nat /\ m <= MAX_TRACKED_PODS
  BY DEF CtlInv
<1>5. a \in 0 .. Cardinality(N) /\ m + a <= MAX_TRACKED_PODS
  <2>1. Len(new) = Cardinality(N)
    BY <1>2, <1>3
  <2> QED BY <1>2, <1>4, <2>1 DEF Admitted
<1>6. add \in Seq(Entries) /\ Len(add) = a
  <2>1. \A x \in 1 .. a : Entry(new[x]) \in Entries
    <3>1. ASSUME NEW x \in 1 .. a
          PROVE  new[x] \in UnikernelPods
      <4>1. x \in 1 .. Cardinality(N)
        BY <1>2, <1>5
      <4>2. new[x] \in N
        BY <1>3, <4>1, Zenon
      <4> QED BY <1>2, <4>2
    <3> QED BY <3>1 DEF Entry, Entries, Statuses
  <2> QED BY <1>5, <2>1
<1>7. /\ tracked' \in Seq(Entries) /\ Len(tracked') = m + a
      /\ \A x \in 1 .. m : tracked'[x] = tracked[x]
      /\ \A x \in m + 1 .. m + a : tracked'[x] = Entry(new[x - m])
  <2>1. tracked \in Seq(Entries)
    BY DEF CtlInv
  <2> QED BY <1>1, <1>4, <1>5, <1>6, <2>1
<1>8. UNCHANGED <<vms, procs, spawned>>
  BY DEF pod_controller_fetch_pods
<1>9. ctl' \in [pc : {"fetch", "track", "sync", "patching"}, list : SUBSET UnikernelPods, i : Nat \ {0}]
  BY DEF pod_controller_fetch_pods, CtlInv
<1>10. CtlInv'
  BY <1>4, <1>5, <1>7, <1>8, <1>9 DEF CtlInv
<1>11. \A x \in m + 1 .. m + a : /\ tracked'[x].status = "pending"
                                 /\ tracked'[x].pod = new[x - m] /\ x - m \in 1 .. Cardinality(N)
                                 /\ \A y \in 1 .. m : tracked[y].pod # tracked'[x].pod
  <2> SUFFICES ASSUME NEW x \in m + 1 .. m + a
               PROVE  /\ tracked'[x].status = "pending"
                      /\ tracked'[x].pod = new[x - m] /\ x - m \in 1 .. Cardinality(N)
                      /\ \A y \in 1 .. m : tracked[y].pod # tracked'[x].pod
    BY Zenon
  <2>1. tracked'[x].status = "pending" /\ tracked'[x].pod = new[x - m]
    <3>1. tracked'[x] = Entry(new[x - m])
      BY <1>7
    <3> QED BY <3>1 DEF Entry
  <2>2. x - m \in 1 .. Cardinality(N)
    BY <1>2, <1>4, <1>5
  <2>3. new[x - m] \notin TrackedPods
    BY <1>3, <2>2, Zenon
  <2>4. \A y \in 1 .. m : tracked[y].pod \in TrackedPods
    BY DEF TrackedPods, CtlInv
  <2> QED BY <2>1, <2>2, <2>3, <2>4
<1>12. \A x, y \in 1 .. Len(tracked') : tracked'[x].pod = tracked'[y].pod => x = y
  <2> SUFFICES ASSUME NEW x \in 1 .. m + a, NEW y \in 1 .. m + a, tracked'[x].pod = tracked'[y].pod
               PROVE  x = y
    BY <1>7
  <2>1. CASE x \in 1 .. m /\ y \in 1 .. m
    BY <1>7, <2>1 DEF TableInv
  <2>2. CASE x \in 1 .. m /\ y \in m + 1 .. m + a
    BY <1>7, <1>11, <2>2
  <2>3. CASE x \in m + 1 .. m + a /\ y \in 1 .. m
    BY <1>7, <1>11, <2>3
  <2>4. CASE x \in m + 1 .. m + a /\ y \in m + 1 .. m + a
    <3>1. new[x - m] = new[y - m] /\ x - m \in 1 .. Cardinality(N) /\ y - m \in 1 .. Cardinality(N)
      BY <1>11, <2>4, Zenon
    <3>2. x - m = y - m
      BY <1>3, <3>1, Zenon
    <3> QED BY <1>4, <3>2
  <2> QED BY <1>4, <1>5, <2>1, <2>2, <2>3, <2>4
<1>13. \A k \in 1 .. Len(spawned) : \E x \in 1 .. m : tracked'[x].pod = spawned[k]
  BY <1>7 DEF TableInv
<1>14. ASSUME NEW x \in 1 .. Len(tracked')
       PROVE  (tracked'[x].status = "Running")
                <=> (\E k \in 1 .. Len(spawned) : spawned[k] = tracked'[x].pod)
  <2>1. CASE x \in 1 .. m
    BY <1>7, <2>1 DEF TableInv
  <2>2. CASE x \in m + 1 .. m + a
    <3>1. \A k \in 1 .. Len(spawned) : spawned[k] # tracked'[x].pod
      BY <1>11, <2>2 DEF TableInv
    <3> QED BY <1>11, <2>2, <3>1
  <2> QED BY <1>4, <1>5, <1>7, <2>1, <2>2
<1>15. TableInv'
  <2>1. \A k \in 1 .. Len(spawned) : \E x \in 1 .. Len(tracked') : tracked'[x].pod = spawned[k]
    BY <1>4, <1>5, <1>7, <1>13, SMTT(40)
  <2> QED BY <1>8, <1>12, <1>14, <2>1 DEF TableInv
<1> QED BY <1>10, <1>15

\* A VM is started: its pod had none, so there is room in vms[] for it.
LEMMA SpawnKeeps ==
    ASSUME IInv, SpawnOk
    PROVE  IInv'
<1> USE PipelineAssumption DEF IInv
<1> DEFINE i == ctl.i
           n == Len(spawned)
           m == Len(tracked)
           p == tracked[i].pod
<1>1. i \in 1 .. m /\ tracked[i].status = "pending" /\ m \in Nat /\ n \in Nat /\ tracked[i] \in Entries
  BY DEF SpawnOk, CtlInv
<1>2. p \in UnikernelPods /\ p \in Pods
  BY <1>1 DEF Entries
<1>3. \A k \in 1 .. n : spawned[k] # p
  BY <1>1, SMTT(40) DEF TableInv
<1>4. n < m
  BY <1>1, <1>3, RoomForVm
<1>5. /\ spawned' = Append(spawned, p)
      /\ procs' = procs \cup {n + 1}
      /\ vms' = qemu_track_vm(p, n + 1)
      /\ tracked' = [tracked EXCEPT ![i].status = "Running"]
      /\ ctl' = [pc |-> "patching", list |-> {}, i |-> i + 1]
  BY DEF SpawnOk, qemu_spawn, UpdateStatus
<1>6. /\ spawned' \in Seq(Pods) /\ Len(spawned') = n + 1 /\ spawned'[n + 1] = p
      /\ \A k \in 1 .. n : spawned'[k] = spawned[k]
  BY <1>1, <1>2, <1>5 DEF CtlInv
<1>7. /\ tracked' \in Seq(Entries) /\ Len(tracked') = m
      /\ tracked'[i].pod = p /\ tracked'[i].status = "Running"
      /\ \A x \in 1 .. m : tracked'[x].pod = tracked[x].pod
      /\ \A x \in 1 .. m : x # i => tracked'[x] = tracked[x]
  <2>1. tracked \in Seq(Entries)
    BY DEF CtlInv
  <2>2. [tracked[i] EXCEPT !.status = "Running"] \in Entries
    BY <1>1, SMTT(40) DEF Entries, Statuses
  <2>3. tracked' = [tracked EXCEPT ![i] = [tracked[i] EXCEPT !.status = "Running"]]
    BY <1>5
  <2>4. /\ [tracked[i] EXCEPT !.status = "Running"].pod = p
        /\ [tracked[i] EXCEPT !.status = "Running"].status = "Running"
    BY <1>1 DEF Entries
  <2> QED BY <1>1, <2>1, <2>2, <2>3, <2>4, SMTT(40)
<1>8. vms' = [k \in 1 .. n + 1 |-> [vm |-> spawned'[k], pid |-> k]]
  <2>1. vms = [k \in 1 .. n |-> [vm |-> spawned[k], pid |-> k]]
    BY DEF CtlInv
  <2>2. vms \in Seq([vm : Pods, pid : Nat]) /\ Len(vms) = n
    <3>1. \A k \in 1 .. n : [vm |-> spawned[k], pid |-> k] \in [vm : Pods, pid : Nat]
      BY <1>1 DEF CtlInv
    <3> QED BY <1>1, <2>1, <3>1
  <2>3. n < MAX_VMS
    BY <1>1, <1>4 DEF CtlInv
  <2>4. vms' = Append(vms, [vm |-> p, pid |-> n + 1])
    BY <1>1, <1>5, <2>2, <2>3 DEF qemu_track_vm
  <2> QED BY <1>1, <1>6, <2>1, <2>2, <2>4
<1>9. procs' \subseteq 1 .. Len(spawned')
  BY <1>1, <1>5, <1>6, SMTT(40) DEF CtlInv
<1>10. ctl' \in [pc : {"fetch", "track", "sync", "patching"}, list : SUBSET UnikernelPods, i : Nat \ {0}]
  BY <1>1, <1>5, SMTT(40)
<1>11. CtlInv'
  BY <1>1, <1>6, <1>7, <1>8, <1>9, <1>10 DEF CtlInv
<1>12. \A x, y \in 1 .. Len(tracked') : tracked'[x].pod = tracked'[y].pod => x = y
  BY <1>7, SMTT(40) DEF TableInv
<1>13. \A k, l \in 1 .. Len(spawned') : spawned'[k] = spawned'[l] => k = l
  <2> SUFFICES ASSUME NEW k \in 1 .. n + 1, NEW l \in 1 .. n + 1, spawned'[k] = spawned'[l]
               PROVE  k = l
    BY <1>6
  <2>1. CASE k \in 1 .. n /\ l \in 1 .. n
    BY <1>6, <2>1 DEF TableInv
  <2>2. CASE k = n + 1 \/ l = n + 1
    BY <1>1, <1>3, <1>6, <2>2, SMTT(40)
  <2> QED BY <1>1, <2>1, <2>2
<1>14. \A k \in 1 .. Len(spawned') : \E x \in 1 .. Len(tracked') : tracked'[x].pod = spawned'[k]
  <2> SUFFICES ASSUME NEW k \in 1 .. n + 1
               PROVE  \E x \in 1 .. m : tracked'[x].pod = spawned'[k]
    BY <1>6, <1>7
  <2>1. CASE k \in 1 .. n
    <3>1. PICK x \in 1 .. m : tracked[x].pod = spawned[k]
      BY <2>1 DEF TableInv
    <3> QED BY <1>6, <1>7, <2>1, <3>1
  <2>2. CASE k = n + 1
    BY <1>1, <1>6, <1>7, <2>2
  <2> QED BY <1>1, <2>1, <2>2
<1>15. ASSUME NEW x \in 1 .. Len(tracked')
       PROVE  (tracked'[x].status = "Running")
                <=> (\E k \in 1 .. Len(spawned') : spawned'[k] = tracked'[x].pod)
  <2>0. x \in 1 .. m
    BY <1>7
  <2>1. CASE x = i
    BY <1>1, <1>6, <1>7, <2>1
  <2>2. CASE x # i
    <3>1. tracked'[x] = tracked[x] /\ tracked[x].pod # p
      BY <1>1, <1>7, <2>0, <2>2 DEF TableInv
    <3>2. (tracked[x].status = "Running") <=> (\E k \in 1 .. n : spawned[k] = tracked[x].pod)
      BY <2>0 DEF TableInv
    <3>3. (\E k \in 1 .. n : spawned[k] = tracked[x].pod)
            <=> (\E k \in 1 .. n + 1 : spawned'[k] = tracked[x].pod)
      BY <1>1, <1>6, <3>1, SMTT(40)
    <3> QED BY <1>6, <3>1, <3>2, <3>3
  <2> QED BY <2>1, <2>2
<1> QED BY <1>11, <1>12, <1>13, <1>14, <1>15 DEF TableInv

\* The VM cannot be started: the entry is Failed, and had no VM before.
LEMMA SpawnFailsKeeps ==
    ASSUME IInv, SpawnFails
    PROVE  IInv'
<1> USE DEF IInv
<1> DEFINE i == ctl.i
           m == Len(tracked)
<1>1. i \in 1 .. m /\ tracked[i].status = "pending" /\ m \in Nat /\ tracked[i] \in Entries
  BY DEF SpawnFails, CtlInv
<1>2. /\ tracked' = [tracked EXCEPT ![i].status = "Failed"]
      /\ ctl' = [pc |-> "patching", list |-> {}, i |-> i + 1]
      /\ UNCHANGED <<vms, procs, spawned>>
  BY DEF SpawnFails, UpdateStatus
<1>3. /\ tracked' \in Seq(Entries) /\ Len(tracked') = m
      /\ tracked'[i].status = "Failed"
      /\ \A x \in 1 .. m : tracked'[x].pod = tracked[x].pod
      /\ \A x \in 1 .. m : x # i => tracked'[x] = tracked[x]
  <2>1. tracked \in Seq(Entries)
    BY DEF CtlInv
  <2>2. [tracked[i] EXCEPT !.status = "Failed"] \in Entries
    BY <1>1 DEF Entries, Statuses
  <2>3. tracked' = [tracked EXCEPT ![i] = [tracked[i] EXCEPT !.status = "Failed"]]
    BY <1>2
  <2>4. /\ [tracked[i] EXCEPT !.status = "Failed"].pod = tracked[i].pod
        /\ [tracked[i] EXCEPT !.status = "Failed"].status = "Failed"
    BY <1>1 DEF Entries
  <2> QED BY <1>1, <2>1, <2>2, <2>3, <2>4
<1>4. CtlInv'
  BY <1>1, <1>2, <1>3, SMTT(40) DEF CtlInv
<1>5. TableInv'
  <2>1. \A k \in 1 .. Len(spawned) : \E x \in 1 .. m : tracked'[x].pod = spawned[k]
    BY <1>3 DEF TableInv
  <2>2. ASSUME NEW x \in 1 .. m
        PROVE  (tracked'[x].status = "Running")
                 <=> (\E k \in 1 .. Len(spawned) : spawned[k] = tracked'[x].pod)
    <3>1. CASE x = i
      <4>1. ~\E k \in 1 .. Len(spawned) : spawned[k] = tracked[i].pod
        BY <1>1, SMTT(40) DEF TableInv
      <4>2. tracked'[x].status = "Failed" /\ tracked'[x].pod = tracked[i].pod
        BY <1>1, <1>3, <3>1
      <4> QED BY <4>1, <4>2
    <3>2. CASE x # i
      BY <1>3, <3>2 DEF TableInv
    <3> QED BY <3>1, <3>2
  <2>3. \A x, y \in 1 .. m : tracked'[x].pod = tracked'[y].pod => x = y
    BY <1>3 DEF TableInv
  <2> QED BY <1>2, <1>3, <2>1, <2>2, <2>3 DEF TableInv
<1> QED BY <1>4, <1>5

\* A step that leaves the tables alone, starts no VM and keeps ctl in its type.
LEMMA TablesUnchanged ==
    ASSUME IInv, UNCHANGED <<tracked, vms, spawned>>, procs' \subseteq procs,
           ctl' \in [pc : {"fetch", "track", "sync", "patching"}, list : SUBSET UnikernelPods,
                     i : Nat \ {0}]
    PROVE  IInv'
BY DEF IInv, CtlInv, TableInv

\* The answer to a request sends the controller back to its loop.
LEMMA AnsweredKeepsCtl ==
    ASSUME IInv, NEW r, NEW code, Answered(r, code)
    PROVE  ctl' \in [pc : {"fetch", "track", "sync", "patching"}, list : SUBSET UnikernelPods,
                     i : Nat \ {0}]
BY SMTT(40) DEF IInv, CtlInv, Answered

\* Handling a request leaves the controller's tables alone.
LEMMA HandleKeeps ==
    ASSUME IInv, NEW r \in reqs, Handle(r) \/ GiveUp(r)
    PROVE  IInv'
<1>1. CASE GiveUp(r)
  BY <1>1, AnsweredKeepsCtl, TablesUnchanged DEF GiveUp
<1>2. ASSUME NEW code, Finish(r, code)
      PROVE  IInv'
  BY <1>2, AnsweredKeepsCtl, TablesUnchanged DEF Finish
<1>3. ASSUME NEW next, Proceed(r, next)
      PROVE  IInv'
  BY <1>3, TablesUnchanged DEF Proceed, ctlVars, IInv, CtlInv
<1>4. CASE Handle(r)
  BY <1>2, <1>3, <1>4 DEF Handle, BindCheck, PatchRead, PatchCas
<1> QED BY <1>1, <1>4

\* IInv is inductive.
LEMMA IInvInit == Init => IInv
BY PipelineAssumption DEF Init, IInv, CtlInv, TableInv, Entries

LEMMA IInvNext == IInv /\ [Next]_vars => IInv'
<1> SUFFICES ASSUME IInv, [Next]_vars
             PROVE  IInv'
  OBVIOUS
<1>0. ctl \in [pc : {"fetch", "track", "sync", "patching"}, list : SUBSET UnikernelPods, i : Nat \ {0}]
  BY DEF IInv, CtlInv
<1>1. ASSUME NEW p \in Pods, CreatePod(p) \/ DeletePod(p)
      PROVE  IInv'
  BY <1>0, <1>1, TablesUnchanged DEF CreatePod, DeletePod, ctlVars
<1>2. ASSUME NEW s \in Schedulers, scheduler_run_cycle(s) \/ scheduler_bind_pod_to_node(s)
      PROVE  IInv'
  BY <1>0, <1>2, TablesUnchanged, SMTT(40) DEF scheduler_run_cycle, scheduler_bind_pod_to_node, ctlVars
<1>3. CASE FetchPods
  BY <1>3, TablesUnchanged DEF FetchPods, Pending
<1>4. CASE FetchFails
  BY <1>4, TablesUnchanged DEF FetchFails
<1>5. CASE SyncEntry
  <2>1. ~Stopped(tracked[ctl.i])
    <3>1. tracked[ctl.i] \in Entries
      BY <1>5 DEF SyncEntry, IInv, CtlInv
    <3> QED BY <3>1 DEF Stopped, Entries, Statuses
  <2> QED BY <1>0, <1>5, <2>1, TablesUnchanged DEF SyncEntry
<1>6. CASE SyncDone
  BY <1>6, TablesUnchanged DEF SyncDone
<1>7. ASSUME NEW pid \in procs, VmExits(pid)
      PROVE  IInv'
  BY <1>0, <1>7, TablesUnchanged DEF VmExits
<1>8. CASE UNCHANGED vars
  BY <1>0, <1>8, TablesUnchanged DEF vars
<1> QED BY <1>1, <1>2, <1>3, <1>4, <1>5, <1>6, <1>7, <1>8, HandleKeeps, TrackKeeps, SpawnKeeps,
           SpawnFailsKeeps, SMTT(40) DEF Next, pod_controller_sync_states

---------------------------------------------------------------------------
(* Binds that are counted.                                                 *)

\* A request that goes on keeps its sender and its operation.
LEMMA ProceedKeepsReq ==
    ASSUME ReqInv, NEW r \in reqs, NEW next, DOMAIN next = Fields,
           next.by = r.by \/ next.by = "nobody", next.op = r.op,
           reqs' = (reqs \ {r}) \cup {next}, UNCHANGED scheduled, UNCHANGED bound
    PROVE  ReqInv'
BY DEF ReqInv

LEMMA ReqInvNext == IInv /\ ReqInv /\ [Next]_vars => ReqInv'
<1> SUFFICES ASSUME IInv, ReqInv, [Next]_vars
             PROVE  ReqInv'
  OBVIOUS
<1>1. ASSUME NEW r \in reqs, NEW code, Answered(r, code), code # 200, UNCHANGED bound
      PROVE  scheduled' \subseteq bound'
  BY <1>1 DEF Answered, ReqInv
<1>2. ASSUME NEW r \in reqs, GiveUp(r)
      PROVE  ReqInv'
  <2> DEFINE q == [r EXCEPT !.by = "nobody", !.tag = timeouts']
  <2>1. DOMAIN q = Fields /\ q.by = "nobody" /\ q.op = r.op
    BY DEF ReqInv, Fields
  <2>2. reqs' = (reqs \ {r}) \cup {q} /\ scheduled' \subseteq bound'
    BY <1>1, <1>2 DEF GiveUp
  <2> QED BY <2>1, <2>2, Zenon DEF ReqInv
<1>3. ASSUME NEW r \in reqs, NEW code, Finish(r, code), code # 200, UNCHANGED bound
      PROVE  ReqInv'
  BY <1>1, <1>3 DEF Finish, ReqInv
<1>4. ASSUME NEW r \in reqs, BindCheck(r)
      PROVE  ReqInv'
  <2>1. CASE Finish(r, 404) /\ UNCHANGED bound
    BY <1>3, <2>1
  <2> DEFINE q == [r EXCEPT !.pc = "read"]
  <2>2. CASE Proceed(r, q) /\ UNCHANGED bound
    <3>1. DOMAIN q = Fields /\ q.by = r.by /\ q.op = r.op
      BY DEF ReqInv, Fields
    <3> QED BY <2>2, <3>1, ProceedKeepsReq, Zenon DEF Proceed, schedVars
  <2> QED BY <1>4, <2>1, <2>2 DEF BindCheck
<1>5. ASSUME NEW r \in reqs, PatchRead(r)
      PROVE  ReqInv'
  <2>1. CASE (Finish(r, 500) \/ Finish(r, 404)) /\ UNCHANGED bound
    BY <1>3, <2>1
  <2> DEFINE q == [r EXCEPT !.pc = "cas", !.read = Merge(r, pods[r.pod])]
  <2>2. CASE Proceed(r, q) /\ UNCHANGED bound
    <3>1. DOMAIN q = Fields /\ q.by = r.by /\ q.op = r.op
      BY DEF ReqInv, Fields
    <3> QED BY <2>2, <3>1, ProceedKeepsReq, Zenon DEF Proceed, schedVars
  <2> QED BY <1>5, <2>1, <2>2 DEF PatchRead
<1>6. ASSUME NEW r \in reqs, PatchCas(r)
      PROVE  ReqInv'
  <2>1. CASE (Finish(r, 409) \/ Finish(r, 503)) /\ UNCHANGED bound
    BY <1>3, <2>1
  <2>2. ASSUME NEW code, Finish(r, code), bound' = IF r.op = "bind" THEN bound \cup {r.pod} ELSE bound
        PROVE  ReqInv'
    BY <2>2 DEF Finish, Answered, ReqInv
  <2> QED BY <1>6, <2>1, <2>2 DEF PatchCas
<1>7. ASSUME NEW s \in Schedulers, scheduler_run_cycle(s)
      PROVE  ReqInv'
  BY <1>7 DEF scheduler_run_cycle, apiVars, ReqInv
<1>8. ASSUME NEW s \in Schedulers, scheduler_bind_pod_to_node(s)
      PROVE  ReqInv'
  BY <1>8 DEF scheduler_bind_pod_to_node, Request, ReqInv, Fields
<1>9. ASSUME NEW p, NEW phase, UpdateStatus(p, phase), UNCHANGED schedVars
      PROVE  ReqInv'
  BY <1>9 DEF UpdateStatus, Request, schedVars, ReqInv, Fields
<1>10. CASE pod_controller_sync_states
  <2>1. CASE SpawnOk
    BY <1>9, <2>1 DEF SpawnOk
  <2>2. CASE SpawnFails
    BY <1>9, <2>2 DEF SpawnFails
  <2>3. CASE SyncEntry
    BY <1>9, <2>3 DEF SyncEntry, apiVars, schedVars, ReqInv
  <2>4. CASE SyncDone
    BY <2>4 DEF SyncDone, apiVars, schedVars, ReqInv
  <2> QED BY <1>10, <2>1, <2>2, <2>3, <2>4 DEF pod_controller_sync_states
<1>11. CASE FetchPods \/ FetchFails \/ pod_controller_fetch_pods
  BY <1>11 DEF FetchPods, FetchFails, pod_controller_fetch_pods, apiVars, schedVars, ReqInv
<1>12. ASSUME NEW p \in Pods, CreatePod(p) \/ DeletePod(p)
       PROVE  ReqInv'
  BY <1>12 DEF CreatePod, DeletePod, schedVars, ReqInv
<1>13. ASSUME NEW pid \in procs, VmExits(pid)
       PROVE  ReqInv'
  BY <1>13 DEF VmExits, apiVars, schedVars, ReqInv
<1>14. CASE UNCHANGED vars
  BY <1>14 DEF vars, ReqInv
<1> QED BY <1>2, <1>4, <1>5, <1>6, <1>7, <1>8, <1>10, <1>11, <1>12, <1>13, <1>14, SMTT(40) DEF Next, Handle

---------------------------------------------------------------------------
(* The theorems.                                                           *)

LEMMA Invariance == Spec => [](IInv /\ ReqInv)
<1>1. Init => IInv /\ ReqInv
  BY IInvInit DEF Init, ReqInv
<1>2. IInv /\ ReqInv /\ [Next]_vars => IInv' /\ ReqInv'
  BY IInvNext, ReqInvNext
<1> QED BY <1>1, <1>2, PTL DEF Spec

\* Every QEMU process alive is in vms[] with its pid, although qemu_spawn
\* ignores a full table, for any number of pods and any sizes of the tables
\* with MAX_TRACKED_PODS <= MAX_VMS.
THEOREM NoVmIsLost == Spec => []EveryVmIsKnown
<1>1. IInv => EveryVmIsKnown
  BY DEF IInv, CtlInv, EveryVmIsKnown
<1> QED BY <1>1, Invariance, PTL

\* pod_controller_fetch_pods makes one entry per pod and qemu_spawn starts one
\* VM per pod; the entries marked Running are exactly those with a VM.
THEOREM VmsAreUnique == Spec => []OneVmPerPod
<1>1. IInv => OneVmPerPod
  <2> SUFFICES ASSUME IInv
               PROVE  OneVmPerPod
    OBVIOUS
  <2>1. DOMAIN tracked = 1 .. Len(tracked) /\ DOMAIN spawned = 1 .. Len(spawned)
    BY DEF IInv, CtlInv
  <2>2. IsInjective(spawned)
    BY <2>1 DEF IInv, TableInv, IsInjective
  <2>3. \A i \in DOMAIN tracked :
           (tracked[i].status = "Running") = (tracked[i].pod \in Range(spawned))
    <3> SUFFICES ASSUME NEW i \in DOMAIN tracked
                 PROVE  (tracked[i].status = "Running") <=> (tracked[i].pod \in Range(spawned))
      OBVIOUS
    <3> QED BY <2>1 DEF IInv, TableInv, Range
  <2> QED BY <2>1, <2>2, <2>3, Zenon DEF OneVmPerPod, IInv, TableInv
<1> QED BY <1>1, Invariance, PTL

\* Every bind counted by scheduler_bind_pod_to_node was stored, although its
\* request may time out, or fail after taking effect.
THEOREM CountedBindsWereStored == Spec => []ScheduledWasBound
<1>1. ReqInv => ScheduledWasBound
  BY DEF ReqInv, ScheduledWasBound
<1> QED BY <1>1, Invariance, PTL

\* The VMs of a node are accounted for, for any number of pods and any table sizes: each is
\* known to the pod controller, no pod has two, and a counted bind was stored.
THEOREM EveryVmAccounted == Spec => []VmsAreAccounted
BY NoVmIsLost, VmsAreUnique, CountedBindsWereStored, PTL DEF VmsAreAccounted

=============================================================================
