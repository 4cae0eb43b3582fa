--------------------------- MODULE NodeScheduler ---------------------------
(***************************************************************************)
(* The scheduler library of src/internal/scheduler: the table of nodes,    *)
(* the choice of a node (scheduler.c) and the scores it goes by            *)
(* (scoring.c), and the table of assignments.                              *)
(*                                                                         *)
(* scheduler_schedule_pod finds a node under the lock, lets it go, and     *)
(* binds under the lock again: two steps, between which other threads bind,*)
(* evict, taint and cordon.  Nothing adds to allocated_cpus and            *)
(* allocated_memory, so both stay 0 and are left out.  A score divides by  *)
(* weights_sum / 100 (scoring.c:169): weights that sum to less than a      *)
(* hundred, as those of scheduler_new do, end the process with skBroken.   *)
(* The owner may set the weights of the structure before it starts.        *)
(***************************************************************************)
EXTENDS Integers, Sequences, FiniteSets, FiniteSetsExt, SequencesExt

CONSTANTS
    SkNodes,        \* names of nodes
    SkSizes,        \* what a node offers: [cpus, memory]
    SkPods,         \* pod_spec_t: [name, cpu, memory, affinity, anti, required, preferred, tolerates]
    SkTaints,
    SkLabels,
    SkWeights,      \* [packing, spread, affinity]; scheduler_new gives 40, 30, 20
    SkCallers,      \* threads in scheduler_schedule_pod
    SkMaxPods,      \* max_pods
    SkAssignments,  \* assignment_capacity
    SkRows,         \* bound: nodes added
    SkTaintRows     \* bound: taints of a node

ASSUME SkAssumption ==
    /\ SkMaxPods \in Nat \ {0} /\ SkAssignments \in Nat /\ SkRows \in Nat
    /\ \A size \in SkSizes : size.cpus > 0 /\ size.memory > 0

VARIABLES
    skRows,     \* nodes: [name, status, size, pods, taints, labels]
    skBound,    \* assigned_pods and assigned_nodes: [pod, node]
    skWeights,
    skPc,       \* caller -> the pod and the node found for it
    skBroken

skVars == <<skRows, skBound, skWeights, skPc, skBroken>>

NotBinding == [pod |-> "", node |-> ""]
AtMost(limit, n) == IF n > limit THEN limit ELSE n

---------------------------------------------------------------------------
(* scoring.c.                                                              *)

scoring_bin_packing(node, pod) ==
    (AtMost(100, (pod.cpu * 100) \div node.size.cpus)
      + AtMost(100, (pod.memory * 100) \div node.size.memory)) \div 2

scoring_pod_spread(node) == Max({0, 100 - (node.pods * 100) \div SkMaxPods})

\* Every key of the pod counts as met by a node that has any pod.
scoring_pod_affinity(node, pod) ==
    IF pod.affinity = 0 THEN 50 ELSE IF node.pods > 0 THEN 100 ELSE 0

scoring_pod_anti_affinity(node, pod) ==
    IF pod.anti = 0 THEN 50 ELSE IF node.pods > 0 THEN 0 ELSE 100

scoring_node_affinity(node, pod) ==
    IF pod.preferred = {} THEN 50
    ELSE (Cardinality(pod.preferred \cap node.labels) * 100) \div Cardinality(pod.preferred)

scoring_topology_spread(node, pod) == Max({0, 100 - (node.pods * 100) \div SkMaxPods})

WeightsSum == skWeights.packing + skWeights.spread + skWeights.affinity

scoring_combined(node, pod) ==
    LET affinity == (scoring_node_affinity(node, pod) + scoring_pod_affinity(node, pod)
                      + scoring_pod_anti_affinity(node, pod)) \div 3
        topology == Max({0, 100 - WeightsSum})
        total == (scoring_bin_packing(node, pod) * skWeights.packing) \div 100
                   + (scoring_pod_spread(node) * skWeights.spread) \div 100
                   + (affinity * skWeights.affinity) \div 100
                   + (scoring_topology_spread(node, pod) * topology) \div 100
    IN  IF WeightsSum = 0 THEN 0 ELSE AtMost(100, total \div (WeightsSum \div 100))

DividesByZero == WeightsSum > 0 /\ WeightsSum < 100

---------------------------------------------------------------------------
(* scheduler.c: the nodes.                                                 *)

scheduler_new ==
    /\ skRows = <<>> /\ skBound = <<>>
    /\ skWeights \in SkWeights
    /\ skPc = [c \in SkCallers |-> NotBinding]
    /\ skBroken = FALSE

scheduler_get_node(name) ==
    LET at == {i \in DOMAIN skRows : skRows[i].name = name} IN IF at = {} THEN 0 ELSE Min(at)

SetRow(i, row) ==
    /\ i # 0
    /\ skRows' = [skRows EXCEPT ![i] = row]
    /\ UNCHANGED <<skBound, skWeights, skPc, skBroken>>

\* A name may be added twice; only its first row is ever found.
scheduler_add_node(name, size) ==
    /\ Len(skRows) < SkRows
    /\ skRows' = Append(skRows, [name |-> name, status |-> "Ready", size |-> size, pods |-> 0,
                                 taints |-> <<>>, labels |-> {}])
    /\ UNCHANGED <<skBound, skWeights, skPc, skBroken>>

scheduler_update_node_status(name, status) ==
    LET i == scheduler_get_node(name) IN i # 0 /\ SetRow(i, [skRows[i] EXCEPT !.status = status])

scheduler_cordon_node(name) == scheduler_update_node_status(name, "Cordoned")
scheduler_uncordon_node(name) == scheduler_update_node_status(name, "Ready")

\* The pods of a drained node stay assigned to it.
scheduler_drain_node(name) ==
    LET i == scheduler_get_node(name) IN i # 0 /\ SetRow(i, [skRows[i] EXCEPT !.status = "Draining"])

scheduler_add_node_label(name, key) ==
    LET i == scheduler_get_node(name) IN i # 0 /\ SetRow(i, [skRows[i] EXCEPT !.labels = @ \cup {key}])

\* A taint may be there twice.
scheduler_add_node_taint(name, taint) ==
    LET i == scheduler_get_node(name) IN
    i # 0 /\ Len(skRows[i].taints) < SkTaintRows /\ SetRow(i, [skRows[i] EXCEPT !.taints = Append(@, taint)])

\* Every row of the name is looked at, until one has the taint.
scheduler_remove_node_taint(name, taint) ==
    LET has == {i \in DOMAIN skRows : skRows[i].name = name /\ Contains(skRows[i].taints, taint)} IN
    /\ has # {}
    /\ SetRow(Min(has), [skRows[Min(has)] EXCEPT !.taints =
                            RemoveAt(@, Min({k \in DOMAIN @ : @[k] = taint}))])

---------------------------------------------------------------------------
(* scheduler.c: choosing a node.  The checks look the node up by its name. *)

scheduler_check_resource_fit_one_more(name, pod) ==
    LET node == skRows[scheduler_get_node(name)] IN
    pod.cpu <= node.size.cpus /\ pod.memory <= node.size.memory /\ node.pods <= SkMaxPods

scheduler_check_resource_fit(name, pod) ==
    LET node == skRows[scheduler_get_node(name)] IN
    pod.cpu <= node.size.cpus /\ pod.memory <= node.size.memory /\ node.pods < SkMaxPods

scheduler_check_toleration_match(name, pod) ==
    Range(skRows[scheduler_get_node(name)].taints) \subseteq pod.tolerates

\* Nothing asks for this one.
scheduler_check_affinity_match(name, pod) ==
    pod.required \subseteq skRows[scheduler_get_node(name)].labels

Feasible(i, pod) ==
    /\ skRows[i].status = "Ready"
    /\ scheduler_check_resource_fit(skRows[i].name, pod)
    /\ scheduler_check_toleration_match(skRows[i].name, pod)

\* The score of every node, 0 where the node will not do.
scheduler_score_nodes(pod) ==
    [i \in DOMAIN skRows |-> IF Feasible(i, pod) THEN scoring_combined(skRows[i], pod) ELSE 0]

\* The first of the best.
scheduler_find_best_node(pod) ==
    LET feasible == {i \in DOMAIN skRows : Feasible(i, pod)}
        score == scheduler_score_nodes(pod)
    IN  IF feasible = {} THEN "" ELSE
        skRows[Min({i \in feasible : \A j \in feasible : score[j] <= score[i]})].name

\* Finding a node; scoring the first feasible one may end the process.
scheduler_schedule_pod(c, pod) ==
    /\ skPc[c] = NotBinding
    /\ \E i \in DOMAIN skRows : Feasible(i, pod)
    /\ skBroken' = DividesByZero
    /\ skPc' = IF DividesByZero THEN skPc
               ELSE [skPc EXCEPT ![c] = [pod |-> pod.name, node |-> scheduler_find_best_node(pod)]]
    /\ UNCHANGED <<skRows, skBound, skWeights>>

\* Binding looks at nothing but the size of the table of assignments.
scheduler_bind_pod(c) ==
    LET i == scheduler_get_node(skPc[c].node) IN
    /\ skPc[c] # NotBinding
    /\ skPc' = [skPc EXCEPT ![c] = NotBinding]
    /\ IF Len(skBound) >= SkAssignments THEN UNCHANGED <<skRows, skBound>>
       ELSE /\ skBound' = Append(skBound, skPc[c])
            /\ skRows' = [skRows EXCEPT ![i].pods = @ + 1]
    /\ UNCHANGED <<skWeights, skBroken>>

\* The first assignment of the pod.
scheduler_evict_pod(pod) ==
    LET at == {k \in DOMAIN skBound : skBound[k].pod = pod} IN
    /\ at # {}
    /\ skRows' = [skRows EXCEPT ![scheduler_get_node(skBound[Min(at)].node)].pods = @ - 1]
    /\ skBound' = RemoveAt(skBound, Min(at))
    /\ UNCHANGED <<skWeights, skPc, skBroken>>

SkNext ==
    /\ ~skBroken
    /\ \/ \E name \in SkNodes :
             \/ \E size \in SkSizes : scheduler_add_node(name, size)
             \/ scheduler_cordon_node(name) \/ scheduler_uncordon_node(name)
             \/ scheduler_drain_node(name)
             \/ \E key \in SkLabels : scheduler_add_node_label(name, key)
             \/ \E taint \in SkTaints : scheduler_add_node_taint(name, taint)
                                        \/ scheduler_remove_node_taint(name, taint)
       \/ \E c \in SkCallers : \/ \E pod \in SkPods : scheduler_schedule_pod(c, pod)
                               \/ scheduler_bind_pod(c)
       \/ \E pod \in SkPods : scheduler_evict_pod(pod.name)

\* Whatever pods are found nodes for, bound and evicted at the same time, the
\* pod count of a node is the number of assignments that name it (of a name
\* added twice, the first row counts), and the threads between finding and
\* binding let it pass the limit by one less than there are of them at most.
BooksAgree ==
    \A i \in DOMAIN skRows :
       /\ skRows[i].pods = IF scheduler_get_node(skRows[i].name) # i THEN 0
                           ELSE Cardinality({k \in DOMAIN skBound : skBound[k].node = skRows[i].name})
       /\ skRows[i].pods < SkMaxPods + Cardinality(SkCallers)

=============================================================================
