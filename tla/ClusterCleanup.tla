-------------------------- MODULE ClusterCleanup --------------------------
(***************************************************************************)
(* Three controllers of sirah/internal/controller whose threads tidy up:   *)
(* namespace_controller.c (termination and removal of namespaces),         *)
(* gc_controller.c (owner references, finalizers and the collection of     *)
(* orphans) and config_propagation_controller.c (rules, their targets and  *)
(* the propagation events).  left is the rest of a grace period; it stops  *)
(* at zero.                                                                *)
(***************************************************************************)
EXTENDS Integers, FiniteSets, SequencesExt

CONSTANTS
    NsNames,        \* valid namespace names; "default" is protected
    NsMax,          \* NAMESPACE_MAX_NAMESPACES
    ClGrace,        \* seconds of grace
    GcKeys,         \* objects: kind, namespace and name
    GcMax,          \* GC_MAX_OBJECTS
    GcOwners,       \* owner kinds and names
    GcMaxOwners,    \* GC_MAX_OWNERSHIP_REFS
    GcMaxFinalizers,\* finalizers of an object (10)
    CpSources,      \* sources: namespace, name and kind
    CpTargets,      \* targets: namespace and name
    CpMaxRules,     \* CONFIG_MAX_PROPAGATIONS
    CpMaxTargets,   \* CONFIG_MAX_TARGETS
    CpSyncBound     \* bound: syncs counted of a target

VARIABLES nsRows, gcRows, cpRules, cpEvents

clVars == <<nsRows, gcRows, cpRules, cpEvents>>

Aged(rows) == [i \in DOMAIN rows |-> [rows[i] EXCEPT !.left = IF @ > 0 THEN @ - 1 ELSE 0]]

---------------------------------------------------------------------------
(* namespace_controller.c                                                  *)

NewNamespace(n) == [name |-> n, phase |-> "ACTIVE", left |-> 0, isolation |-> "NONE"]

namespace_controller_init == nsRows = <<NewNamespace("default")>>

namespace_controller_get(n) == SelectInSeq(nsRows, LAMBDA r : r.name = n)

namespace_controller_is_protected(n) ==
    n \in {"default", "kube-system", "kube-public", "kube-node-lease"}

\* Also refused while the name is terminating.
namespace_controller_create(n) ==
    /\ namespace_controller_get(n) = 0 /\ Len(nsRows) < NsMax
    /\ nsRows' = Append(nsRows, NewNamespace(n))

\* The grace period is 30 s in namespace_controller_delete, the caller's here; each call
\* starts it again.  There is no look at namespace_controller_is_protected.
namespace_controller_start_termination(n) ==
    LET i == namespace_controller_get(n)
    IN  /\ i > 0
        /\ nsRows' = [nsRows EXCEPT ![i].phase = "TERMINATING", ![i].left = ClGrace]

namespace_controller_delete(n) ==
    ~namespace_controller_is_protected(n) /\ namespace_controller_start_termination(n)

\* Of any namespace, terminating or not.
namespace_controller_finalize_deletion(n) ==
    /\ namespace_controller_get(n) > 0
    /\ nsRows' = RemoveAt(nsRows, namespace_controller_get(n))

namespace_controller_set_isolation(n, level) ==
    LET i == namespace_controller_get(n)
    IN  i > 0 /\ nsRows' = [nsRows EXCEPT ![i].isolation = level]

namespace_controller_get_phase(n) == nsRows[namespace_controller_get(n)].phase

Overdue(r) == r.phase = "TERMINATING" /\ r.left = 0 /\ ~namespace_controller_is_protected(r.name)

\* Mutation: the loop ends before the first row.
cleanup_all_but_first ==
    /\ \E i \in DOMAIN nsRows : i > 1 /\ Overdue(nsRows[i])
    /\ nsRows' = <<nsRows[1]>> \o SelectSeq(Tail(nsRows), LAMBDA r : ~Overdue(r))

namespace_controller_cleanup_orphaned_namespaces ==
    /\ \E i \in DOMAIN nsRows : Overdue(nsRows[i])
    /\ nsRows' = SelectSeq(nsRows, LAMBDA r : ~Overdue(r))

NsTime == (\E i \in DOMAIN nsRows : nsRows[i].left > 0) /\ nsRows' = Aged(nsRows)

NsTableNext ==
    \/ \E n \in NsNames :
          \/ namespace_controller_create(n) \/ namespace_controller_delete(n)
          \/ namespace_controller_start_termination(n)
          \/ namespace_controller_finalize_deletion(n)
          \/ \E level \in {"NONE", "FULL"} : namespace_controller_set_isolation(n, level)
    \/ namespace_controller_cleanup_orphaned_namespaces
    \/ NsTime

\* A namespace that is not protected stays terminating for ever only when its termination
\* is started again and again: its grace period runs out and the cleanup thread removes it.
NamespaceGoes ==
    \A n \in {m \in NsNames : ~namespace_controller_is_protected(m)} :
       <>[](namespace_controller_get(n) > 0 /\ namespace_controller_get_phase(n) = "TERMINATING")
          => []<><<namespace_controller_start_termination(n)>>_nsRows

---------------------------------------------------------------------------
(* gc_controller.c.  An object may be registered twice; most operations    *)
(* then see the first row.                                                 *)

gc_controller_init == gcRows = <<>>

gc_register_object(k) ==
    /\ Len(gcRows) < GcMax
    /\ gcRows' = Append(gcRows, [key |-> k, owners |-> <<>>, finalizers |-> 0, orphaned |-> FALSE,
                                 pending |-> FALSE, left |-> 0, policy |-> "BACKGROUND"])

gc_get_object_record(k) == SelectInSeq(gcRows, LAMBDA r : r.key = k)

gc_unregister_object(k) ==
    gc_get_object_record(k) > 0 /\ gcRows' = RemoveAt(gcRows, gc_get_object_record(k))

gc_add_owner_reference(k, o) ==
    LET i == gc_get_object_record(k)
    IN  /\ i > 0 /\ Len(gcRows[i].owners) < GcMaxOwners
        /\ gcRows' = [gcRows EXCEPT ![i].owners = Append(@, o), ![i].orphaned = FALSE]

gc_get_object_owners(k) == gcRows[gc_get_object_record(k)].owners

\* Mutation: the last check of owner_count is left out.
gc_remove_owner_reference_orphans(k, o) ==
    LET i == SelectInSeq(gcRows, LAMBDA r : r.key = k /\ o \in Range(r.owners))
    IN  /\ i > 0
        /\ gcRows' = [gcRows EXCEPT ![i].owners = RemoveFirst(@, o), ![i].orphaned = TRUE]

\* The first row of the object that has the reference.
gc_remove_owner_reference(k, o) ==
    LET i == SelectInSeq(gcRows, LAMBDA r : r.key = k /\ o \in Range(r.owners))
        rest == RemoveFirst(gcRows[i].owners, o)
    IN  /\ i > 0
        /\ gcRows' = [gcRows EXCEPT ![i].owners = rest, ![i].orphaned = @ \/ rest = <<>>]

gc_add_finalizer(k) ==
    LET i == gc_get_object_record(k)
    IN  /\ i > 0 /\ gcRows[i].finalizers < GcMaxFinalizers
        /\ gcRows' = [gcRows EXCEPT ![i].finalizers = @ + 1]

gc_remove_finalizer(k) ==
    LET i == SelectInSeq(gcRows, LAMBDA r : r.key = k /\ r.finalizers > 0)
    IN  i > 0 /\ gcRows' = [gcRows EXCEPT ![i].finalizers = @ - 1]

gc_has_finalizers(k) ==
    gc_get_object_record(k) > 0 /\ gcRows[gc_get_object_record(k)].finalizers > 0

\* Foreground and background deletion differ in a field that nothing reads.
gc_mark_for_deletion(k, policy) ==
    LET i == gc_get_object_record(k)
    IN  /\ i > 0
        /\ gcRows' = [gcRows EXCEPT ![i].pending = TRUE, ![i].left = ClGrace, ![i].policy = policy]

gc_set_propagation_policy(k, policy) ==
    LET i == gc_get_object_record(k)
    IN  i > 0 /\ gcRows' = [gcRows EXCEPT ![i].policy = policy]

gc_get_propagation_policy(k) == gcRows[gc_get_object_record(k)].policy

\* The rows that name the object as an owner, without a step to theirs.
gc_start_deletion_cascade(o) == SelectSeq(gcRows, LAMBDA r : o \in Range(r.owners))

gc_get_dependent_objects(o) == {gcRows[i].key : i \in {j \in DOMAIN gcRows : o \in Range(gcRows[j].owners)}}

gc_get_orphaned_objects == SelectSeq(gcRows, LAMBDA r : r.orphaned)

gc_get_statistics == [total |-> Len(gcRows), orphaned |-> Len(gc_get_orphaned_objects),
                      pending |-> Len(SelectSeq(gcRows, LAMBDA r : r.pending))]

\* Finalizers are not looked at.
Collectable(r) == r.pending /\ r.orphaned /\ r.left = 0

gc_controller_thread ==
    /\ \E i \in DOMAIN gcRows : Collectable(gcRows[i])
    /\ gcRows' = SelectSeq(gcRows, LAMBDA r : ~Collectable(r))

\* The same for the objects of one kind, or for all of them.
gc_cleanup_orphaned_objects(kinds) ==
    /\ \E i \in DOMAIN gcRows : Collectable(gcRows[i]) /\ gcRows[i].key \in kinds
    /\ gcRows' = SelectSeq(gcRows, LAMBDA r : ~(Collectable(r) /\ r.key \in kinds))

GcTime == (\E i \in DOMAIN gcRows : gcRows[i].left > 0) /\ gcRows' = Aged(gcRows)

GcNext ==
    \/ \E k \in GcKeys :
          \/ gc_register_object(k) \/ gc_unregister_object(k)
          \/ \E o \in GcOwners : gc_add_owner_reference(k, o) \/ gc_remove_owner_reference(k, o)
          \/ gc_add_finalizer(k) \/ gc_remove_finalizer(k)
          \/ \E p \in {"BACKGROUND", "FOREGROUND"} :
                gc_mark_for_deletion(k, p) \/ gc_set_propagation_policy(k, p)
          \/ gc_cleanup_orphaned_objects({k})
    \/ gc_controller_thread
    \/ GcTime

\* No scan collects an object that something owns, whatever references were added, dropped
\* and added again before: what is marked as orphaned has no owner left, and an owner finds
\* each object it owns among its dependents.
OrphansAreUnowned ==
    /\ \A i \in DOMAIN gcRows : gcRows[i].orphaned => gcRows[i].owners = <<>>
    /\ \A o \in GcOwners : \A k \in gc_get_dependent_objects(o) :
          \E i \in DOMAIN gcRows : gcRows[i].key = k /\ ~Collectable(gcRows[i])

---------------------------------------------------------------------------
(* config_propagation_controller.c.  The thread of the controller only      *)
(* notes the time of its rounds: config_propagation_sync_target is empty.  *)

config_propagation_controller_init == cpRules = <<>> /\ cpEvents = 0

\* A source may have several rules.
config_propagation_create_rule(s) ==
    /\ Len(cpRules) < CpMaxRules
    /\ cpRules' = Append(cpRules, [source |-> s, targets |-> <<>>])
    /\ UNCHANGED cpEvents

config_propagation_get_rule(s) == SelectInSeq(cpRules, LAMBDA r : r.source = s)

config_propagation_delete_rule(s) ==
    /\ config_propagation_get_rule(s) > 0
    /\ cpRules' = RemoveAt(cpRules, config_propagation_get_rule(s))
    /\ UNCHANGED cpEvents

\* Mutation: the new target goes to the last rule of the source.
config_propagation_add_target_last(s, t) ==
    LET i == SelectLastInSeq(cpRules, LAMBDA r : r.source = s)
    IN  /\ i > 0 /\ Len(cpRules[i].targets) < CpMaxTargets
        /\ cpRules' = [cpRules EXCEPT ![i].targets = Append(@, [target |-> t, syncs |-> 0])]
        /\ UNCHANGED cpEvents

config_propagation_add_target(s, t) ==
    LET i == config_propagation_get_rule(s)
    IN  /\ i > 0 /\ Len(cpRules[i].targets) < CpMaxTargets
        /\ cpRules' = [cpRules EXCEPT ![i].targets = Append(@, [target |-> t, syncs |-> 0])]
        /\ UNCHANGED cpEvents

TargetAt(r, t) == SelectInSeq(r.targets, LAMBDA x : x.target = t)

\* Unlike the others it goes on to the next rule of the source.
config_propagation_remove_target(s, t) ==
    LET i == SelectInSeq(cpRules, LAMBDA r : r.source = s /\ TargetAt(r, t) > 0)
    IN  /\ i > 0
        /\ cpRules' = [cpRules EXCEPT ![i].targets = RemoveAt(@, TargetAt(cpRules[i], t))]
        /\ UNCHANGED cpEvents

config_propagation_list_targets(s) == cpRules[config_propagation_get_rule(s)].targets

\* The targets are counted as synced also when the event table is full.
config_propagation_propagate_to_targets(s) ==
    LET i == config_propagation_get_rule(s)
    IN  /\ i > 0 /\ cpRules[i].targets # <<>>
        /\ \A x \in Range(cpRules[i].targets) : x.syncs < CpSyncBound
        /\ cpRules' = [cpRules EXCEPT ![i].targets =
                          [j \in DOMAIN @ |-> [@[j] EXCEPT !.syncs = @ + 1]]]
        /\ cpEvents' = LET n == cpEvents + Len(cpRules[i].targets)
                       IN  IF n < 2 * CpMaxRules THEN n ELSE 2 * CpMaxRules

CpNext ==
    \E s \in CpSources :
       \/ config_propagation_create_rule(s) \/ config_propagation_delete_rule(s)
       \/ config_propagation_propagate_to_targets(s)
       \/ \E t \in CpTargets : config_propagation_add_target(s, t) \/ config_propagation_remove_target(s, t)

\* Of the rules of one source only the oldest ever has targets, though rules are deleted
\* and created in any order: every target that was added is one that
\* config_propagation_propagate_to_targets reaches and
\* config_propagation_list_targets lists.
LaterRulesAreEmpty ==
    \A i, j \in DOMAIN cpRules :
       i < j /\ cpRules[i].source = cpRules[j].source => cpRules[j].targets = <<>>

---------------------------------------------------------------------------
ClInit == namespace_controller_init /\ gc_controller_init /\ config_propagation_controller_init

=============================================================================
