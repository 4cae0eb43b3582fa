------------------------- MODULE StatefulSetManager -------------------------
(***************************************************************************)
(* The in-memory StatefulSet manager, sirah/internal/statefulset:           *)
(* for every set the state of its ordinals, and the functions that say      *)
(* which ordinal is made or removed next.  Each function runs under the     *)
(* manager's mutex and is one action; statefulset_create compares the       *)
(* count with the table's size before it takes the mutex.                   *)
(***************************************************************************)
EXTENDS Integers, FiniteSets, FiniteSetsExt

CONSTANTS
    SsCallers,   \* threads that call the manager
    SsNames,     \* (namespace, name) pairs
    SsSpecs,     \* statefulset_spec_t values a caller passes
    SsLimit,     \* 500 in the code: size of the table
    MaxOrdinals, \* 1000 in the code: size of pod_ordinals
    SsBound      \* bound on generations and revisions

VARIABLES
    sets,     \* ss_manager.statefulsets: the set of a name, or NoSet
    ssPc,     \* a caller between two calls, or inside statefulset_create
    ssBroken, \* a set was written past the end of the table
    ssReady   \* for the properties: the ordinals reported ready since the set
              \* was created

ssVars == <<sets, ssPc, ssBroken, ssReady>>

Ordinals == 0 .. MaxOrdinals - 1
OrdinalStates == {"PENDING", "CREATING", "RUNNING", "READY",
                  "TERMINATING", "TERMINATED", "FAILED"}
pod_ordinal_t == [state : OrdinalStates, ready : BOOLEAN, pvcs : Nat]

NoSet == [none |-> TRUE]
SsIdle == <<"idle">>

find_statefulset_index(n) == sets[n] # NoSet

SsCount == Cardinality({n \in SsNames : find_statefulset_index(n)})

statefulset_validate_spec(s) ==
    s.replicas >= 0 /\ s.replicas <= MaxOrdinals /\ s.service_name

\* A slot of the table is zero before it is used: statefulset_delete clears
\* the one it frees.
Zeroed == [state |-> "PENDING", ready |-> FALSE, pvcs |-> 0]

NewSet(s) ==
    [spec |-> s, generation |-> 1, replicas |-> 0, ready_replicas |-> 0,
     updated_replicas |-> 0, current_revision |-> 1, update_revision |-> 1,
     update_in_progress |-> FALSE, max_ordinal |-> -1, ready_ordinal |-> -1,
     pod_ordinals |-> [i \in Ordinals |-> Zeroed]]

statefulset_manager_init ==
    /\ sets = [n \in SsNames |-> NoSet]
    /\ ssPc = [t \in SsCallers |-> SsIdle]
    /\ ssBroken = FALSE
    /\ ssReady = [n \in SsNames |-> {}]

-----------------------------------------------------------------------------
statefulset_create_check(t, n, s) ==
    /\ ssPc[t] = SsIdle
    /\ SsCount < SsLimit
    /\ ssPc' = [ssPc EXCEPT ![t] = <<"create", n, s>>]
    /\ UNCHANGED <<sets, ssBroken, ssReady>>

statefulset_create(t) ==
    /\ ssPc[t][1] = "create"
    /\ ssPc' = [ssPc EXCEPT ![t] = SsIdle]
    /\ LET n == ssPc[t][2]  s == ssPc[t][3] IN
       IF find_statefulset_index(n) \/ ~statefulset_validate_spec(s)
       THEN UNCHANGED <<sets, ssBroken, ssReady>>
       ELSE /\ ssBroken' = (SsCount >= SsLimit)
            /\ sets' = [sets EXCEPT ![n] = NewSet(s)]
            /\ ssReady' = [ssReady EXCEPT ![n] = {}]

statefulset_update(n, s) ==
    /\ find_statefulset_index(n) /\ statefulset_validate_spec(s)
    /\ sets[n].generation <= SsBound
    /\ sets' = [sets EXCEPT ![n].spec = s, ![n].generation = @ + 1]
    /\ UNCHANGED <<ssPc, ssBroken, ssReady>>

statefulset_delete(n) ==
    /\ find_statefulset_index(n)
    /\ sets' = [sets EXCEPT ![n] = NoSet]
    /\ UNCHANGED <<ssPc, ssBroken, ssReady>>

statefulset_list == {n \in SsNames : find_statefulset_index(n)}

statefulset_manager_shutdown ==
    /\ sets' = [n \in SsNames |-> NoSet]
    /\ UNCHANGED <<ssPc, ssBroken, ssReady>>

-----------------------------------------------------------------------------
\* An ordinal above max_ordinal is entered together with all those below it.
WithState(ss, o, state) ==
    [ss EXCEPT
       !.max_ordinal = IF o > @ THEN o ELSE @,
       !.pod_ordinals = [i \in Ordinals |->
          LET entry == IF i > ss.max_ordinal /\ i <= o THEN Zeroed ELSE @[i]
          IN  IF i = o THEN [entry EXCEPT !.state = state] ELSE entry]]

statefulset_set_ordinal_state(n, o, state) ==
    /\ find_statefulset_index(n)
    /\ sets' = [sets EXCEPT ![n] = WithState(@, o, state)]
    /\ UNCHANGED <<ssPc, ssBroken, ssReady>>

\* Mutation: the ready ordinal moves to whichever pod reports.
statefulset_set_ordinal_ready_skips(n, o, ready) ==
    /\ find_statefulset_index(n) /\ o <= sets[n].max_ordinal
    /\ sets' = [sets EXCEPT
         ![n].pod_ordinals[o].ready = ready,
         ![n].ready_ordinal = IF ready /\ o > @ THEN o ELSE @]
    /\ ssReady' = [ssReady EXCEPT ![n] = IF ready THEN @ \cup {o} ELSE @]
    /\ UNCHANGED <<ssPc, ssBroken>>

statefulset_set_ordinal_ready(n, o, ready) ==
    /\ find_statefulset_index(n) /\ o <= sets[n].max_ordinal
    /\ sets' = [sets EXCEPT
         ![n].pod_ordinals[o].ready = ready,
         ![n].ready_ordinal = IF ready /\ o = @ + 1 THEN o ELSE @]
    /\ ssReady' = [ssReady EXCEPT ![n] = IF ready THEN @ \cup {o} ELSE @]
    /\ UNCHANGED <<ssPc, ssBroken>>

\* Not compared with max_ordinal: the claims of an ordinal not yet entered are
\* cleared again when it is.
statefulset_create_pvcs_for_ordinal(n, o) ==
    /\ find_statefulset_index(n)
    /\ sets' = [sets EXCEPT ![n].pod_ordinals[o].pvcs = sets[n].spec.volume_template_count]
    /\ UNCHANGED <<ssPc, ssBroken, ssReady>>

statefulset_delete_pvcs_for_ordinal(n, o) ==
    /\ find_statefulset_index(n)
    /\ sets' = [sets EXCEPT ![n].pod_ordinals[o].pvcs = 0]
    /\ UNCHANGED <<ssPc, ssBroken, ssReady>>

-----------------------------------------------------------------------------
\* The lowest ordinal below replicas that is missing, pending or failed; in
\* ORDERED_READY, among those whose predecessor is marked ready.  -1: none.
statefulset_get_next_ordinal_to_create(ss) ==
    LET missing(i) == i > ss.max_ordinal
                      \/ ss.pod_ordinals[i].state \in {"PENDING", "FAILED"}
        turn(i) == \/ ~ss.spec.ordered
                   \/ i = 0
                   \/ ss.pod_ordinals[i - 1].ready
        wanted == {i \in 0 .. ss.spec.replicas - 1 : missing(i) /\ turn(i)}
    IN  IF wanted = {} THEN -1 ELSE Min(wanted)

statefulset_get_next_ordinal_to_delete(ss) ==
    LET extra == {i \in ss.spec.replicas .. ss.max_ordinal :
                     ss.pod_ordinals[i].state # "TERMINATED"}
    IN  IF extra = {} THEN -1 ELSE Max(extra)

\* A caller asks which ordinal is next in one call and starts or stops it with
\* statefulset_set_ordinal_state in another.
AskNext(t, n) ==
    /\ ssPc[t] = SsIdle /\ find_statefulset_index(n)
    /\ LET up == statefulset_get_next_ordinal_to_create(sets[n])
           down == statefulset_get_next_ordinal_to_delete(sets[n])
       IN  \/ /\ up >= 0
              /\ ssPc' = [ssPc EXCEPT ![t] = <<"start", n, up>>]
           \/ /\ up < 0 /\ down >= 0
              /\ ssPc' = [ssPc EXCEPT ![t] = <<"stop", n, down>>]
    /\ UNCHANGED <<sets, ssBroken, ssReady>>

ActOnNext(t) ==
    /\ ssPc[t][1] \in {"start", "stop"}
    /\ ssPc' = [ssPc EXCEPT ![t] = SsIdle]
    /\ LET n == ssPc[t][2]  o == ssPc[t][3] IN
       IF ~find_statefulset_index(n) THEN UNCHANGED sets
       ELSE sets' = [sets EXCEPT ![n] = WithState(@, o,
                       IF ssPc[t][1] = "start" THEN "CREATING" ELSE "TERMINATED")]
    /\ UNCHANGED <<ssBroken, ssReady>>

-----------------------------------------------------------------------------
statefulset_update_status(n, replicas, ready, updated) ==
    /\ find_statefulset_index(n)
    /\ sets' = [sets EXCEPT ![n] =
         [@ EXCEPT !.replicas = replicas, !.ready_replicas = ready,
                   !.updated_replicas = updated]]
    /\ UNCHANGED <<ssPc, ssBroken, ssReady>>

statefulset_is_rolled_out(ss) ==
    /\ ss.replicas = ss.spec.replicas
    /\ ss.ready_replicas = ss.spec.replicas
    /\ ss.updated_replicas = ss.spec.replicas

\* No function clears update_in_progress or raises current_revision.
statefulset_start_rolling_update(n) ==
    /\ find_statefulset_index(n)
    /\ sets[n].update_revision <= SsBound /\ sets[n].generation <= SsBound
    /\ sets' = [sets EXCEPT ![n] =
         [@ EXCEPT !.update_revision = @ + 1, !.update_in_progress = TRUE,
                   !.generation = @ + 1]]
    /\ UNCHANGED <<ssPc, ssBroken, ssReady>>

statefulset_set_update_partition(n, partition) ==
    /\ find_statefulset_index(n)
    /\ sets' = [sets EXCEPT ![n].spec.partition = partition]
    /\ UNCHANGED <<ssPc, ssBroken, ssReady>>

statefulset_ordinal_needs_update(ss, o) ==
    o >= ss.spec.partition /\ ss.pod_ordinals[o].state = "RUNNING"

\* A write past the table ends the model, as in JobManager.
SsNext ==
    /\ ~ssBroken
    /\ \/ statefulset_manager_shutdown
       \/ \E t \in SsCallers :
             \/ \E n \in SsNames, s \in SsSpecs : statefulset_create_check(t, n, s)
             \/ statefulset_create(t)
             \/ \E n \in SsNames : AskNext(t, n)
             \/ ActOnNext(t)
       \/ \E n \in statefulset_list :
             \/ \E s \in SsSpecs : statefulset_update(n, s)
             \/ statefulset_delete(n)
             \/ \E o \in Ordinals :
                   \/ \E state \in {"RUNNING", "FAILED"} :
                        statefulset_set_ordinal_state(n, o, state)
                   \/ \E b \in BOOLEAN : statefulset_set_ordinal_ready(n, o, b)
                   \/ statefulset_create_pvcs_for_ordinal(n, o)
                   \/ statefulset_delete_pvcs_for_ordinal(n, o)
             \/ \E k \in 0 .. 1 : statefulset_update_status(n, k, k, k)
             \/ statefulset_start_rolling_update(n)
             \/ \E o \in 0 .. 1 : statefulset_set_update_partition(n, o)

SsSpec == statefulset_manager_init /\ [][SsNext]_ssVars

-----------------------------------------------------------------------------
\* The order of a set's pods, whatever is reported and in whichever order: the
\* ready ordinal is an ordinal that exists, and it and all below it have been
\* reported ready since the set was made; in ORDERED_READY the ordinal that is
\* made next comes right after one that has been reported ready; the ordinal
\* that is removed next is not wanted, and none above it is left.
SsOrdinalOrder ==
    \A n \in statefulset_list :
       LET ss == sets[n]
           up == statefulset_get_next_ordinal_to_create(ss)
           down == statefulset_get_next_ordinal_to_delete(ss)
       IN  /\ ss.ready_ordinal <= ss.max_ordinal
           /\ 0 .. ss.ready_ordinal \subseteq ssReady[n]
           /\ ss.spec.ordered /\ up > 0 => up - 1 \in ssReady[n]
           /\ down >= 0 =>
                 /\ down >= ss.spec.replicas
                 /\ \A i \in down + 1 .. ss.max_ordinal :
                       ss.pod_ordinals[i].state = "TERMINATED"

=============================================================================
