----------------------------- MODULE Instances -----------------------------
(***************************************************************************)
(* The two keepers of unikernel instances on a node:                       *)
(* internal/monitor/instance_lifecycle.c (a list of instances, a thread    *)
(* that looks for dead processes, restart and shutdown by callers) and     *)
(* internal/kubelet/instance_manager.c (one instance, its restart counter  *)
(* and backoff).  Every operation takes the mutex of its instance for      *)
(* itself; what takes several of them is several steps here.               *)
(***************************************************************************)
EXTENDS Integers, FiniteSets

CONSTANTS
    InPods,         \* pods
    InCallers,      \* threads that restart and shut instances down
    InMaxRestarts,  \* restarts allowed (5)
    InMaxBackoff,   \* max_backoff_seconds of instance_manager.c (60)
    InCountBound    \* bound: failures, failed checks and seconds counted

ASSUME InAssumption == InMaxRestarts \in Nat /\ InMaxBackoff \in Nat \ {0}

VARIABLES inRows, inPc, inMon, inDrain, inBroken, imRow, imClock

inVars == <<inRows, inPc, inMon, inDrain, inBroken>>
imVars == <<imRow, imClock>>

NoInstance == [state |-> "none"]

InStates == {"CREATED", "RUNNING", "READY", "NOT_READY", "RESTARTING",
             "STOPPING", "STOPPED", "FAILED", "DRAINING"}

\* process: none while process_id is 0, else what kill(process_id, 0) tells.
instance_metadata_create ==
    [state |-> "CREATED", process |-> "none", ready |-> FALSE, restarts |-> 0, failures |-> 0]

InFree == [op |-> "idle", pod |-> "none"]

instance_lifecycle_manager_create ==
    /\ inRows = [p \in InPods |-> NoInstance]
    /\ inPc = [c \in InCallers |-> InFree]
    /\ inMon = [at |-> "asleep", pod |-> "none", todo |-> {}]
    /\ inDrain = FALSE /\ inBroken = FALSE

Managed == {p \in InPods : inRows[p] # NoInstance}

\* The mutex of the manager: the monitor thread holds it for a whole round.
ManagerFree == inMon.at = "asleep"

Alters(p, new) == inRows' = [inRows EXCEPT ![p] = new]

---------------------------------------------------------------------------
(* One call on an instance.                                                *)

instance_lifecycle_manager_add(p) ==
    ManagerFree /\ p \notin Managed /\ Alters(p, instance_metadata_create)

\* The instance is freed also while a caller is at work on it.
instance_lifecycle_manager_remove(p) == ManagerFree /\ p \in Managed /\ Alters(p, NoInstance)

instance_lifecycle_manager_get(p) == p \in Managed

instance_metadata_set_process(p) ==
    p \in Managed /\ Alters(p, [inRows[p] EXCEPT !.process = "alive"])

ProcessDies(p) ==
    p \in Managed /\ inRows[p].process = "alive" /\ Alters(p, [inRows[p] EXCEPT !.process = "dead"])

instance_metadata_set_state(row, s) == [row EXCEPT !.state = s]

SetsState(p, s) == p \in Managed /\ Alters(p, instance_metadata_set_state(inRows[p], s))

instance_metadata_set_ready(p) == p \in Managed /\ Alters(p, [inRows[p] EXCEPT !.ready = TRUE])

instance_metadata_set_not_ready(p) == p \in Managed /\ Alters(p, [inRows[p] EXCEPT !.ready = FALSE])

instance_metadata_record_failure(p) ==
    /\ p \in Managed /\ inRows[p].failures < InCountBound
    /\ Alters(p, [inRows[p] EXCEPT !.failures = @ + 1, !.state = "FAILED"])

instance_metadata_clear_failures(p) ==
    p \in Managed /\ Alters(p, [inRows[p] EXCEPT !.failures = 0])

\* Mutation: the limit is passed by one.
should_restart_once_more(row) ==
    row.state \notin {"DRAINING", "STOPPING", "STOPPED"} /\ row.restarts <= InMaxRestarts

instance_metadata_should_restart(row) ==
    row.state \notin {"DRAINING", "STOPPING", "STOPPED"} /\ row.restarts < InMaxRestarts

instance_metadata_record_restart(row) ==
    [row EXCEPT !.restarts = @ + 1, !.state = "RESTARTING"]

\* Doubled for each restart and never above 300 s.
instance_metadata_get_restart_delay(row) ==
    LET d == 2 ^ row.restarts IN IF d > 300 THEN 300 ELSE d

instance_lifecycle_manager_enable_drain == ManagerFree /\ ~inDrain /\ inDrain' = TRUE

instance_lifecycle_manager_disable_drain == ManagerFree /\ inDrain /\ inDrain' = FALSE

instance_lifecycle_manager_get_draining_count ==
    Cardinality({p \in Managed : inRows[p].state = "DRAINING"})

---------------------------------------------------------------------------
(* Callers.  instance_restart asks and then counts; a shutdown marks,       *)
(* signals, waits and marks again.                                         *)

StartsOp(c, p, op) ==
    /\ inPc[c] = InFree /\ p \in Managed
    /\ inPc' = [inPc EXCEPT ![c] = [op |-> op, pod |-> p]]

instance_restart(c, p) ==
    /\ instance_metadata_should_restart(inRows[p])
    /\ StartsOp(c, p, "restart") /\ UNCHANGED <<inRows, inBroken>>

instance_shutdown_graceful(c, p) ==
    /\ StartsOp(c, p, "term") /\ inRows[p].process # "none"
    /\ Alters(p, instance_metadata_set_state(inRows[p], "STOPPING")) /\ UNCHANGED inBroken

instance_shutdown_force(c, p) ==
    /\ StartsOp(c, p, "kill") /\ inRows[p].process # "none"
    /\ Alters(p, instance_metadata_set_state(inRows[p], "STOPPING")) /\ UNCHANGED inBroken

\* The next step of a caller; the instance may have been freed under it.
CallerStep(c) ==
    LET p   == inPc[c].pod
        row == inRows[p]
        Ends == inPc' = [inPc EXCEPT ![c] = InFree]
    IN  /\ inPc[c] # InFree
        /\ IF row = NoInstance THEN Ends /\ inBroken' = TRUE /\ UNCHANGED inRows
           ELSE /\ UNCHANGED inBroken
                /\ \/ /\ inPc[c].op = "restart"
                      /\ Alters(p, instance_metadata_record_restart(row)) /\ Ends
                   \/ /\ inPc[c].op = "term" /\ row.process = "dead"
                      /\ Alters(p, instance_metadata_set_state(row, "STOPPED")) /\ Ends
                   \/ /\ inPc[c].op = "term"
                      /\ inPc' = [inPc EXCEPT ![c].op = "kill"] /\ UNCHANGED inRows
                   \/ /\ inPc[c].op = "kill"
                      /\ Alters(p, [instance_metadata_set_state(row, "STOPPED") EXCEPT !.process = "dead"])
                      /\ Ends

---------------------------------------------------------------------------
(* The monitor thread.  A dead process makes its instance FAILED whatever   *)
(* its state was, so that the question of should_restart is never answered *)
(* by STOPPED or DRAINING.                                                 *)

MonitorRound ==
    /\ inMon.at = "asleep" /\ Managed # {}
    /\ inMon' = [at |-> "next", pod |-> "none", todo |-> Managed]
    /\ UNCHANGED inRows

MonitorMarks ==
    /\ inMon.at = "next"
    /\ \/ inMon.todo = {} /\ inMon' = [inMon EXCEPT !.at = "asleep"] /\ UNCHANGED inRows
       \/ \E p \in inMon.todo :
             IF inRows[p].process = "dead"
             THEN /\ inMon' = [at |-> "ask", pod |-> p, todo |-> inMon.todo \ {p}]
                  /\ Alters(p, instance_metadata_set_state(inRows[p], "FAILED"))
             ELSE inMon' = [inMon EXCEPT !.todo = @ \ {p}] /\ UNCHANGED inRows

MonitorAsks ==
    /\ inMon.at = "ask"
    /\ inMon' = [inMon EXCEPT !.at = IF ~inDrain /\ instance_metadata_should_restart(inRows[inMon.pod])
                                     THEN "count" ELSE "next"]
    /\ UNCHANGED inRows

MonitorCounts ==
    /\ inMon.at = "count"
    /\ Alters(inMon.pod, instance_metadata_record_restart(inRows[inMon.pod]))
    /\ inMon' = [inMon EXCEPT !.at = "next"]

InNext ==
    /\ ~inBroken
    /\ \/ /\ \E p \in InPods :
                \/ instance_lifecycle_manager_add(p) \/ instance_lifecycle_manager_remove(p)
                \/ instance_metadata_set_process(p) \/ ProcessDies(p)
                \/ \E s \in {"RUNNING", "DRAINING"} : SetsState(p, s)
                \/ instance_metadata_set_ready(p) \/ instance_metadata_set_not_ready(p)
                \/ instance_metadata_record_failure(p) \/ instance_metadata_clear_failures(p)
          /\ UNCHANGED <<inPc, inMon, inDrain, inBroken>>
       \/ /\ \E c \in InCallers :
                \/ \E p \in Managed : \/ instance_restart(c, p) \/ instance_shutdown_graceful(c, p)
                                      \/ instance_shutdown_force(c, p)
                \/ CallerStep(c)
          /\ UNCHANGED <<inMon, inDrain>>
       \/ /\ MonitorRound \/ MonitorMarks \/ MonitorAsks \/ MonitorCounts
          /\ UNCHANGED <<inPc, inDrain, inBroken>>
       \/ /\ instance_lifecycle_manager_enable_drain \/ instance_lifecycle_manager_disable_drain
          /\ UNCHANGED <<inRows, inPc, inMon, inBroken>>

---------------------------------------------------------------------------
(* instance_manager.c: one instance, every operation under its mutex.       *)

instance_manager_create ==
    /\ imRow = [status |-> "PENDING", ready |-> FALSE, alive |-> TRUE, checks |-> 0, restarts |-> 0, next |-> 0]
    /\ imClock = 0

instance_manager_update_status(s) == imRow' = [imRow EXCEPT !.status = s] /\ UNCHANGED imClock

instance_manager_set_ready(b) == imRow' = [imRow EXCEPT !.ready = b] /\ UNCHANGED imClock

instance_manager_set_alive(b) == imRow' = [imRow EXCEPT !.alive = b] /\ UNCHANGED imClock

instance_manager_health_check_failed ==
    /\ imRow.checks < InCountBound
    /\ imRow' = [imRow EXCEPT !.checks = @ + 1] /\ UNCHANGED imClock

instance_manager_health_check_success == imRow' = [imRow EXCEPT !.checks = 0] /\ UNCHANGED imClock

instance_manager_mark_restart ==
    LET b == 2 ^ imRow.restarts
    IN  /\ imRow' = IF imRow.restarts >= InMaxRestarts THEN [imRow EXCEPT !.status = "FAILED"]
                    ELSE [imRow EXCEPT !.restarts = @ + 1, !.status = "STARTING", !.ready = FALSE, !.checks = 0,
                                       !.next = imClock + IF b > InMaxBackoff THEN InMaxBackoff ELSE b]
        /\ UNCHANGED imClock

instance_manager_get_restart_backoff == IF imRow.next > imClock THEN imRow.next - imClock ELSE 0

instance_manager_can_restart == imRow.restarts < InMaxRestarts /\ imClock >= imRow.next

ImTime == imClock < InCountBound /\ imClock' = imClock + 1 /\ UNCHANGED imRow

ImNext ==
    \/ \E s \in {"RUNNING", "STOPPED"} : instance_manager_update_status(s)
    \/ \E b \in BOOLEAN : instance_manager_set_ready(b) \/ instance_manager_set_alive(b)
    \/ instance_manager_health_check_failed \/ instance_manager_health_check_success
    \/ instance_manager_mark_restart
    \/ ImTime

---------------------------------------------------------------------------
InInit == instance_lifecycle_manager_create /\ instance_manager_create

\* The number of restarts stays bounded though instance_lifecycle.c asks whether there may
\* be another and counts it under two acquisitions of the mutex: each caller can pass the
\* limit by one restart, no more, however callers, monitor rounds, shutdowns and removals
\* interleave.  instance_manager.c does both under one and keeps its limit, its wait for
\* the next restart within max_backoff_seconds.
RestartsBounded ==
    /\ \A p \in Managed : inRows[p].restarts <= InMaxRestarts + Cardinality(InCallers)
    /\ imRow.restarts <= InMaxRestarts
    /\ instance_manager_get_restart_backoff <= InMaxBackoff
=============================================================================
