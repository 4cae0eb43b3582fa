-------------------------- MODULE AgentSupervision --------------------------
(***************************************************************************)
(* The supervision tree of the node agent                                  *)
(* (internal/kubelet/agent_supervision.c): a monitor thread reaps children *)
(* and starts them again, while callers start and stop the tree and        *)
(* restart single children.                                                *)
(*                                                                         *)
(* tree->mutex is modelled; each spec->mutex protects one atomic step.     *)
(* The monitor sleeps and restarts a child with NEITHER mutex held.        *)
(* tree->state is left out: only its getter reads it.                      *)
(* A process is "alive", a "zombie" (exited, not reaped) or "gone".        *)
(* kill(pid, 0) succeeds for a zombie, so supervision_tree_stop_child      *)
(* always waits its five seconds and sends SIGKILL.                        *)
(***************************************************************************)
EXTENDS Integers, Sequences

CONSTANTS
    ChildType,    \* the type of each child, in the order they were added
    Callers,      \* threads that call supervision_tree_restart_child
    MaxRestarts,  \* spec->max_restarts
    MaxPids       \* bound: processes forked; the next fork fails

Children == DOMAIN ChildType
Types    == {"PERMANENT", "TRANSIENT", "TEMPORARY"}
Pids     == 1 .. MaxPids
Owner    == "owner"      \* the thread that starts and stops the tree
Monitor  == "monitor"
Free     == "free"

ASSUME SupervisionAssumption ==
    /\ MaxRestarts \in Nat /\ MaxPids \in Nat
    /\ ChildType \in Seq(Types)
    /\ {Owner, Monitor, Free} \cap Callers = {}

VARIABLES
    tree_running, tree_mutex,
    spec,       \* child -> [running, current_pid, restart_count, restarted]
    proc,       \* external: pid -> [child, is, ok], ok: exited with status 0
    forked,     \* external: processes forked so far
    monitor,    \* [pc, i]: "off", "test", "lock", "check", "backoff" or "relock"
    caller      \* the owner and the callers -> [pc, i, pid]

supVars == <<tree_running, tree_mutex, spec, proc, forked, monitor, caller>>

NoProc == [child |-> 0, is |-> "gone", ok |-> TRUE]

\* supervision_tree_create and supervision_tree_add_child.
SupInit ==
    /\ tree_running = FALSE /\ tree_mutex = Free
    /\ spec = [c \in Children |-> [running |-> FALSE, current_pid |-> 0,
                                   restart_count |-> 0, restarted |-> FALSE]]
    /\ proc = [p \in Pids |-> NoProc]
    /\ forked = 0
    /\ monitor = [pc |-> "off", i |-> 0]
    /\ caller = [t \in Callers \cup {Owner} |-> [pc |-> "idle", i |-> 0, pid |-> 0]]

Go(t, pc, i, pid) == caller' = [caller EXCEPT ![t] = [pc |-> pc, i |-> i, pid |-> pid]]
MonitorGo(pc, i) == monitor' = [pc |-> pc, i |-> i]
Take(t) == tree_mutex = Free /\ tree_mutex' = t
Release == tree_mutex' = Free

---------------------------------------------------------------------------
(* Processes.                                                              *)

\* A process exits by itself.
Exit(p, ok) ==
    /\ proc[p].is = "alive"
    /\ proc' = [proc EXCEPT ![p] = [child |-> @.child, is |-> "zombie", ok |-> ok]]
    /\ UNCHANGED <<tree_running, tree_mutex, spec, forked, monitor, caller>>

CanFork   == forked < MaxPids
ForkFails == ~CanFork /\ UNCHANGED <<spec, proc, forked>>

\* fork succeeds: the new pid replaces the one recorded.
supervision_tree_start_child(c) ==
    /\ CanFork
    /\ forked' = forked + 1
    /\ proc' = [proc EXCEPT ![forked + 1] = [child |-> c, is |-> "alive", ok |-> TRUE]]
    /\ spec' = [spec EXCEPT ![c].running = TRUE, ![c].current_pid = forked + 1]

Stoppable(c) == spec[c].running /\ spec[c].current_pid > 0

\* SIGTERM, five seconds, SIGKILL: the process ends if it has not; then the
\* spec is cleared, whatever it holds by now.
StopProcess(c, p) ==
    /\ proc' = [proc EXCEPT ![p] = IF @.is = "alive"
                    THEN [child |-> @.child, is |-> "zombie", ok |-> FALSE] ELSE @]
    /\ spec' = [spec EXCEPT ![c].running = FALSE, ![c].current_pid = -1]
    /\ UNCHANGED forked

---------------------------------------------------------------------------
(* The owner: supervision_tree_start and supervision_tree_stop.            *)

Returned == {"idle", "stopped"}

\* tree->running is read before the mutex is taken.
StartLock ==
    /\ caller[Owner].pc \in Returned /\ ~tree_running
    /\ Take(Owner) /\ Go(Owner, "start", 1, 0)
    /\ UNCHANGED <<tree_running, spec, proc, forked, monitor>>

StartChild ==
    LET c == caller[Owner].i
    IN  /\ caller[Owner].pc = "start" /\ c \in Children
        /\ \/ /\ supervision_tree_start_child(c)
              /\ Go(Owner, "start", c + 1, 0) /\ UNCHANGED tree_mutex
           \/ ForkFails /\ Release /\ Go(Owner, "idle", 0, 0)
        /\ UNCHANGED <<tree_running, monitor>>

StartDone ==
    /\ caller[Owner].pc = "start" /\ caller[Owner].i \notin Children
    /\ tree_running' = TRUE /\ Release /\ Go(Owner, "spawn", 0, 0)
    /\ UNCHANGED <<spec, proc, forked, monitor>>

\* pthread_create, or its failure, which leaves the children running.
SpawnMonitor ==
    /\ caller[Owner].pc = "spawn" /\ Go(Owner, "idle", 0, 0)
    /\ \/ MonitorGo("test", 0) /\ UNCHANGED tree_running
       \/ tree_mutex = Free /\ tree_running' = FALSE /\ UNCHANGED monitor
    /\ UNCHANGED <<tree_mutex, spec, proc, forked>>

StopLock ==
    /\ caller[Owner].pc = "idle" /\ tree_running
    /\ Take(Owner) /\ tree_running' = FALSE /\ Go(Owner, "stop", 1, 0)
    /\ UNCHANGED <<spec, proc, forked, monitor>>

StopChild ==
    LET c == caller[Owner].i
    IN  /\ caller[Owner].pc = "stop" /\ c \in Children
        /\ \/ Stoppable(c) /\ Go(Owner, "kill", c, spec[c].current_pid)
           \/ ~Stoppable(c) /\ Go(Owner, "stop", c + 1, 0)
        /\ UNCHANGED <<tree_running, tree_mutex, spec, proc, forked, monitor>>

KillChild ==
    /\ caller[Owner].pc = "kill"
    /\ StopProcess(caller[Owner].i, caller[Owner].pid)
    /\ Go(Owner, "stop", caller[Owner].i + 1, 0)
    /\ UNCHANGED <<tree_running, tree_mutex, monitor>>

StopUnlock ==
    /\ caller[Owner].pc = "stop" /\ caller[Owner].i \notin Children
    /\ Release /\ Go(Owner, "join", 0, 0)
    /\ UNCHANGED <<tree_running, spec, proc, forked, monitor>>

\* pthread_join returns.
StopJoined ==
    /\ caller[Owner].pc = "join" /\ monitor.pc = "off"
    /\ Go(Owner, "stopped", 0, 0)
    /\ UNCHANGED <<tree_running, tree_mutex, spec, proc, forked, monitor>>

OwnerStep ==
    StartChild \/ StartDone \/ SpawnMonitor \/ StopChild \/ KillChild \/ StopUnlock \/ StopJoined

---------------------------------------------------------------------------
(* supervision_tree_restart_child: the mutex is released in between.       *)

RestartStop(t, c) ==
    /\ caller[t].pc = "idle" /\ tree_mutex = Free
    /\ \/ Stoppable(c) /\ Take(t) /\ Go(t, "kill", c, spec[c].current_pid)
       \/ ~Stoppable(c) /\ Go(t, "restart", c, 0) /\ UNCHANGED tree_mutex
    /\ UNCHANGED <<tree_running, spec, proc, forked, monitor>>

RestartKill(t) ==
    /\ caller[t].pc = "kill"
    /\ StopProcess(caller[t].i, caller[t].pid)
    /\ Release /\ Go(t, "restart", caller[t].i, 0)
    /\ UNCHANGED <<tree_running, monitor>>

RestartStart(t) ==
    /\ caller[t].pc = "restart" /\ tree_mutex = Free
    /\ supervision_tree_start_child(caller[t].i) \/ ForkFails
    /\ Go(t, "idle", 0, 0)
    /\ UNCHANGED <<tree_running, tree_mutex, monitor>>

RestartStep(t) == RestartKill(t) \/ RestartStart(t)

---------------------------------------------------------------------------
(* supervision_tree_monitor_thread.                                        *)

\* Mutation: the thread never looks at tree->running.
MonitorTest_Forever ==
    /\ monitor.pc = "test" /\ MonitorGo("lock", 0)
    /\ UNCHANGED <<tree_running, tree_mutex, spec, proc, forked, caller>>

MonitorTest ==
    /\ monitor.pc = "test"
    /\ MonitorGo(IF tree_running THEN "lock" ELSE "off", 0)
    /\ UNCHANGED <<tree_running, tree_mutex, spec, proc, forked, caller>>

\* Mutation: the scan does not take the mutex of the tree.
MonitorLock_Unlocked ==
    /\ monitor.pc = "lock" /\ MonitorGo("check", 1)
    /\ UNCHANGED <<tree_running, tree_mutex, spec, proc, forked, caller>>

MonitorLock ==
    /\ monitor.pc = "lock"
    /\ Take(Monitor) /\ MonitorGo("check", 1)
    /\ UNCHANGED <<tree_running, spec, proc, forked, caller>>

\* Mutation: a permanent child that exits with status 0 is left alone.
should_restart_OnFailure(c) == ChildType[c] # "TEMPORARY" /\ ~proc[spec[c].current_pid].ok

Exited(c) == Stoppable(c) /\ proc[spec[c].current_pid].is = "zombie"

should_restart(c) ==
    \/ ChildType[c] = "PERMANENT"
    \/ ChildType[c] = "TRANSIENT" /\ ~proc[spec[c].current_pid].ok

\* Mutation: one restart more than max_restarts.
WithinLimit_OneMore(n) == n <= MaxRestarts

WithinLimit(n) == n < MaxRestarts

\* waitpid finds nothing to reap.
CheckAlive ==
    /\ monitor.pc = "check" /\ monitor.i \in Children /\ ~Exited(monitor.i)
    /\ MonitorGo("check", monitor.i + 1)
    /\ UNCHANGED <<tree_running, tree_mutex, spec, proc, forked, caller>>

\* waitpid reaps the process.  lapsed: the last restart is longer ago than
\* max_restart_window_secs.
CheckExited(lapsed) ==
    LET c == monitor.i
        n == IF lapsed THEN 0 ELSE spec[c].restart_count
        After(count, again) ==
            spec' = [spec EXCEPT ![c] = [running |-> FALSE, current_pid |-> @.current_pid,
                         restart_count |-> count, restarted |-> again]]
    IN  /\ monitor.pc = "check" /\ c \in Children /\ Exited(c)
        /\ lapsed => spec[c].restarted
        /\ proc' = [proc EXCEPT ![spec[c].current_pid] = NoProc]
        /\ \/ /\ should_restart(c) /\ WithinLimit(n)
              /\ After(n + 1, TRUE) /\ Release /\ MonitorGo("backoff", c)
           \/ /\ should_restart(c) /\ ~WithinLimit(n)
              /\ After(n, spec[c].restarted) /\ UNCHANGED tree_mutex /\ MonitorGo("check", c + 1)
           \/ /\ ~should_restart(c)
              /\ After(0, spec[c].restarted) /\ UNCHANGED tree_mutex /\ MonitorGo("check", c + 1)
        /\ UNCHANGED <<tree_running, forked, caller>>

\* The end of the scan; the thread sleeps.
CheckDone ==
    /\ monitor.pc = "check" /\ monitor.i \notin Children
    /\ Release /\ MonitorGo("test", 0)
    /\ UNCHANGED <<tree_running, spec, proc, forked, caller>>

\* After the sleep the child is started, whatever has happened meanwhile.
MonitorRestart ==
    /\ monitor.pc = "backoff"
    /\ supervision_tree_start_child(monitor.i) \/ ForkFails
    /\ MonitorGo("relock", 0)
    /\ UNCHANGED <<tree_running, tree_mutex, caller>>

\* Lock, leave the scan, unlock.
MonitorRelock ==
    /\ monitor.pc = "relock" /\ tree_mutex = Free
    /\ MonitorGo("test", 0)
    /\ UNCHANGED <<tree_running, tree_mutex, spec, proc, forked, caller>>

MonitorStep ==
    \/ MonitorTest \/ MonitorLock \/ CheckAlive \/ CheckDone
    \/ \E lapsed \in BOOLEAN : CheckExited(lapsed)
    \/ MonitorRestart \/ MonitorRelock

SupNext ==
    \/ \E p \in Pids, ok \in BOOLEAN : Exit(p, ok)
    \/ StartLock \/ StopLock \/ OwnerStep
    \/ \E t \in Callers : RestartStep(t) \/ \E c \in Children : RestartStop(t, c)
    \/ MonitorStep

\* The threads keep running and get the mutex; nothing makes a process exit or
\* a caller call.
SupFairness ==
    /\ WF_supVars(MonitorStep) /\ SF_supVars(MonitorLock) /\ SF_supVars(MonitorRelock)
    /\ WF_supVars(OwnerStep)
    /\ \A t \in Callers : WF_supVars(RestartStep(t)) /\ SF_supVars(RestartStart(t))

SupSpec == SupInit /\ [][SupNext]_supVars /\ SupFairness

---------------------------------------------------------------------------
(* Properties.                                                             *)

\* Types, and the mutex is held exactly in the sections that lock it.
SupTypeOK ==
    /\ tree_running \in BOOLEAN /\ forked \in 0 .. MaxPids
    /\ \A c \in Children : /\ spec[c].current_pid \in -1 .. forked
                           /\ spec[c].restart_count \in 0 .. MaxRestarts
    /\ \A t \in Callers \cup {Owner} :
          tree_mutex = t <=> caller[t].pc \in {"start", "stop", "kill"}
    /\ tree_mutex = Monitor <=> monitor.pc = "check"

\* SIGTERM and SIGKILL go to a process that has not been reaped, so that the
\* pid cannot belong to an unrelated process by then: the monitor reaps under
\* the mutex that the killer holds.
KillHitsOwnChild ==
    \A t \in Callers \cup {Owner} :
        caller[t].pc = "kill" => /\ proc[caller[t].pid].is # "gone"
                                 /\ proc[caller[t].pid].child = caller[t].i

\* supervision_tree_stop returns: the monitor, wherever it was, gets its mutex
\* and leaves its loop.
StopReturns == caller[Owner].pc = "stop" ~> caller[Owner].pc = "stopped"

UsedUp(c) ==
    /\ spec[c].restart_count = MaxRestarts /\ ~spec[c].running
    /\ monitor # [pc |-> "backoff", i |-> c]

\* "Always restart permanent children": one that exited is started again,
\* unless the tree is stopped, its restarts are used up or fork fails.
PermanentIsRestarted ==
    \A c \in Children :
        (ChildType[c] = "PERMANENT" /\ monitor.pc # "off" /\ Exited(c))
        ~> (\/ spec[c].running /\ proc[spec[c].current_pid].is = "alive"
            \/ ~tree_running \/ UsedUp(c) \/ ~CanFork)

\* The mutex is held where the code locks it, and under it a signal reaches the child it was
\* meant for (SupTypeOK, KillHitsOwnChild).
KillsAreOwn == SupTypeOK /\ KillHitsOwnChild

=============================================================================
