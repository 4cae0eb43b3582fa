----------------------------- MODULE NodeAgents -----------------------------
(***************************************************************************)
(* The two programs that run on a worker node: the kubelet of cmd/kubelet, *)
(* whose supervisor runs three components one after the other, and the     *)
(* agent of sirah/cmd/agent, which sends its heartbeats and synchronises   *)
(* its pods in one loop.  Each has one thread; SIGINT and SIGTERM are      *)
(* handled on it, between any two of its steps.                            *)
(*                                                                         *)
(* The API server's answers are arbitrary.  Sleeps end at any time, so     *)
(* the back-off's length, the intervals and failure_window_ms, which       *)
(* nothing reads, are left out.  So are the functions that start and stop  *)
(* single pods, which neither program calls.                               *)
(***************************************************************************)
EXTENDS Integers, Sequences, SequencesExt

CONSTANTS
    AgMaxRestarts,  \* max_restarts of pod-sync, heartbeat and health-check
    AgPods,         \* pods the API server may assign to the node
    AgCapacity,     \* max_pods_capacity
    AgSignals       \* bound: signals sent

AgComponents == DOMAIN AgMaxRestarts

ASSUME AgentsAssumption ==
    /\ AgMaxRestarts \in Seq(Nat) /\ Len(AgMaxRestarts) = 3
    /\ AgCapacity \in Nat /\ AgSignals \in Nat

VARIABLES
    agProgram,    \* which of the two programs runs
    agPc,         \* where its thread is
    agAt,         \* the supervisor's component i, 1 ..
    agRunning,    \* agent->running
    agSup,        \* supervisor->running
    agComps,      \* component -> [state, failure_count]
    agTable,      \* the pods of the agent's table, in order
    agSent,       \* signals sent
    agHeard,      \* history: a signal was handled after the loop had been entered
    agLate        \* history: requests begun after such a signal, where a request
                  \* begins when agent->running is tested

agVars == <<agProgram, agPc, agAt, agRunning, agSup, agComps, agTable, agSent, agHeard, agLate>>
agNode == <<agProgram, agTable, agSent, agHeard>>

Health == 3     \* health-check, which asks the API server nothing

\* agent_new, supervisor_new and supervisor_add_component.
AgInit ==
    /\ agProgram \in {"kubelet", "agent"}
    /\ agPc = "init" /\ agAt = 0 /\ agRunning = FALSE /\ agSup = FALSE
    /\ agComps = [i \in AgComponents |-> [state |-> "STOPPED", failure_count |-> 0]]
    /\ agTable = <<>> /\ agSent = 0 /\ agHeard = FALSE /\ agLate = 0

AgJump(pc, at) == agPc' = pc /\ agAt' = at
Asks == agLate' = agLate + (IF agHeard THEN 1 ELSE 0)

\* signal_handler, and before signal() the default action, which ends the program.
AgSignal ==
    /\ agPc # "exit" /\ agSent < AgSignals
    /\ agSent' = agSent + 1
    /\ \/ agPc = "init" /\ agPc' = "exit" /\ UNCHANGED <<agRunning, agSup, agComps, agHeard>>
       \/ /\ agPc # "init"
          /\ agRunning' = FALSE /\ agHeard' = (agHeard \/ agPc # "ready")
          /\ IF agProgram = "kubelet"
             THEN /\ agSup' = FALSE
                  /\ agComps' = [i \in AgComponents |-> [agComps[i] EXCEPT !.state = "STOPPED"]]
             ELSE UNCHANGED <<agSup, agComps>>
          /\ UNCHANGED agPc
    /\ UNCHANGED <<agProgram, agAt, agTable, agLate>>

---------------------------------------------------------------------------
(* The kubelet.                                                            *)

\* agent_init; a registration that is refused ends the program.
kubelet_init(registered) ==
    /\ agProgram = "kubelet" /\ agPc = "init"
    /\ agRunning' = TRUE /\ AgJump(IF registered THEN "ready" ELSE "exit", 0)
    /\ UNCHANGED <<agNode, agSup, agComps, agLate>>

\* supervisor_start: running first, then component after component.
supervisor_start ==
    /\ agProgram = "kubelet"
    /\ \/ /\ agPc = "ready" /\ agSup' = TRUE /\ AgJump("start", 1) /\ UNCHANGED agComps
       \/ /\ agPc = "start" /\ agAt \in AgComponents
          /\ agComps' = [agComps EXCEPT ![agAt].state = "RUNNING"]
          /\ AgJump("start", agAt + 1) /\ UNCHANGED agSup
       \/ /\ agPc = "start" /\ agAt \notin AgComponents
          /\ AgJump("test", 0) /\ UNCHANGED <<agSup, agComps>>
    /\ UNCHANGED <<agNode, agRunning, agLate>>

\* Mutation: the loop is left only when every component has stopped.
SupervisorTest_Forever ==
    /\ agProgram = "kubelet" /\ agPc = "test" /\ AgJump("scan", 1)
    /\ UNCHANGED <<agNode, agRunning, agSup, agComps, agLate>>

SupervisorTest ==
    /\ agProgram = "kubelet" /\ agPc = "test"
    /\ AgJump(IF agSup THEN "scan" ELSE "exit", 1)
    /\ UNCHANGED <<agNode, agRunning, agSup, agComps, agLate>>

\* The next component that runs.
NextComponent ==
    /\ agPc = "scan" /\ agAt \in AgComponents
    /\ IF agComps[agAt].state = "RUNNING" THEN AgJump("call", agAt) ELSE AgJump("scan", agAt + 1)
    /\ UNCHANGED <<agNode, agRunning, agSup, agComps, agLate>>

\* comp->func: the health check succeeds, the other two fail at once when the
\* agent does not run and otherwise ask the API server.
RunComponent ==
    /\ agPc = "call"
    /\ \/ agAt = Health /\ AgJump("scan", agAt + 1) /\ UNCHANGED agLate
       \/ agAt # Health /\ ~agRunning /\ AgJump("failed", agAt) /\ UNCHANGED agLate
       \/ agAt # Health /\ agRunning /\ AgJump("asked", agAt) /\ Asks
    /\ UNCHANGED <<agNode, agRunning, agSup, agComps>>

Answered(ok) ==
    /\ agProgram = "kubelet" /\ agPc = "asked"
    /\ IF ok THEN AgJump("scan", agAt + 1) ELSE AgJump("failed", agAt)
    /\ UNCHANGED <<agNode, agRunning, agSup, agComps, agLate>>

\* supervisor_restart_component, until usleep and after it: a signal that comes
\* in between stops the component, which is then RUNNING again.
supervisor_restart_component ==
    LET comp == agComps[agAt]
    IN  /\ \/ /\ agPc = "failed" /\ comp.failure_count >= AgMaxRestarts[agAt]
              /\ agComps' = [agComps EXCEPT ![agAt].state = "STOPPED"]
              /\ AgJump("scan", agAt + 1)
           \/ /\ agPc = "failed" /\ comp.failure_count < AgMaxRestarts[agAt]
              /\ AgJump("backoff", agAt) /\ UNCHANGED agComps
           \/ /\ agPc = "backoff"
              /\ agComps' = [agComps EXCEPT ![agAt] = [state |-> "RUNNING",
                                 failure_count |-> comp.failure_count + 1]]
              /\ AgJump("scan", agAt + 1)
        /\ UNCHANGED <<agNode, agRunning, agSup, agLate>>

\* No component runs any more, or the loop sleeps.
ScanDone ==
    /\ agPc = "scan" /\ agAt \notin AgComponents
    /\ IF \E i \in AgComponents : agComps[i].state = "RUNNING"
       THEN AgJump("test", 0) ELSE AgJump("exit", 0)
    /\ UNCHANGED <<agNode, agRunning, agSup, agComps, agLate>>

KubeletStep ==
    \/ \E ok \in BOOLEAN : kubelet_init(ok) \/ Answered(ok)
    \/ supervisor_start \/ SupervisorTest \/ NextComponent \/ RunComponent
    \/ supervisor_restart_component \/ ScanDone

---------------------------------------------------------------------------
(* The agent.  Its supervisor is filled and never run.                     *)

\* agent_init, where a registration that fails is ignored; then agent_run up to
\* its loop.
agent_run_starts ==
    /\ agProgram = "agent"
    /\ \/ agPc = "init" /\ AgJump("ready", 0)
       \/ agPc = "ready" /\ AgJump("test", 0)
    /\ agRunning' = TRUE
    /\ UNCHANGED <<agNode, agSup, agComps, agLate>>

AgentTest ==
    /\ agProgram = "agent" /\ agPc = "test"
    /\ AgJump(IF agRunning THEN "beat" ELSE "exit", 0)
    /\ UNCHANGED <<agNode, agRunning, agSup, agComps, agLate>>

\* The heartbeat, when it is due; its answer changes nothing here.
agent_send_heartbeat(due) ==
    /\ agProgram = "agent" /\ agPc = "beat" /\ AgJump("sync", 0)
    /\ IF due THEN Asks ELSE UNCHANGED agLate
    /\ UNCHANGED <<agNode, agRunning, agSup, agComps>>

SyncBegins(due) ==
    /\ agProgram = "agent" /\ agPc = "sync"
    /\ IF due THEN AgJump("asked", 0) /\ Asks ELSE AgJump("test", 0) /\ UNCHANGED agLate
    /\ UNCHANGED <<agNode, agRunning, agSup, agComps>>

\* The lists of pods the API server may answer with; a failed request adds none.
PodLists == UNION {{l \in [1 .. n -> AgPods] : IsInjective(l)} : n \in 0 .. AgCapacity + 1}

\* Mutation: a pod that is in the table already is added again.
AddPod_Again(table, item) == IF Len(table) < AgCapacity THEN Append(table, item) ELSE table

\* One item of the list: a pod that is new is added, if there is room.
AddPod(table, item) ==
    IF ~Contains(table, item) /\ Len(table) < AgCapacity THEN Append(table, item) ELSE table

\* Only the first max_pods_capacity items are looked at.
agent_sync_pods(list) ==
    /\ agProgram = "agent" /\ agPc = "asked" /\ AgJump("test", 0)
    /\ agTable' = FoldLeft(AddPod, agTable,
                           SubSeq(list, 1, IF Len(list) < AgCapacity THEN Len(list) ELSE AgCapacity))
    /\ UNCHANGED <<agProgram, agSent, agHeard, agRunning, agSup, agComps, agLate>>

AgentStep ==
    \/ agent_run_starts \/ AgentTest
    \/ \E due \in BOOLEAN : agent_send_heartbeat(due) \/ SyncBegins(due)
    \/ \E list \in PodLists : agent_sync_pods(list)

AgNext == AgSignal \/ KubeletStep \/ AgentStep

---------------------------------------------------------------------------
(* Properties.                                                             *)

\* A signal handled once the loop was entered ends the program, wherever its
\* thread was: in a request, in a back-off, or before the components started.
AgentStops == agHeard ~> agPc = "exit"

\* After such a signal the kubelet asks the API server nothing more, though a
\* component in its back-off is RUNNING again; the agent finishes its round.
QuietAfterSignal == agLate <= (IF agProgram = "kubelet" THEN 0 ELSE 2)

\* Without a signal the kubelet gives a component up only when its restarts are
\* used up, and keeps running for the health check.
KeepsItsComponents ==
    agProgram = "kubelet" /\ agSent = 0 =>
        /\ \A i \in AgComponents :
              agComps[i].state = "STOPPED" /\ agPc \notin {"init", "ready", "start", "exit"}
                  => agComps[i].failure_count = AgMaxRestarts[i]
        /\ agPc = "exit" => ~agSup

\* The agent's table holds no pod twice and no more than its capacity.
TableOnce == IsInjective(agTable) /\ Len(agTable) <= AgCapacity

\* The three together; and a component is restarted at most max_restarts times
\* in the life of the program.
AgentOrderly ==
    /\ QuietAfterSignal /\ KeepsItsComponents /\ TableOnce
    /\ \A i \in AgComponents : agComps[i].failure_count <= AgMaxRestarts[i]

=============================================================================
