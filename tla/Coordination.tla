---------------------------- MODULE Coordination ----------------------------
(***************************************************************************)
(* Two users of etcd that have a thread of their own.                      *)
(*   - internal/ha/ha_manager.c: managers that write their name to the     *)
(*     election key.  The write carries no comparison and no lease         *)
(*     (ha_manager.c:244, :274), so that it succeeds whenever etcd answers *)
(*     and several managers can be leader at once; what the model checks   *)
(*     is that a manager that is cut off stops leading.                    *)
(*   - internal/etcd/etcd_manager.c: the client of the process, its mutex, *)
(*     its health-check thread, and callers that use the client after they *)
(*     released the mutex.                                                 *)
(***************************************************************************)
EXTENDS Integers, FiniteSets

CONSTANTS
    HaManagers,
    HaTransitions,   \* bound: leadership_transitions
    EmCallers,       \* threads that read and write through the manager
    EmErrors         \* bound: errors counted

ASSUME CoAssumption == HaTransitions \in Nat /\ EmErrors \in Nat

VARIABLES
    haMgr,       \* manager -> [status, running, pc, sampled, wrote, transitions]
    haKey,       \* external: who wrote the election key last
    haUp,        \* external: etcd answers
    emInit,      \* g_initialized
    emClient,    \* g_etcd_client: "none", "live" or "freed"
    emRunning,   \* g_health_check_running
    emThread,    \* the health-check thread: "off", "test", "asleep" or "report"
    emOwner,     \* the thread that starts and ends the program
    emMutex,     \* who holds g_manager_mutex
    emPc,        \* caller -> what it is doing
    emStats,     \* g_stats: [errors, message]
    emBroken     \* a freed client was used: anything may follow, nothing does here

haVars == <<haMgr, haKey, haUp>>
emVars == <<emInit, emClient, emRunning, emThread, emOwner, emMutex, emPc, emStats, emBroken>>

---------------------------------------------------------------------------
(* internal/ha/ha_manager.c.                                               *)

ha_manager_new ==
    [status |-> "FOLLOWER", running |-> FALSE, pc |-> "off", sampled |-> FALSE,
     wrote |-> FALSE, transitions |-> 0]

SetMgr(m, r) == haMgr' = [haMgr EXCEPT ![m] = r]

\* The request reaches etcd or not, and so does the answer the sender.
etcd_cas_write(m) ==
    \/ /\ haUp /\ haKey' = m
       /\ \E answered \in BOOLEAN : SetMgr(m, [haMgr[m] EXCEPT !.pc = "answer", !.wrote = answered])
    \/ /\ SetMgr(m, [haMgr[m] EXCEPT !.pc = "answer", !.wrote = FALSE]) /\ UNCHANGED haKey

ElectionSamples(m) ==
    /\ haMgr[m].pc = "top"
    /\ SetMgr(m, IF haMgr[m].running
                 THEN [haMgr[m] EXCEPT !.pc = "write", !.sampled = (haMgr[m].status = "LEADER")]
                 ELSE [haMgr[m] EXCEPT !.pc = "off"])
    /\ UNCHANGED <<haKey, haUp>>

ElectionWrites(m) == haMgr[m].pc = "write" /\ etcd_cas_write(m) /\ UNCHANGED haUp

\* Mutation: a renewal that failed leaves the leader what it was.
ElectionDecides_keeps(m) ==
    LET r == haMgr[m]
    IN  /\ r.pc = "answer"
        /\ SetMgr(m, IF ~r.sampled /\ r.wrote
                     THEN [r EXCEPT !.pc = "top", !.status = "LEADER",
                                    !.transitions = IF @ < HaTransitions THEN @ + 1 ELSE @]
                     ELSE [r EXCEPT !.pc = "top"])
        /\ UNCHANGED <<haKey, haUp>>

\* What was sampled decides, whatever the status is by now.
ElectionDecides(m) ==
    LET r == haMgr[m]
    IN  /\ r.pc = "answer"
        /\ SetMgr(m, CASE r.sampled /\ ~r.wrote -> [r EXCEPT !.pc = "top", !.status = "FOLLOWER"]
                       [] ~r.sampled /\ r.wrote ->
                             [r EXCEPT !.pc = "top", !.status = "LEADER",
                                       !.transitions = IF @ < HaTransitions THEN @ + 1 ELSE @]
                       [] OTHER -> [r EXCEPT !.pc = "top"])
        /\ UNCHANGED <<haKey, haUp>>

ha_election_thread(m) == ElectionSamples(m) \/ ElectionWrites(m) \/ ElectionDecides(m)

\* pthread_create may fail, and leaves the manager as it was.
ha_manager_start(m) ==
    /\ ~haMgr[m].running /\ haMgr[m].pc = "off"
    /\ SetMgr(m, [haMgr[m] EXCEPT !.running = TRUE, !.pc = "top", !.transitions = 0])
    /\ UNCHANGED <<haKey, haUp>>

\* The status is not touched: a manager that is stopped as leader says so.
ha_manager_stop(m) ==
    /\ haMgr[m].running /\ SetMgr(m, [haMgr[m] EXCEPT !.running = FALSE])
    /\ UNCHANGED <<haKey, haUp>>

ha_manager_step_down(m) ==
    /\ haMgr[m].status = "LEADER" /\ SetMgr(m, [haMgr[m] EXCEPT !.status = "FOLLOWER"])
    /\ UNCHANGED <<haKey, haUp>>

ha_manager_force_election(m) == ha_manager_step_down(m)

ha_manager_get_status(m) == haMgr[m].status
ha_manager_is_leader(m) == ha_manager_get_status(m) = "LEADER"

\* The names are never filled in: only the transitions are.
ha_manager_get_leader_info(m) == haMgr[m].transitions

EtcdReach == haUp' = ~haUp /\ UNCHANGED <<haMgr, haKey>>

HaInit == haMgr = [m \in HaManagers |-> ha_manager_new] /\ haKey = "none" /\ haUp \in BOOLEAN

HaNext ==
    \/ EtcdReach
    \/ \E m \in HaManagers : \/ ha_manager_start(m) \/ ha_manager_stop(m)
                             \/ ha_manager_force_election(m) \/ ha_election_thread(m)

\* A manager that runs and never reaches etcd again ends as a follower, and
\* stays one: the renewal that fails takes the leadership away, also when the
\* answer before it was lost (ha_manager.c:248).
CutOffLeaderStepsDown ==
    \A m \in HaManagers : <>[](~haUp /\ haMgr[m].running) => <>[](~ha_manager_is_leader(m))

---------------------------------------------------------------------------
(* internal/etcd/etcd_manager.c.                                           *)

EmFree == emMutex = "free"

\* One critical section without anything else inside.
Inside(changed) == EmFree /\ ~emBroken /\ UNCHANGED emMutex /\ changed

etcd_manager_init ==
    /\ emOwner = "idle"
    /\ Inside(IF emInit THEN UNCHANGED <<emInit, emClient, emRunning, emThread>>
              ELSE /\ emInit' = TRUE /\ emClient' = "live"
                   /\ \/ emRunning' = TRUE /\ emThread' = "test"
                      \/ emRunning' = FALSE /\ UNCHANGED emThread)
    /\ UNCHANGED <<emOwner, emPc, emStats, emBroken>>

\* Mutation: the mutex is held while the thread is waited for.
ShutdownStarts_holding ==
    /\ emOwner = "idle" /\ emInit /\ EmFree /\ ~emBroken
    /\ emRunning' = FALSE /\ emOwner' = "join" /\ emMutex' = "owner"
    /\ UNCHANGED <<emInit, emClient, emThread, emPc, emStats, emBroken>>

\* The thread is told to end, and the mutex is released while it is waited for.
ShutdownStarts ==
    /\ emOwner = "idle" /\ emInit /\ EmFree /\ ~emBroken
    /\ emRunning' = FALSE /\ emOwner' = "join" /\ UNCHANGED emMutex
    /\ UNCHANGED <<emInit, emClient, emThread, emPc, emStats, emBroken>>

\* The thread has ended; the client is freed, also under a caller's feet.
ShutdownEnds ==
    /\ emOwner = "join" /\ emThread = "off" /\ (EmFree \/ emMutex = "owner") /\ ~emBroken
    /\ emClient' = "freed" /\ emInit' = FALSE /\ emOwner' = "idle" /\ emMutex' = "free"
    /\ UNCHANGED <<emRunning, emThread, emPc, emStats, emBroken>>

etcd_manager_shutdown == ShutdownStarts \/ ShutdownEnds

Failed == [errors |-> IF emStats.errors < EmErrors THEN emStats.errors + 1 ELSE emStats.errors,
           message |-> TRUE]

\* The loop tests two variables without the mutex and sleeps; etcd is healthy
\* or not; the message is written under the mutex.
etcd_manager_health_check_loop ==
    /\ ~emBroken
    /\ \/ /\ emThread = "test"
          /\ emThread' = IF emRunning /\ emClient = "live" THEN "asleep" ELSE "off"
          /\ UNCHANGED emStats
       \/ emThread = "asleep" /\ emThread' \in {"test", "report"} /\ UNCHANGED emStats
       \/ /\ emThread = "report" /\ EmFree /\ emThread' = "test"
          /\ emStats' = [emStats EXCEPT !.message = TRUE]
    /\ UNCHANGED <<emInit, emClient, emRunning, emOwner, emMutex, emPc, emBroken>>

Caller(t, pc) == emPc' = [emPc EXCEPT ![t] = pc]

\* An operation is refused before etcd_manager_init and after the shutdown.
Begin(t, op) ==
    /\ emPc[t] = "idle" /\ EmFree /\ ~emBroken /\ emInit /\ Caller(t, op)
    /\ UNCHANGED <<emInit, emClient, emRunning, emThread, emOwner, emMutex, emStats, emBroken>>

etcd_manager_put(t)    == Begin(t, "put")
etcd_manager_get(t)    == Begin(t, "get")
etcd_manager_delete(t) == Begin(t, "delete")
etcd_manager_list(t)   == Begin(t, "list")
etcd_manager_patch(t)  == Begin(t, "patch")
etcd_manager_wait_for_ready(t) == Begin(t, "wait")

\* Answers that are no errors of the manager.
Expected(op) == CASE op = "get" -> {"ETCD_OK", "ETCD_NOT_FOUND"}
                  [] op = "patch" -> {"ETCD_OK", "ETCD_CAS_FAILED"}
                  [] OTHER -> {"ETCD_OK"}

\* The client is used without the mutex.
ClientAnswers(t, status) ==
    /\ emPc[t] \in {"put", "get", "delete", "list", "patch"} /\ ~emBroken
    /\ IF emClient = "live"
       THEN Caller(t, IF status \in Expected(emPc[t]) THEN "idle" ELSE "error") /\ UNCHANGED emBroken
       ELSE emBroken' = TRUE /\ UNCHANGED emPc
    /\ UNCHANGED <<emInit, emClient, emRunning, emThread, emOwner, emMutex, emStats>>

\* Polls until etcd is healthy or the time is over.
ReadyAnswers(t) ==
    /\ emPc[t] = "wait" /\ ~emBroken
    /\ IF emClient = "live" THEN Caller(t, "idle") /\ UNCHANGED emBroken
                            ELSE emBroken' = TRUE /\ UNCHANGED emPc
    /\ UNCHANGED <<emInit, emClient, emRunning, emThread, emOwner, emMutex, emStats>>

CountError(t) ==
    /\ emPc[t] = "error" /\ Inside(emStats' = Failed) /\ Caller(t, "idle")
    /\ UNCHANGED <<emInit, emClient, emRunning, emThread, emOwner, emBroken>>

etcd_manager_reset_stats ==
    /\ Inside(emStats' = [errors |-> 0, message |-> FALSE])
    /\ UNCHANGED <<emInit, emClient, emRunning, emThread, emOwner, emPc, emBroken>>

\* Asks etcd under the mutex, so that the client cannot be freed meanwhile.
etcd_manager_trigger_health_check ==
    /\ Inside(emInit /\ emStats' \in {emStats, [emStats EXCEPT !.message = TRUE]})
    /\ UNCHANGED <<emInit, emClient, emRunning, emThread, emOwner, emPc, emBroken>>

etcd_manager_is_initialized == emInit
etcd_manager_is_healthy == emInit /\ emClient = "live"
etcd_manager_get_stats == emStats
etcd_manager_get_client == emClient

EmInit ==
    /\ emInit = FALSE /\ emClient = "none" /\ emRunning = FALSE /\ emThread = "off"
    /\ emOwner = "idle" /\ emMutex = "free" /\ emPc = [t \in EmCallers |-> "idle"]
    /\ emStats = [errors |-> 0, message |-> FALSE] /\ emBroken = FALSE

Statuses == {"ETCD_OK", "ETCD_NOT_FOUND", "ETCD_CAS_FAILED", "ETCD_UNAVAILABLE"}

EmNext ==
    \/ etcd_manager_init \/ etcd_manager_shutdown \/ etcd_manager_health_check_loop
    \/ etcd_manager_reset_stats \/ etcd_manager_trigger_health_check
    \/ \E t \in EmCallers :
          \/ etcd_manager_put(t) \/ etcd_manager_get(t) \/ etcd_manager_delete(t)
          \/ etcd_manager_list(t) \/ etcd_manager_patch(t) \/ etcd_manager_wait_for_ready(t)
          \/ (\E s \in Statuses : ClientAnswers(t, s)) \/ ReadyAnswers(t) \/ CountError(t)

\* The program can end: a shutdown that was begun is completed, because the
\* health-check thread gets the mutex it may need before it looks at the flag
\* again (etcd_manager.c:127).
ManagerShutdownReturns == emOwner = "join" ~> (emOwner = "idle" \/ emBroken)

\* While the manager is initialised its client exists, unless it is being shut
\* down, and the health-check thread never runs without a client.
ClientWhileInitialised ==
    /\ emInit => emClient = "live"
    /\ emThread # "off" => emClient = "live"

=============================================================================
