-------------------------- MODULE GracefulShutdown --------------------------
(***************************************************************************)
(* The shutdown manager of internal/shutdown/graceful_shutdown.c: worker   *)
(* threads count their requests in and out, a signal makes some thread run *)
(* the registered handlers, and the main thread waits for the requests to  *)
(* drain.                                                                  *)
(*                                                                         *)
(* A signal is handled ON a thread, wherever that thread is, and its       *)
(* handler takes two mutexes; until it returns, the thread does nothing    *)
(* else.  sa_mask is empty, so the other signal may arrive in the handler. *)
(***************************************************************************)
EXTENDS Integers, Sequences, FiniteSets

CONSTANTS
    Workers,
    GracePeriod, ForceTimeout,  \* config.grace_period_seconds, force_timeout_seconds
    MaxHandlers,                \* bound: handlers registered
    MaxSignals                  \* bound: signals sent

Main    == "main"
Nobody  == "nobody"
Threads == Workers \cup {Main}

ASSUME ShutdownAssumption ==
    /\ {Main, Nobody} \cap Workers = {}
    /\ {GracePeriod, ForceTimeout, MaxHandlers, MaxSignals} \subseteq Nat

VARIABLES
    state,             \* manager->state
    mutex, g_lock,     \* holders of manager->mutex and g_manager_lock
    active_requests, handler_count,
    pc,                \* thread -> where it is
    sig,               \* thread -> where its signal handler is: [at, i]
    elapsed,           \* seconds since shutdown_manager_wait started
    sent,              \* signals sent
    called             \* history: the handlers called, by number

shVars == <<state, mutex, g_lock, active_requests, handler_count, pc, sig, elapsed,
            sent, called>>
counts == <<active_requests, handler_count>>

None == [at |-> "none", i |-> 0]

\* shutdown_manager_new.
ShInit ==
    /\ state = "RUNNING" /\ mutex = Nobody /\ g_lock = Nobody
    /\ active_requests = 0 /\ handler_count = 0
    /\ pc = [t \in Threads |-> IF t = Main THEN "setup" ELSE "idle"]
    /\ sig = [t \in Threads |-> None]
    /\ elapsed = 0 /\ sent = 0 /\ called = <<>>

At(t, p) == pc[t] = p /\ sig[t].at = "none"
Jump(t, p) == pc' = [pc EXCEPT ![t] = p]
SigJump(t, at, i) == sig' = [sig EXCEPT ![t] = [at |-> at, i |-> i]]
Lock(t) == mutex = Nobody /\ mutex' = t
Unlock == mutex' = Nobody

---------------------------------------------------------------------------
(* Requests.  Each function is its lock and the rest.                      *)

RequestLock(t) ==
    /\ t \in Workers
    /\ \/ At(t, "idle") /\ Jump(t, "start")
       \/ At(t, "serving") /\ Jump(t, "end")
    /\ Lock(t)
    /\ UNCHANGED <<state, g_lock, counts, sig, elapsed, sent, called>>

shutdown_manager_request_start(t) ==
    /\ At(t, "start") /\ Jump(t, "serving") /\ Unlock
    /\ active_requests' = active_requests + 1
    /\ UNCHANGED <<state, g_lock, handler_count, sig, elapsed, sent, called>>

\* Mutation: the counter is not decremented when it is 1.
shutdown_manager_request_end_KeepsLast(t) ==
    /\ At(t, "end") /\ Jump(t, "idle") /\ Unlock
    /\ active_requests' = IF active_requests > 1 THEN active_requests - 1 ELSE active_requests
    /\ UNCHANGED <<state, g_lock, handler_count, sig, elapsed, sent, called>>

shutdown_manager_request_end(t) ==
    /\ At(t, "end") /\ Jump(t, "idle") /\ Unlock
    /\ active_requests' = IF active_requests > 0 THEN active_requests - 1 ELSE 0
    /\ UNCHANGED <<state, g_lock, handler_count, sig, elapsed, sent, called>>

---------------------------------------------------------------------------
(* Signals and shutdown_manager_initiate.                                  *)

\* SIGTERM or SIGINT, once the handlers are set up.
Signal(t) ==
    /\ pc[Main] # "setup" /\ sig[t].at = "none" /\ sent < MaxSignals
    /\ sent' = sent + 1 /\ SigJump(t, "glock", 0)
    /\ UNCHANGED <<state, mutex, g_lock, counts, pc, elapsed, called>>

\* The other signal interrupts the handler, which holds g_manager_lock and may
\* hold manager->mutex: the second handler waits for the first, for ever.  (One
\* that is still waiting for g_manager_lock waits with it; that is as if it
\* had not come.)
SignalAgain(t) ==
    /\ sig[t].at \in {"initiate", "count", "call"} /\ sent < MaxSignals
    /\ sent' = sent + 1 /\ SigJump(t, "stuck", 0)
    /\ UNCHANGED mutex \/ (mutex = Nobody /\ mutex' = t)
    /\ UNCHANGED <<state, g_lock, counts, pc, elapsed, called>>

signal_handler(t) ==
    /\ sig[t].at = "glock" /\ g_lock = Nobody
    /\ g_lock' = t /\ SigJump(t, "initiate", 0)
    /\ UNCHANGED <<state, mutex, counts, pc, elapsed, sent, called>>

SignalReturns(t) == g_lock' = Nobody /\ SigJump(t, "none", 0)

\* Mutation: a second call starts the handlers again.
shutdown_manager_initiate_Again(t) ==
    /\ sig[t].at = "initiate" /\ mutex = Nobody
    /\ state' = "SHUTTING_DOWN" /\ SigJump(t, "count", 0) /\ UNCHANGED g_lock
    /\ UNCHANGED <<mutex, counts, pc, elapsed, sent, called>>

shutdown_manager_initiate(t) ==
    /\ sig[t].at = "initiate" /\ mutex = Nobody
    /\ \/ /\ state = "RUNNING"
          /\ state' = "SHUTTING_DOWN" /\ SigJump(t, "count", 0) /\ UNCHANGED g_lock
       \/ state = "SHUTTING_DOWN" /\ SignalReturns(t) /\ UNCHANGED state
    /\ UNCHANGED <<mutex, counts, pc, elapsed, sent, called>>

\* Mutation: the loop starts one handler too low.
ReadCount_OffByOne(t) ==
    /\ sig[t].at = "count" /\ mutex = Nobody
    /\ SigJump(t, "call", IF handler_count = 0 THEN 0 ELSE handler_count - 1)
    /\ UNCHANGED <<state, mutex, g_lock, counts, pc, elapsed, sent, called>>

\* handler_count is read in a critical section of its own.
ReadCount(t) ==
    /\ sig[t].at = "count" /\ mutex = Nobody
    /\ SigJump(t, "call", handler_count)
    /\ UNCHANGED <<state, mutex, g_lock, counts, pc, elapsed, sent, called>>

CallHandler(t) ==
    /\ sig[t].at = "call"
    /\ \/ /\ sig[t].i > 0 /\ mutex = Nobody
          /\ called' = Append(called, sig[t].i)
          /\ SigJump(t, "call", sig[t].i - 1) /\ UNCHANGED g_lock
       \/ sig[t].i = 0 /\ SignalReturns(t) /\ UNCHANGED called
    /\ UNCHANGED <<state, mutex, counts, pc, elapsed, sent>>

SignalStep(t) ==
    signal_handler(t) \/ shutdown_manager_initiate(t) \/ ReadCount(t) \/ CallHandler(t)

---------------------------------------------------------------------------
(* The main thread.                                                        *)

shutdown_manager_register_handler ==
    /\ At(Main, "setup") /\ mutex = Nobody /\ handler_count < MaxHandlers
    /\ handler_count' = handler_count + 1
    /\ UNCHANGED <<state, mutex, g_lock, active_requests, pc, sig, elapsed, sent, called>>

shutdown_manager_setup_signal_handlers ==
    /\ At(Main, "setup") /\ g_lock = Nobody
    /\ Jump(Main, "serve")
    /\ UNCHANGED <<state, mutex, g_lock, counts, sig, elapsed, sent, called>>

\* shutdown_manager_is_shutting_down answers true and main waits.
WaitLock ==
    /\ At(Main, "serve") /\ state = "SHUTTING_DOWN"
    /\ Lock(Main) /\ Jump(Main, "test")
    /\ UNCHANGED <<state, g_lock, counts, sig, elapsed, sent, called>>

\* Mutation: one request under way counts as drained.
Drained_ButOne == active_requests <= 1

Drained == active_requests = 0

\* The loop: drained, a deadline has passed, or wait for a second.
shutdown_manager_wait ==
    /\ At(Main, "test") /\ Unlock
    /\ \/ Drained /\ Jump(Main, "drained")
       \/ /\ ~Drained /\ (elapsed >= ForceTimeout \/ elapsed >= GracePeriod)
          /\ Jump(Main, "expired")
       \/ /\ ~Drained /\ elapsed < ForceTimeout /\ elapsed < GracePeriod
          /\ Jump(Main, "wait")
    /\ UNCHANGED <<state, g_lock, counts, sig, elapsed, sent, called>>

\* pthread_cond_timedwait returns with the mutex, after a second at the latest:
\* sooner when all_requests_done is signalled, or spuriously.
Wake ==
    /\ At(Main, "wait") /\ Lock(Main) /\ Jump(Main, "test")
    /\ UNCHANGED <<state, g_lock, counts, sig, elapsed, sent, called>>

MainStep == shutdown_manager_wait \/ WaitLock \/ Wake

\* A second passes; later ones make no difference.
Second ==
    /\ pc[Main] \in {"test", "wait"} /\ elapsed < GracePeriod /\ elapsed < ForceTimeout
    /\ elapsed' = elapsed + 1
    /\ UNCHANGED <<state, mutex, g_lock, counts, pc, sig, sent, called>>

ShNext ==
    \/ \E t \in Workers : \/ RequestLock(t)
                          \/ shutdown_manager_request_start(t) \/ shutdown_manager_request_end(t)
    \/ \E t \in Threads : Signal(t) \/ SignalAgain(t) \/ SignalStep(t)
    \/ shutdown_manager_register_handler \/ shutdown_manager_setup_signal_handlers
    \/ MainStep \/ Second

\* Threads that hold a mutex go on, and the mutexes are granted fairly.
\* Requests need not end.
ShFairness ==
    /\ SF_shVars(MainStep) /\ WF_shVars(Second)
    /\ \A t \in Threads : SF_shVars(SignalStep(t))
    /\ \A t \in Workers : WF_shVars(shutdown_manager_request_start(t)
                                    \/ shutdown_manager_request_end(t))

ShSpec == ShInit /\ [][ShNext]_shVars /\ ShFairness

---------------------------------------------------------------------------
(* Properties.                                                             *)

\* Types, and active_requests is the number of requests under way.
ShTypeOK ==
    /\ state \in {"RUNNING", "SHUTTING_DOWN"} /\ elapsed \in 0 .. GracePeriod
    /\ mutex \in Threads \cup {Nobody} /\ g_lock \in Threads \cup {Nobody}
    /\ active_requests = Cardinality({t \in Workers : pc[t] \in {"serving", "end"}})

\* However many signals arrive on however many threads, each handler is called
\* at most once, in reverse order of registration.
HandlersInReverse == \A i, j \in 1 .. Len(called) : i < j => called[i] > called[j]

\* shutdown_manager_wait reports success only when no request is under way.
DrainedIsDrained ==
    [][pc'[Main] = "drained" /\ pc[Main] # "drained"
          => \A t \in Workers : pc[t] \notin {"serving", "end"}]_shVars

\* A signal interrupted a thread that holds a mutex of the manager: its handler
\* waits for that thread for ever.
SelfLocked ==
    \/ mutex # Nobody /\ sig[mutex].at # "none"
    \/ \E t \in Threads : sig[t].at = "stuck"

\* Once initiated, a shutdown calls every handler and the wait for requests
\* ends, unless a signal came to a thread inside the manager.
ShutdownCompletes ==
    /\ state = "SHUTTING_DOWN" ~> (pc[Main] \in {"drained", "expired"} \/ SelfLocked)
    /\ state = "SHUTTING_DOWN" ~> (Len(called) = handler_count \/ SelfLocked)

\* Handlers run in reverse, and the wait ends as drained only with no request left (ShTypeOK,
\* HandlersInReverse, DrainedIsDrained).
ShutdownOrderly == [](ShTypeOK /\ HandlersInReverse) /\ DrainedIsDrained

=============================================================================
