--------------------------- MODULE CircuitBreaker ---------------------------
(***************************************************************************)
(* The circuit breaker of internal/resilience/circuit_breaker.c, shared by *)
(* threads that ask it before a request and report the result afterwards.  *)
(* Each function holds cb->mutex throughout, so each is one step; but a    *)
(* request spans two of them, and the breaker may have changed its state   *)
(* in between.                                                             *)
(*                                                                         *)
(* Time is kept as the seconds left until next_retry_time.  rand() % 21 -  *)
(* 10 is stored in an unsigned variable, so the jitter only ever adds.     *)
(***************************************************************************)
EXTENDS Integers, FiniteSets

CONSTANTS
    Requesters,          \* threads
    FailureThreshold, SuccessThreshold, MaxHalfOpen, TimeoutSeconds,
    InitialMs, MaxMs, UseBackoff,
    UintMax,             \* the largest value of uint32_t
    MaxFailures          \* bound: consecutive failures counted

ASSUME BreakerAssumption ==
    /\ IsFiniteSet(Requesters) /\ UintMax \in Nat
    /\ {FailureThreshold, SuccessThreshold, MaxHalfOpen} \subseteq 1 .. UintMax
    /\ {TimeoutSeconds, InitialMs, MaxMs, MaxFailures} \subseteq Nat
    /\ UseBackoff \in BOOLEAN

VARIABLES
    cb,        \* the breaker
    busy,      \* threads that were allowed a request and have not reported
    probes     \* history: those of them let through since it was last half-opened

cbVars == <<cb, busy, probes>>

Breaker(state, failures, retry_in, requests, successes) ==
    [state |-> state, consecutive_failures |-> failures, retry_in |-> retry_in,
     half_open_requests |-> requests, half_open_successes |-> successes]

\* circuit_breaker_new and circuit_breaker_reset.
New == Breaker("CLOSED", 0, 0, 0, 0)

CbInit == cb = New /\ busy = {} /\ probes = {}

\* initial_backoff_ms doubled, capped at max_backoff_ms; a value above the cap
\* is not doubled.
Doubled[n \in Nat] ==
    IF n = 0 THEN InitialMs
    ELSE LET b == Doubled[n - 1]
         IN  IF b >= MaxMs THEN b ELSE IF 2 * b > MaxMs THEN MaxMs ELSE 2 * b

\* The results calculate_exponential_backoff may give, in ms.
calculate_exponential_backoff(failures) ==
    IF ~UseBackoff THEN {0}
    ELSE {IF b > MaxMs THEN MaxMs ELSE b :
             b \in {Doubled[failures] + (Doubled[failures] * j) \div 100 : j \in 0 .. 10}}

Dec(n) == IF n = 0 THEN UintMax ELSE n - 1

---------------------------------------------------------------------------

\* Mutation: a half-open breaker lets everything through.
AllowHalfOpen_NoLimit(t) ==
    /\ cb.state = "HALF_OPEN"
    /\ cb' = Breaker("HALF_OPEN", cb.consecutive_failures, cb.retry_in,
                     (cb.half_open_requests + 1) % (UintMax + 1), cb.half_open_successes)
    /\ probes' = probes \cup {t}

AllowClosed(t) ==
    cb.state = "CLOSED" /\ UNCHANGED <<cb, probes>>

\* Mutation: an open breaker is probed before next_retry_time.
AllowOpen_Early(t) ==
    /\ cb.state = "OPEN"
    /\ cb' = Breaker("HALF_OPEN", cb.consecutive_failures, cb.retry_in, 1, 0)
    /\ probes' = {t}

\* next_retry_time has come: the first probe.
AllowOpen(t) ==
    /\ cb.state = "OPEN" /\ cb.retry_in = 0
    /\ cb' = Breaker("HALF_OPEN", cb.consecutive_failures, 0, 1, 0)
    /\ probes' = {t}

AllowHalfOpen(t) ==
    /\ cb.state = "HALF_OPEN" /\ cb.half_open_requests < MaxHalfOpen
    /\ cb' = Breaker("HALF_OPEN", cb.consecutive_failures, cb.retry_in,
                     cb.half_open_requests + 1, cb.half_open_successes)
    /\ probes' = probes \cup {t}

circuit_breaker_allow_request(t) ==
    /\ t \notin busy /\ busy' = busy \cup {t}
    /\ AllowClosed(t) \/ AllowOpen(t) \/ AllowHalfOpen(t)

Done(t) == t \in busy /\ busy' = busy \ {t}

\* Mutation: it takes one more success than success_threshold to close.
Closes_OneMore == cb.half_open_successes >= SuccessThreshold

\* This success is the last one needed.
Closes == cb.half_open_successes + 1 >= SuccessThreshold

circuit_breaker_record_success(t) ==
    /\ Done(t)
    /\ \/ /\ cb.state = "CLOSED"
          /\ cb' = Breaker("CLOSED", 0, cb.retry_in, cb.half_open_requests, cb.half_open_successes)
          /\ UNCHANGED probes
       \/ cb.state = "OPEN" /\ UNCHANGED <<cb, probes>>
       \/ /\ cb.state = "HALF_OPEN" /\ Closes
          /\ cb' = Breaker("CLOSED", 0, cb.retry_in, 0, 0)
          /\ probes' = {}
       \/ /\ cb.state = "HALF_OPEN" /\ ~Closes
          /\ cb' = Breaker("HALF_OPEN", cb.consecutive_failures, cb.retry_in,
                           Dec(cb.half_open_requests), cb.half_open_successes + 1)
          /\ probes' = probes \ {t}

\* Mutation: the breaker opens one failure late.
FailClosed_Late(n) ==
    /\ cb.state = "CLOSED"
    /\ cb' = Breaker(IF n > FailureThreshold THEN "OPEN" ELSE "CLOSED", n,
                     IF n > FailureThreshold THEN TimeoutSeconds ELSE cb.retry_in,
                     cb.half_open_requests, cb.half_open_successes)
    /\ UNCHANGED probes

FailClosed(n) ==
    /\ cb.state = "CLOSED"
    /\ cb' = IF n >= FailureThreshold
             THEN Breaker("OPEN", n, TimeoutSeconds, cb.half_open_requests, cb.half_open_successes)
             ELSE Breaker("CLOSED", n, cb.retry_in, cb.half_open_requests, cb.half_open_successes)
    /\ UNCHANGED probes

FailOpen(n) ==
    /\ cb.state = "OPEN"
    /\ cb' = Breaker("OPEN", n, cb.retry_in, cb.half_open_requests, cb.half_open_successes)
    /\ UNCHANGED probes

FailHalfOpen(n) ==
    /\ cb.state = "HALF_OPEN"
    /\ \E ms \in calculate_exponential_backoff(n) :
          cb' = Breaker("OPEN", n, ms \div 1000, 0, 0)
    /\ probes' = {}

circuit_breaker_record_failure(t) ==
    LET n == cb.consecutive_failures + 1
    IN  /\ Done(t) /\ n <= MaxFailures
        /\ FailClosed(n) \/ FailOpen(n) \/ FailHalfOpen(n)

circuit_breaker_reset ==
    /\ cb' = New /\ probes' = {}
    /\ UNCHANGED busy

\* A second passes.
Tick ==
    /\ cb.retry_in > 0
    /\ cb' = Breaker(cb.state, cb.consecutive_failures, cb.retry_in - 1,
                     cb.half_open_requests, cb.half_open_successes)
    /\ UNCHANGED <<busy, probes>>

Request(t) == circuit_breaker_allow_request(t) \/ circuit_breaker_record_success(t)

CbNext ==
    \/ \E t \in Requesters : Request(t) \/ circuit_breaker_record_failure(t)
    \/ circuit_breaker_reset \/ Tick

\* Threads keep making requests, which end, and time passes.
CbFairness ==
    /\ WF_cbVars(Tick)
    /\ \A t \in Requesters : WF_cbVars(circuit_breaker_record_success(t))
                             /\ SF_cbVars(circuit_breaker_allow_request(t))

CbSpec == CbInit /\ [][CbNext]_cbVars /\ CbFairness

---------------------------------------------------------------------------
(* Properties.                                                             *)

\* Types; only threads with a request are probes; and a breaker that is not
\* open has no time left to wait.
CbTypeOK ==
    /\ cb.state \in {"CLOSED", "OPEN", "HALF_OPEN"}
    /\ cb.half_open_requests \in 0 .. UintMax
    /\ probes \subseteq busy /\ busy \subseteq Requesters
    /\ cb.state # "OPEN" => cb.retry_in = 0

\* The breaker is not closed exactly when failure_threshold failures have been
\* counted since a success closed it or was seen by it closed.
TrippedAtThreshold == cb.state = "CLOSED" <=> cb.consecutive_failures < FailureThreshold

\* A half-open breaker with no request under way lets one through: otherwise
\* nothing but a reset would ever change it.
HalfOpenAdmits ==
    cb.state = "HALF_OPEN" /\ busy = {} => cb.half_open_requests < MaxHalfOpen

\* Results of requests from before the breaker opened free places they never
\* took: more probes than max_half_open_requests may be under way, but at most
\* one more for every success short of success_threshold.
ProbesBounded == Cardinality(probes) <= MaxHalfOpen + SuccessThreshold - 1

\* When requests stop failing, the breaker closes, however it got where it is.
ClosesWhenServiceRecovers ==
    (<>[][\A t \in Requesters : ~circuit_breaker_record_failure(t)]_cbVars)
        => []<>(cb.state = "CLOSED")

\* What the breaker decides from its counters, whatever stale results are reported: it is
\* closed below the threshold, a half-open one admits a probe and never too many
\* (TrippedAtThreshold, HalfOpenAdmits, ProbesBounded).
BreakerDecides == TrippedAtThreshold /\ HalfOpenAdmits /\ ProbesBounded

=============================================================================
