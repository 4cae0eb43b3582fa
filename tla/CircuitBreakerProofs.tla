------------------------ MODULE CircuitBreakerProofs ------------------------
(***************************************************************************)
(* The circuit breaker opens at its threshold, bounds its probes and, when *)
(* it closes after at most two successes, never stays half-open for ever:  *)
(* for every number of threads and every configuration.                    *)
(***************************************************************************)
EXTENDS CircuitBreaker, FiniteSetTheorems, TLAPS

\* The counters of a breaker in state s with n failures, q half-open requests and
\* k half-open successes, and the set P of probes under way.
Counted(s, n, q, k, P) ==
    /\ IsFiniteSet(P) /\ Cardinality(P) \in Nat
    /\ s \in {"CLOSED", "OPEN", "HALF_OPEN"} /\ n \in Nat /\ q \in 0 .. UintMax /\ k \in Nat
    /\ s = "CLOSED" <=> n < FailureThreshold
    /\ s # "HALF_OPEN" => P = {}
    /\ s = "HALF_OPEN" => /\ k < SuccessThreshold
                          /\ Cardinality(P) <= q + k /\ Cardinality(P) <= MaxHalfOpen + k

\* With two successes to close: before the first one each request is a probe; after
\* it, one result that was not a probe's may have been counted as one.
Exact(s, q, k, P) ==
    s = "HALF_OPEN" => /\ k = 0 => q = Cardinality(P) /\ P # {}
                       /\ k = 1 => q = Cardinality(P) \/ q = Cardinality(P) - 1

CbInv ==
    /\ Counted(cb.state, cb.consecutive_failures, cb.half_open_requests,
               cb.half_open_successes, probes)
    /\ probes \subseteq busy

ExactInv == Exact(cb.state, cb.half_open_requests, cb.half_open_successes, probes)

USE BreakerAssumption

\* What a step that makes the breaker Breaker(s, n, r, q, k) has to show.
LEMMA BreakerIs ==
    ASSUME NEW s, NEW n, NEW r, NEW q, NEW k, cb' = Breaker(s, n, r, q, k),
           Counted(s, n, q, k, probes'), probes' \subseteq busy',
           ExactInv /\ SuccessThreshold <= 2 => Exact(s, q, k, probes')
    PROVE  CbInv' /\ (ExactInv /\ SuccessThreshold <= 2 => ExactInv')
<1>1. /\ cb'.state = s /\ cb'.consecutive_failures = n
      /\ cb'.half_open_requests = q /\ cb'.half_open_successes = k
  BY DEF Breaker
<1>2. CbInv'
  BY <1>1 DEF CbInv
<1>3. ExactInv /\ SuccessThreshold <= 2 => ExactInv'
  BY <1>1 DEF ExactInv
<1> QED BY <1>2, <1>3

LEMMA NoProbes ==
    ASSUME NEW s \in {"CLOSED", "OPEN"}, NEW n \in Nat, NEW q \in 0 .. UintMax, NEW k \in Nat,
           s = "CLOSED" <=> n < FailureThreshold
    PROVE  Counted(s, n, q, k, {}) /\ Exact(s, q, k, {})
<1>1. IsFiniteSet({}) /\ Cardinality({}) = 0
  BY FS_EmptySet
<1>2. Counted(s, n, q, k, {})
  BY <1>1 DEF Counted
<1>3. Exact(s, q, k, {})
  BY DEF Exact
<1> QED BY <1>2, <1>3

LEMMA InitCounted == CbInit => CbInv /\ ExactInv
<1> SUFFICES ASSUME CbInit PROVE CbInv /\ ExactInv
  OBVIOUS
<1>1. /\ cb.state = "CLOSED" /\ cb.consecutive_failures = 0
      /\ cb.half_open_requests = 0 /\ cb.half_open_successes = 0 /\ probes = {} /\ busy = {}
  BY DEF CbInit, New, Breaker
<1>2. "CLOSED" \in {"CLOSED", "OPEN"} /\ 0 \in Nat /\ 0 \in 0 .. UintMax
      /\ ("CLOSED" = "CLOSED" <=> 0 < FailureThreshold)
  OBVIOUS
<1>3. Counted("CLOSED", 0, 0, 0, {}) /\ Exact("CLOSED", 0, 0, {})
  BY <1>2, NoProbes
<1> QED BY <1>1, <1>3 DEF CbInv, ExactInv

\* A request is let through.
LEMMA AllowCounted ==
    ASSUME CbInv, NEW t \in Requesters, circuit_breaker_allow_request(t)
    PROVE  CbInv' /\ (ExactInv /\ SuccessThreshold <= 2 => ExactInv')
<1> DEFINE n == cb.consecutive_failures
           q == cb.half_open_requests
           k == cb.half_open_successes
<1>1. t \notin probes /\ busy' = busy \cup {t} /\ probes \subseteq busy
  BY DEF circuit_breaker_allow_request, CbInv
<1>2. CASE AllowClosed(t)
  BY <1>1, <1>2 DEF AllowClosed, CbInv, ExactInv
<1>3. CASE AllowOpen(t)
  <2>1. IsFiniteSet({t}) /\ Cardinality({t}) = 1
    BY FS_Singleton, Zenon
  <2>2. n \in Nat /\ ~(n < FailureThreshold)
    BY <1>3 DEF AllowOpen, CbInv, Counted
  <2>3. Counted("HALF_OPEN", n, 1, 0, {t})
    BY <2>1, <2>2 DEF Counted
  <2>4. Exact("HALF_OPEN", 1, 0, {t})
    BY <2>1 DEF Exact
  <2> QED BY <1>1, <1>3, <2>3, <2>4, BreakerIs DEF AllowOpen
<1>4. CASE AllowHalfOpen(t)
  <2> DEFINE P == probes \cup {t}
  <2>1. /\ IsFiniteSet(probes) /\ Cardinality(probes) \in Nat /\ n \in Nat /\ q \in 0 .. UintMax
        /\ k \in Nat /\ ~(n < FailureThreshold) /\ k < SuccessThreshold /\ q < MaxHalfOpen
        /\ Cardinality(probes) <= q + k
    BY <1>4 DEF AllowHalfOpen, CbInv, Counted
  <2>2. IsFiniteSet(P) /\ Cardinality(P) = Cardinality(probes) + 1 /\ P # {}
    BY <1>1, <2>1, FS_AddElement
  <2>3. Counted("HALF_OPEN", n, q + 1, k, P)
    BY <2>1, <2>2 DEF Counted
  <2>4. ExactInv => Exact("HALF_OPEN", q + 1, k, P)
    BY <1>4, <2>1, <2>2 DEF ExactInv, Exact, AllowHalfOpen
  <2>5. P \subseteq busy'
    BY <1>1
  <2>6. cb' = Breaker("HALF_OPEN", n, cb.retry_in, q + 1, k) /\ probes' = P
    BY <1>4 DEF AllowHalfOpen
  <2> HIDE DEF P, n, q, k
  <2> QED BY <2>3, <2>4, <2>5, <2>6, BreakerIs
<1> QED BY <1>2, <1>3, <1>4 DEF circuit_breaker_allow_request

\* A success is reported, by a probe or by a request from before.
LEMMA SuccessCounted ==
    ASSUME CbInv, NEW t \in Requesters, circuit_breaker_record_success(t)
    PROVE  CbInv' /\ (ExactInv /\ SuccessThreshold <= 2 => ExactInv')
<1> DEFINE n == cb.consecutive_failures
           q == cb.half_open_requests
           k == cb.half_open_successes
<1>1. t \in busy /\ busy' = busy \ {t} /\ probes \subseteq busy
  BY DEF circuit_breaker_record_success, Done, CbInv
<1>2. /\ IsFiniteSet(probes) /\ Cardinality(probes) \in Nat /\ n \in Nat
      /\ q \in 0 .. UintMax /\ k \in Nat
  BY DEF CbInv, Counted
<1>3. "CLOSED" \in {"CLOSED", "OPEN"} /\ 0 \in Nat /\ 0 \in 0 .. UintMax
      /\ ("CLOSED" = "CLOSED" <=> 0 < FailureThreshold)
  OBVIOUS
<1>4. CASE /\ cb.state = "CLOSED" /\ cb' = Breaker("CLOSED", 0, cb.retry_in, q, k)
           /\ UNCHANGED probes
  <2>1. probes = {}
    BY <1>4 DEF CbInv, Counted
  <2>2. Counted("CLOSED", 0, q, k, {}) /\ Exact("CLOSED", q, k, {})
    BY <1>2, <1>3, NoProbes
  <2>3. probes' = {} /\ probes' \subseteq busy'
    BY <1>4, <2>1
  <2> HIDE DEF q, k
  <2> QED BY <1>4, <2>2, <2>3, BreakerIs
<1>5. CASE cb.state = "OPEN" /\ UNCHANGED <<cb, probes>>
  <2>1. probes = {}
    BY <1>5 DEF CbInv, Counted
  <2> QED BY <1>5, <2>1 DEF CbInv, ExactInv
<1>6. CASE cb' = Breaker("CLOSED", 0, cb.retry_in, 0, 0) /\ probes' = {}
  <2>1. Counted("CLOSED", 0, 0, 0, {}) /\ Exact("CLOSED", 0, 0, {})
    BY <1>3, NoProbes
  <2> QED BY <1>6, <2>1, BreakerIs
<1>7. CASE /\ cb.state = "HALF_OPEN" /\ ~Closes
           /\ cb' = Breaker("HALF_OPEN", n, cb.retry_in, Dec(q), k + 1)
           /\ probes' = probes \ {t}
  <2> DEFINE P == probes \ {t}
  <2>1. /\ ~(n < FailureThreshold) /\ k + 1 < SuccessThreshold
        /\ Cardinality(probes) <= q + k /\ Cardinality(probes) <= MaxHalfOpen + k
    BY <1>2, <1>7 DEF CbInv, Counted, Closes
  <2>2. /\ IsFiniteSet(P) /\ Cardinality(P) \in Nat
        /\ t \in probes => Cardinality(P) = Cardinality(probes) - 1
        /\ t \notin probes => Cardinality(P) = Cardinality(probes)
    <3>1. CASE t \in probes
      <4>1. /\ IsFiniteSet(P)
            /\ Cardinality(P) = IF t \in probes THEN Cardinality(probes) - 1 ELSE Cardinality(probes)
        BY <1>2, FS_RemoveElement
      <4>2. Cardinality(P) \in Nat
        BY <4>1, FS_CardinalityType
      <4> QED BY <3>1, <4>1, <4>2
    <3>2. CASE t \notin probes
      <4>1. P = probes
        BY <3>2
      <4> QED BY <1>2, <3>2, <4>1
    <3> QED BY <3>1, <3>2
  <2>3. Dec(q) \in 0 .. UintMax /\ Dec(q) = IF q = 0 THEN UintMax ELSE q - 1
    BY <1>2 DEF Dec
  <2>4. Cardinality(P) <= Dec(q) + (k + 1) /\ Cardinality(P) <= MaxHalfOpen + (k + 1)
    BY <1>2, <2>1, <2>2, <2>3
  <2>5. Counted("HALF_OPEN", n, Dec(q), k + 1, P)
    BY <1>2, <2>1, <2>2, <2>3, <2>4 DEF Counted
  <2>6. ExactInv /\ SuccessThreshold <= 2 => Exact("HALF_OPEN", Dec(q), k + 1, P)
    <3> SUFFICES ASSUME ExactInv, SuccessThreshold <= 2
                 PROVE  Exact("HALF_OPEN", Dec(q), k + 1, P)
      OBVIOUS
    <3>1. k = 0 /\ q = Cardinality(probes) /\ probes # {}
      BY <1>2, <1>7, <2>1 DEF ExactInv, Exact
    <3>2. q # 0
      BY <1>2, <3>1, FS_EmptySet
    <3> QED BY <1>2, <2>2, <2>3, <3>1, <3>2 DEF Exact
  <2>7. P \subseteq busy'
    BY <1>1
  <2> HIDE DEF P, n, q, k
  <2> QED BY <1>7, <2>5, <2>6, <2>7, BreakerIs DEF P
<1> QED BY <1>4, <1>5, <1>6, <1>7 DEF circuit_breaker_record_success

\* A failure is reported.
LEMMA FailureCounted ==
    ASSUME CbInv, NEW t \in Requesters, circuit_breaker_record_failure(t)
    PROVE  CbInv' /\ (ExactInv /\ SuccessThreshold <= 2 => ExactInv')
<1> DEFINE n == cb.consecutive_failures + 1
           q == cb.half_open_requests
           k == cb.half_open_successes
<1>1. busy' = busy \ {t} /\ probes \subseteq busy
  BY DEF circuit_breaker_record_failure, Done, CbInv
<1>2. n \in Nat /\ q \in 0 .. UintMax /\ k \in Nat
  BY DEF CbInv, Counted
<1>3. "CLOSED" \in {"CLOSED", "OPEN"} /\ "OPEN" \in {"CLOSED", "OPEN"} /\ 0 \in Nat
      /\ 0 \in 0 .. UintMax /\ ("CLOSED" = "CLOSED") = TRUE /\ ("OPEN" = "CLOSED") = FALSE
  OBVIOUS
<1>4. CASE FailClosed(n)
  <2>1. probes = {}
    BY <1>4 DEF FailClosed, CbInv, Counted
  <2>2. probes' = {} /\ probes' \subseteq busy'
    BY <1>4, <2>1 DEF FailClosed
  <2>3. CASE n >= FailureThreshold
    <3>1. Counted("OPEN", n, q, k, {}) /\ Exact("OPEN", q, k, {})
      BY <1>2, <1>3, <2>3, NoProbes
    <3>2. cb' = Breaker("OPEN", n, TimeoutSeconds, q, k)
      BY <1>4, <2>3 DEF FailClosed
    <3> HIDE DEF n, q, k
    <3> QED BY <2>2, <3>1, <3>2, BreakerIs
  <2>4. CASE ~(n >= FailureThreshold)
    <3>1. Counted("CLOSED", n, q, k, {}) /\ Exact("CLOSED", q, k, {})
      BY <1>2, <1>3, <2>4, NoProbes
    <3>2. cb' = Breaker("CLOSED", n, cb.retry_in, q, k)
      BY <1>4, <2>4 DEF FailClosed
    <3> HIDE DEF n, q, k
    <3> QED BY <2>2, <3>1, <3>2, BreakerIs
  <2> QED BY <2>3, <2>4
<1>5. CASE FailOpen(n)
  <2>1. probes = {} /\ n >= FailureThreshold
    BY <1>2, <1>5 DEF FailOpen, CbInv, Counted
  <2>2. probes' = {} /\ probes' \subseteq busy'
    BY <1>5, <2>1 DEF FailOpen
  <2>3. Counted("OPEN", n, q, k, {}) /\ Exact("OPEN", q, k, {})
    BY <1>2, <1>3, <2>1, NoProbes
  <2>4. cb' = Breaker("OPEN", n, cb.retry_in, q, k)
    BY <1>5 DEF FailOpen
  <2> HIDE DEF n, q, k
  <2> QED BY <2>2, <2>3, <2>4, BreakerIs
<1>6. CASE FailHalfOpen(n)
  <2>1. n >= FailureThreshold
    BY <1>2, <1>6 DEF FailHalfOpen, CbInv, Counted
  <2>2. PICK r : cb' = Breaker("OPEN", n, r, 0, 0) /\ probes' = {}
    BY <1>6 DEF FailHalfOpen
  <2>3. Counted("OPEN", n, 0, 0, {}) /\ Exact("OPEN", 0, 0, {})
    BY <1>2, <1>3, <2>1, NoProbes
  <2> HIDE DEF n
  <2> QED BY <2>2, <2>3, BreakerIs
<1> QED BY <1>4, <1>5, <1>6 DEF circuit_breaker_record_failure

LEMMA StepCounted ==
    ASSUME CbInv, [CbNext]_cbVars
    PROVE  CbInv' /\ (ExactInv /\ SuccessThreshold <= 2 => ExactInv')
<1>1. CASE circuit_breaker_reset
  <2>1. "CLOSED" \in {"CLOSED", "OPEN"} /\ 0 \in Nat /\ 0 \in 0 .. UintMax
        /\ ("CLOSED" = "CLOSED" <=> 0 < FailureThreshold)
    OBVIOUS
  <2>2. Counted("CLOSED", 0, 0, 0, {}) /\ Exact("CLOSED", 0, 0, {})
    BY <2>1, NoProbes
  <2> QED BY <1>1, <2>2, BreakerIs DEF circuit_breaker_reset, New
<1>2. CASE Tick
  <2>1. /\ Counted(cb.state, cb.consecutive_failures, cb.half_open_requests,
                   cb.half_open_successes, probes')
        /\ probes' \subseteq busy'
        /\ ExactInv => Exact(cb.state, cb.half_open_requests, cb.half_open_successes, probes')
    BY <1>2 DEF Tick, CbInv, ExactInv
  <2> QED BY <1>2, <2>1, BreakerIs DEF Tick
<1>3. CASE UNCHANGED cbVars
  BY <1>3 DEF cbVars, CbInv, ExactInv
<1> QED BY <1>1, <1>2, <1>3, AllowCounted, SuccessCounted, FailureCounted DEF CbNext, Request

\* For every configuration: the breaker is closed exactly while fewer than
\* failure_threshold failures are counted.
THEOREM OpensAtThreshold == CbSpec => []TrippedAtThreshold
<1>1. CbInv => TrippedAtThreshold
  BY DEF CbInv, Counted, TrippedAtThreshold
<1> QED BY InitCounted, StepCounted, <1>1, PTL DEF CbSpec

\* For every configuration and number of threads: at most max_half_open_requests +
\* success_threshold - 1 probes are under way, whatever stale results are reported.
THEOREM ProbesAreBounded == CbSpec => []ProbesBounded
<1>1. CbInv => ProbesBounded
  <2> SUFFICES ASSUME CbInv PROVE ProbesBounded
    OBVIOUS
  <2>1. CASE cb.state = "HALF_OPEN"
    BY <2>1 DEF CbInv, Counted, ProbesBounded
  <2>2. CASE cb.state # "HALF_OPEN"
    BY <2>2, FS_EmptySet DEF CbInv, Counted, ProbesBounded
  <2> QED BY <2>1, <2>2
<1> QED BY InitCounted, StepCounted, <1>1, PTL DEF CbSpec

\* When at most two successes close the breaker, stale results never make a half-open
\* breaker refuse everything.
THEOREM NeverWedged == ASSUME SuccessThreshold <= 2 PROVE CbSpec => []HalfOpenAdmits
<1>1. CbInv /\ ExactInv => HalfOpenAdmits
  <2> SUFFICES ASSUME CbInv, ExactInv, cb.state = "HALF_OPEN", busy = {}
               PROVE  cb.half_open_requests < MaxHalfOpen
    BY DEF HalfOpenAdmits
  <2>1. probes = {} /\ Cardinality(probes) = 0
    BY FS_EmptySet DEF CbInv
  <2>2. cb.half_open_successes = 1 /\ cb.half_open_requests \in 0 .. UintMax
    BY <2>1 DEF CbInv, Counted, ExactInv, Exact
  <2> QED BY <2>1, <2>2 DEF ExactInv, Exact
<1>2. CbInv /\ ExactInv /\ [CbNext]_cbVars => (CbInv /\ ExactInv)'
  BY StepCounted
<1> QED BY InitCounted, <1>1, <1>2, PTL DEF CbSpec

\* The decisions of the breaker for every configuration that closes after at most two
\* successes: it opens at its threshold, admits a probe when half open and bounds them.
THEOREM DecidesRightly == ASSUME SuccessThreshold <= 2 PROVE CbSpec => []BreakerDecides
BY OpensAtThreshold, NeverWedged, ProbesAreBounded, PTL DEF BreakerDecides

=============================================================================
