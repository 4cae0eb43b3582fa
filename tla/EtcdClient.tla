---------------------------- MODULE EtcdClient ----------------------------
(***************************************************************************)
(* internal/etcd/etcd_client.c: one client of an etcd cluster.  Every      *)
(* operation holds the client mutex, walks the endpoints round-robin, at   *)
(* most MaxRetries attempts, and consults a three-state circuit breaker    *)
(* per endpoint.  etcd_is_healthy and etcd_client_get_stats consult (and   *)
(* change) the breakers WITHOUT the mutex.                                 *)
(*                                                                         *)
(* etcd itself is external: a map from keys to a value and the revision of *)
(* its last modification, 0 for an absent key.  A request the client gave  *)
(* up on may still reach the store later, or never (requests in pending).  *)
(*                                                                         *)
(* The value an operation writes is the operation's own identity, so that  *)
(* a stored value names its writer; 0 is the value of any other client.    *)
(***************************************************************************)
EXTENDS Integers, FiniteSets

CONSTANTS
    EndpointCount,     \* number of endpoints given to etcd_client_create
    MaxRetries,        \* client->max_retries
    FailureThreshold,  \* ETCD_CB_FAILURE_THRESHOLD
    CbTimeout,         \* ETCD_CB_TIMEOUT
    Keys,              \* keys of the store
    Anomalies,         \* which calls may get which replies beyond the plain ones
    Reliable,          \* endpoints that always give a plain reply
    HealthThreads,     \* threads that call etcd_is_healthy / _get_stats
    MaxOps,            \* bound: operations started
    MaxRev,            \* bound: the revision up to which other clients write
    MaxTime            \* bound: seconds of the clock

Endpoints == 0 .. EndpointCount - 1

Kinds == {"put", "get", "delete", "list", "cas"}

\* TIMEOUT, NETWORK_ERROR: no reply; http_error: a reply other than 200 with a
\* JSON error body; garbage: a 200 reply whose body does not parse; omit: etcd
\* leaves empty and false fields out of its JSON.
AnomalyKinds == {"TIMEOUT", "NETWORK_ERROR", "http_error", "garbage", "omit"}

ASSUME ClientAssumption ==
    /\ Keys # {}
    /\ EndpointCount \in Nat \ {0}
    /\ MaxRetries \in Nat
    /\ FailureThreshold \in Nat \ {0}
    /\ CbTimeout \in Nat
    /\ Anomalies \subseteq Kinds \X AnomalyKinds
    /\ Reliable \subseteq Endpoints
    /\ MaxOps \in Nat /\ MaxRev \in Nat /\ MaxTime \in Nat

VARIABLES
    kv,        \* external: key -> [val, mod]
    rev,       \* external: the store's revision
    pending,   \* external: writes sent, given up on by the client, not applied
    applied,   \* history: [op, rev] for every write the store performed
    now,       \* time(NULL)
    brk,       \* endpoint -> breaker
    cur,       \* client->current_endpoint_index
    op,        \* the operation that holds the mutex
    pc,        \* "idle", "loop" (top of the retry loop), "sent" (in curl)
    attempt,   \* its loop counter
    idx,       \* its endpoint_idx
    status,    \* its status
    ret,       \* what the last operation returned
    opCount,   \* operations started
    hc         \* health thread -> where it is in its scan

storeVars  == <<kv, rev, applied>>
callVars   == <<op, pc, attempt, idx, status, opCount>>
clientVars == <<cur, ret>>
vars == <<kv, rev, pending, applied, now, brk, cur, op, pc, attempt, idx,
          status, ret, opCount, hc>>

NoValue == -1
Absent  == [val |-> NoValue, mod |-> 0]
Writes  == {"put", "delete", "cas"}
Ops     == [id : Nat, kind : Kinds, key : Keys, expected : Nat]
Statuses == {"OK", "NOT_FOUND", "CAS_FAILED", "NETWORK_ERROR", "TIMEOUT",
             "CLUSTER_UNAVAILABLE"}
NoOp     == [id |-> 0, kind |-> "get", key |-> CHOOSE k \in Keys : TRUE, expected |-> 0]
NoReturn == [op |-> NoOp, status |-> "CLUSTER_UNAVAILABLE", value |-> NoValue,
             revision |-> 0]

Closed == [state |-> "CLOSED", failure_count |-> 0, last_failure_time |-> 0]

Init ==
    /\ kv = [k \in Keys |-> Absent]
    /\ rev = 0
    /\ pending = {}
    /\ applied = {}
    /\ now = 0
    /\ brk = [e \in Endpoints |-> Closed]
    /\ cur = 0
    /\ op = NoOp
    /\ pc = "idle"
    /\ attempt = 0
    /\ idx = 0
    /\ status = "OK"
    /\ ret = NoReturn
    /\ opCount = 0
    /\ hc = [h \in HealthThreads |-> [pc |-> "idle", i |-> 0, all |-> FALSE]]

---------------------------------------------------------------------------
(* The circuit breaker of one endpoint.                                    *)

TimedOut(b) == now - b.last_failure_time > CbTimeout

\* Mutation: the probe is let through when the timeout is due, not past.
should_allow_Early(b) == b.state # "OPEN" \/ now - b.last_failure_time >= CbTimeout

should_allow(b) == b.state # "OPEN" \/ TimedOut(b)

\* The state should_allow leaves behind when it answers TRUE.
AfterAllow(b) ==
    IF b.state = "OPEN" THEN [b EXCEPT !.state = "HALF_OPEN"] ELSE b

record_success(b) ==
    [b EXCEPT !.failure_count = 0,
              !.state = IF @ = "HALF_OPEN" THEN "CLOSED" ELSE @]

\* Mutation: the threshold is off by one.
record_failure_Late(b) ==
    LET n == b.failure_count + 1
    IN  [state |-> IF \/ b.state = "HALF_OPEN"
                      \/ b.state = "CLOSED" /\ n > FailureThreshold
                   THEN "OPEN" ELSE b.state,
         failure_count |-> IF b.state = "HALF_OPEN" THEN 1 ELSE n,
         last_failure_time |-> now]

record_failure(b) ==
    LET n == b.failure_count + 1
    IN  [state |-> IF \/ b.state = "HALF_OPEN"
                      \/ b.state = "CLOSED" /\ n >= FailureThreshold
                   THEN "OPEN" ELSE b.state,
         failure_count |-> IF b.state = "HALF_OPEN" THEN 1 ELSE n,
         last_failure_time |-> now]

---------------------------------------------------------------------------
(* The store.                                                              *)

\* Mutation: the transaction is sent without its compare clause.
Takes_NoCompare(o) == o.kind \in Writes

\* The transaction of a cas compares the key's modification revision.
Takes(o) ==
    \/ o.kind \in {"put", "delete"}
    \/ o.kind = "cas" /\ kv[o.key].mod = o.expected

Apply(o) ==
    IF Takes(o)
    THEN /\ rev' = IF o.kind = "delete" /\ kv[o.key] = Absent THEN rev ELSE rev + 1
         /\ kv' = [kv EXCEPT ![o.key] = IF o.kind = "delete" THEN Absent
                                        ELSE [val |-> o.id, mod |-> rev + 1]]
         /\ applied' = applied \cup {[op |-> o, rev |-> rev']}
    ELSE UNCHANGED storeVars

\* A write the client gave up on reaches the store.
LateApply ==
    /\ \E p \in pending :
        /\ pending' = pending \ {p}
        /\ Apply(p.op)
    /\ UNCHANGED <<now, brk, cur, ret, hc, callVars>>

\* Another client of the same store writes a key, or deletes it.
OtherClient ==
    /\ rev < MaxRev
    /\ \E k \in Keys :
        \/ kv' = [kv EXCEPT ![k] = [val |-> 0, mod |-> rev + 1]]
        \/ kv[k] # Absent /\ kv' = [kv EXCEPT ![k] = Absent]
    /\ rev' = rev + 1
    /\ UNCHANGED <<pending, applied, now, brk, cur, ret, hc, callVars>>

Tick ==
    /\ now < MaxTime
    /\ now' = now + 1
    /\ UNCHANGED <<storeVars, pending, brk, cur, ret, hc, callVars>>

---------------------------------------------------------------------------
(* An operation, from pthread_mutex_lock to pthread_mutex_unlock.          *)

Begin(kind, key, expected) ==
    /\ pc = "idle"
    /\ opCount < MaxOps
    /\ opCount' = opCount + 1
    /\ op' = [id |-> opCount + 1, kind |-> kind, key |-> key, expected |-> expected]
    /\ pc' = "loop"
    /\ attempt' = 0
    /\ idx' = cur
    /\ status' = "CLUSTER_UNAVAILABLE"
    /\ UNCHANGED <<storeVars, pending, now, brk, hc, clientVars>>

\* A caller of the cas holds some revision it was told earlier.
BeginOperation ==
    \E key \in Keys :
        \/ \E kind \in Kinds \ {"cas"} : Begin(kind, key, 0)
        \/ \E expected \in 0 .. rev : Begin("cas", key, expected)

\* Mutations: the index does not wrap; the retry stays on the same endpoint.
NextEndpoint_NoWrap == idx + 1
NextEndpoint_Stays  == idx

NextEndpoint == (idx + 1) % EndpointCount

\* The end of a loop iteration that did not break.
Advance(st) ==
    /\ attempt' = attempt + 1
    /\ idx' = NextEndpoint
    /\ status' = st
    /\ pc' = "loop"
    /\ UNCHANGED <<op, opCount, clientVars>>

\* A break out of the loop, and the return.
Break(st, value, revision) ==
    /\ ret' = [op |-> op, status |-> st, value |-> value, revision |-> revision]
    /\ cur' = idx
    /\ pc' = "idle"
    /\ op' = NoOp /\ attempt' = 0 /\ idx' = 0 /\ status' = "OK"
    /\ UNCHANGED opCount

\* Mutation: a skipped endpoint does not spend an attempt.
Skip_Free ==
    /\ pc = "loop" /\ attempt < MaxRetries
    /\ ~should_allow(brk[idx])
    /\ idx' = NextEndpoint
    /\ UNCHANGED <<storeVars, pending, now, brk, hc, clientVars, op, pc, attempt,
                   status, opCount>>

\* The breaker of the endpoint refuses: the attempt is spent.
Skip ==
    /\ pc = "loop" /\ attempt < MaxRetries
    /\ ~should_allow(brk[idx])
    /\ Advance(status)
    /\ UNCHANGED <<storeVars, pending, now, brk, hc>>

Send ==
    /\ pc = "loop" /\ attempt < MaxRetries
    /\ should_allow(brk[idx])
    /\ brk' = [brk EXCEPT ![idx] = AfterAllow(@)]
    /\ pc' = "sent"
    /\ UNCHANGED <<storeVars, pending, now, hc, clientVars, op, attempt, idx,
                   status, opCount>>

\* Mutation: the status of the last attempt is not returned.
Exhausted_Ok ==
    /\ pc = "loop" /\ attempt >= MaxRetries
    /\ Break("OK", NoValue, 0)
    /\ UNCHANGED <<storeVars, pending, now, brk, hc>>

\* The loop ran out of attempts.
Exhausted ==
    /\ pc = "loop" /\ attempt >= MaxRetries
    /\ Break(status, NoValue, 0)
    /\ UNCHANGED <<storeVars, pending, now, brk, hc>>

Succeeded == brk' = [brk EXCEPT ![idx] = record_success(@)]
Failed    == brk' = [brk EXCEPT ![idx] = record_failure(@)]

Anomaly(a) == <<op.kind, a>> \in Anomalies /\ idx \notin Reliable

Sent == IF op.kind \in Writes THEN {[op |-> op, attempt |-> attempt]} ELSE {}

\* curl gives up; a write may yet reach the store.
NoReply ==
    /\ pc = "sent"
    /\ \E st \in {"TIMEOUT", "NETWORK_ERROR"} : Anomaly(st) /\ Advance(st)
    /\ Failed
    /\ pending' = pending \cup Sent
    /\ UNCHANGED <<storeVars, now, hc>>

\* A reply other than 200 (etcd may still perform the write): etcd_put and
\* etcd_delete never look at the code, and etcd_put goes on to the next endpoint
\* when the body is no JSON; the others count a failure but keep the transport's
\* ETCD_OK as their status.
ErrorReply ==
    /\ pc = "sent"
    /\ Anomaly("http_error")
    /\ \/ op.kind \in {"put", "delete"} /\ Succeeded /\ Break("OK", NoValue, 0)
       \/ op.kind = "put" /\ UNCHANGED brk /\ Advance("OK")
       \/ op.kind \in {"get", "list", "cas"} /\ Failed /\ Advance("OK")
    /\ pending' \in {pending, pending \cup Sent}
    /\ UNCHANGED <<storeVars, now, hc>>

\* A 200 reply that does not parse: neither success nor failure is recorded and
\* the loop goes on, except in etcd_delete, which never parses.
GarbageReply ==
    /\ pc = "sent"
    /\ Anomaly("garbage")
    /\ Apply(op)
    /\ \/ op.kind = "delete" /\ Succeeded /\ Break("OK", NoValue, 0)
       \/ op.kind # "delete" /\ UNCHANGED brk /\ Advance("OK")
    /\ UNCHANGED <<pending, now, hc>>

\* Mutation: the revision is read before the write.
etcd_put_OldRevision ==
    /\ op.kind = "put"
    /\ Apply(op)
    /\ Succeeded
    /\ Break("OK", NoValue, rev)

etcd_put ==
    /\ op.kind = "put"
    /\ Apply(op)
    /\ Succeeded
    /\ Break("OK", NoValue, rev')

etcd_delete ==
    /\ op.kind = "delete"
    /\ Apply(op)
    /\ Succeeded
    /\ Break("OK", NoValue, 0)

\* An empty kvs array is NOT_FOUND but does not leave the loop; without a kvs
\* field the status stays OK.  response->revision is never assigned.
etcd_get ==
    /\ op.kind = "get"
    /\ \/ kv[op.key] # Absent /\ Succeeded /\ Break("OK", kv[op.key].val, 0)
       \/ kv[op.key] = Absent /\ UNCHANGED brk /\ Advance("NOT_FOUND")
       \/ /\ kv[op.key] = Absent /\ Anomaly("omit")
          /\ Succeeded /\ Break("OK", NoValue, 0)
    /\ UNCHANGED storeVars

etcd_list ==
    /\ op.kind = "list"
    /\ Succeeded
    /\ Break("OK", NoValue, 0)
    /\ UNCHANGED storeVars

\* The new revision is looked for in the wrong object of the reply, so that it may
\* come back as 0.
etcd_put_if_revision_matches ==
    /\ op.kind = "cas"
    /\ Apply(op)
    /\ Succeeded
    /\ \/ Takes(op) /\ \E r \in {0, rev'} : Break("OK", NoValue, r)
       \/ ~Takes(op) /\ Break("CAS_FAILED", NoValue, 0)
       \/ ~Takes(op) /\ Anomaly("omit") /\ Break("OK", NoValue, 0)

PlainReply ==
    /\ pc = "sent"
    /\ \/ etcd_put
       \/ etcd_delete
       \/ etcd_get
       \/ etcd_list
       \/ etcd_put_if_revision_matches
    /\ UNCHANGED <<pending, now, hc>>

---------------------------------------------------------------------------
(* etcd_is_healthy stops at the first endpoint that would be allowed;      *)
(* etcd_client_get_stats scans them all.  Neither takes the mutex, so the  *)
(* test of an open breaker and the write that half-opens it are two steps. *)

HealthStart(h) ==
    /\ hc[h].pc = "idle"
    /\ \E all \in BOOLEAN : hc' = [hc EXCEPT ![h] = [pc |-> "test", i |-> 0, all |-> all]]
    /\ UNCHANGED <<storeVars, pending, now, brk, cur, ret, callVars>>

\* Where the scan is after endpoint i was seen to be allowed or refused.
ScanAfter(c, allowed) ==
    IF c.i + 1 < EndpointCount /\ (c.all \/ ~allowed)
    THEN [pc |-> "test", i |-> c.i + 1, all |-> c.all]
    ELSE [pc |-> "idle", i |-> 0, all |-> FALSE]

HealthTest(h) ==
    LET c == hc[h]
        b == brk[c.i]
    IN  /\ c.pc = "test"
        /\ \/ /\ b.state = "OPEN" /\ TimedOut(b)
              /\ hc' = [hc EXCEPT ![h].pc = "half_open"]
           \/ /\ ~(b.state = "OPEN" /\ TimedOut(b))
              /\ hc' = [hc EXCEPT ![h] = ScanAfter(c, b.state # "OPEN")]
        /\ UNCHANGED <<storeVars, pending, now, brk, cur, ret, callVars>>

HealthHalfOpen(h) ==
    LET c == hc[h]
    IN  /\ c.pc = "half_open"
        /\ brk' = [brk EXCEPT ![c.i].state = "HALF_OPEN"]
        /\ hc' = [hc EXCEPT ![h] = ScanAfter(c, TRUE)]
        /\ UNCHANGED <<storeVars, pending, now, cur, ret, callVars>>

---------------------------------------------------------------------------

Reply == NoReply \/ ErrorReply \/ GarbageReply \/ PlainReply

\* What the thread that holds the mutex does.
CallStep == Skip \/ Send \/ Exhausted \/ Reply

HealthStep(h) == HealthStart(h) \/ HealthTest(h) \/ HealthHalfOpen(h)

Next ==
    \/ BeginOperation
    \/ CallStep
    \/ LateApply
    \/ OtherClient
    \/ Tick
    \/ \E h \in HealthThreads : HealthStep(h)

Spec == Init /\ [][Next]_vars

\* The thread in the call keeps running: each curl request ends, if only by
\* CURLOPT_TIMEOUT.
FairSpec == Spec /\ WF_vars(CallStep)

---------------------------------------------------------------------------
(* Properties.                                                             *)

\* Every variable keeps its type; the breaker counters and the attempt counter
\* of etcd_put, etcd_get, ... stay natural numbers.
TypeOK ==
    /\ kv \in [Keys -> [val : Int, mod : Nat]]
    /\ rev \in Nat
    /\ pending \subseteq [op : Ops, attempt : Nat]
    /\ applied \subseteq [op : Ops, rev : Nat]
    /\ now \in Nat
    /\ brk \in [Endpoints -> [state : {"CLOSED", "OPEN", "HALF_OPEN"},
                              failure_count : Nat, last_failure_time : Nat]]
    /\ cur \in Endpoints /\ idx \in Endpoints
    /\ op \in Ops
    /\ pc \in {"idle", "loop", "sent"}
    /\ attempt \in 0 .. MaxRetries
    /\ status \in Statuses
    /\ ret \in [op : Ops, status : Statuses, value : Int, revision : Nat]
    /\ opCount \in Nat
    /\ hc \in [HealthThreads -> [pc : {"idle", "test", "half_open"},
                                 i : Endpoints, all : BOOLEAN]]

\* A compare-and-swap that expects an existing key (expected_revision > 0) takes
\* effect at most once, however often etcd_put_if_revision_matches sends it and
\* however late the requests it gave up on arrive.
CasAppliedAtMostOnce ==
    \A a, b \in applied :
        a.op = b.op /\ a.op.kind = "cas" /\ a.op.expected > 0 => a = b

\* A write that returns ETCD_OK was performed by the store: what every caller of
\* etcd_put, etcd_delete and etcd_put_if_revision_matches relies on.
OkMeansApplied ==
    ret.status = "OK" /\ ret.op.kind \in Writes =>
        \E a \in applied : a.op = ret.op

\* A put that returns ETCD_OK with a revision names the revision of its own
\* write, not of another client's.
PutRevisionIsItsOwn ==
    ret.status = "OK" /\ ret.op.kind = "put" /\ ret.revision > 0 =>
        [op |-> ret.op, rev |-> ret.revision] \in applied

\* ETCD_CAS_FAILED means that the swap did not happen: the caller answers 409
\* and tells its user that someone else modified the object.
CasFailedMeansNotApplied ==
    ret.status = "CAS_FAILED" => \A a \in applied : a.op # ret.op

\* A breaker never counts past its threshold, a closed breaker is below it, and
\* no request is ever in flight to an endpoint whose breaker is open, even when
\* etcd_is_healthy changes the breaker under the request.
BreakerConsistent ==
    /\ \A e \in Endpoints :
        /\ brk[e].failure_count <= FailureThreshold
        /\ brk[e].state = "CLOSED" => brk[e].failure_count < FailureThreshold
        /\ brk[e].state = "OPEN" => brk[e].failure_count > 0
    /\ pc = "sent" => brk[idx].state # "OPEN"

\* What one step may do to a breaker: see BreakerStateMachine.
BreakerStep ==
    \A e \in Endpoints :
        LET b == brk[e]
            s == brk[e].state
            t == brk'[e].state
        IN  /\ s = "CLOSED" /\ t # s => t = "OPEN" /\ b.failure_count + 1 = FailureThreshold
            /\ s = "OPEN" /\ t # s => t = "HALF_OPEN" /\ TimedOut(b)

\* The three-state machine of the breaker: it opens from CLOSED only on the
\* threshold's failure, it leaves OPEN only after the timeout and only to
\* HALF_OPEN, and CLOSED never becomes HALF_OPEN.
BreakerStateMachine == [][BreakerStep]_vars

\* Failover: when one endpoint always answers and the attempts reach all
\* endpoints, no write and no list comes back with a transport error, whatever
\* the other endpoints do and wherever the round-robin index stands.
ReliableEndpointServes ==
    Reliable # {} /\ MaxRetries >= EndpointCount /\ ret.op.id > 0 /\ ret.op.kind # "get" =>
        ret.status \in {"OK", "CAS_FAILED"}

\* Every operation returns: skipping an endpoint spends an attempt, so that a
\* cluster whose breakers are all open cannot trap a caller in the loop.
OperationReturns == pc # "idle" ~> pc = "idle"

\* What a caller of etcd_put, etcd_cas and etcd_delete may rely on when it is told ETCD_OK:
\* the change was made, and the revision is that of its own change, whatever was retried
\* (TypeOK, OkMeansApplied, PutRevisionIsItsOwn).
OkMeansItsOwnWrite == TypeOK /\ OkMeansApplied /\ PutRevisionIsItsOwn

\* circuit_breaker_t of an endpoint: its fields agree in every state, and it moves only
\* along the edges of the state machine (BreakerConsistent, BreakerStateMachine).
BreakerWorks == []BreakerConsistent /\ BreakerStateMachine

\* With an endpoint that works the others do not matter, even while etcd_is_healthy changes
\* breakers without the mutex (BreakerConsistent, ReliableEndpointServes).
FailoverWorks == BreakerConsistent /\ ReliableEndpointServes

===========================================================================
