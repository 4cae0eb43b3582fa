------------------------- MODULE EtcdClientProofs -------------------------
(***************************************************************************)
(* Proofs about EtcdClient for every number of endpoints, attempts, keys   *)
(* and health threads, and with no bound on time, operations or revisions  *)
(* other than the ones the guards name.                                    *)
(***************************************************************************)
EXTENDS EtcdClient, TLAPS

Breakers == [state : {"CLOSED", "OPEN", "HALF_OPEN"},
             failure_count : Nat, last_failure_time : Nat]

\* The round-robin successor of an endpoint is an endpoint.
LEMMA NextEndpointType ==
    ASSUME idx \in Endpoints
    PROVE  NextEndpoint \in Endpoints
  BY ClientAssumption DEF Endpoints, NextEndpoint

\* The breaker operations return breakers.
LEMMA BreakerType ==
    ASSUME NEW b \in Breakers, now \in Nat
    PROVE  /\ AfterAllow(b) \in Breakers
           /\ record_success(b) \in Breakers
           /\ record_failure(b) \in Breakers
  <1>1. AfterAllow(b) \in Breakers
    BY DEF Breakers, AfterAllow
  <1>2. record_success(b) \in Breakers
    BY Zenon DEF Breakers, record_success
  <1>3. record_failure(b) \in Breakers
    BY DEF Breakers, record_failure
  <1> QED BY <1>1, <1>2, <1>3

\* What the store's Apply does to the types of the store's variables.
LEMMA ApplyType ==
    ASSUME TypeOK, NEW o \in Ops, Apply(o)
    PROVE  /\ kv' \in [Keys -> [val : Int, mod : Nat]]
           /\ rev' \in Nat
           /\ applied' \subseteq [op : Ops, rev : Nat]
  BY DEF TypeOK, Apply, Ops, storeVars, Absent, NoValue

\* The initial dummies have the types of an operation and a result.
LEMMA DummyType ==
    NoOp \in Ops /\ NoReturn \in [op : Ops, status : Statuses, value : Int, revision : Nat]
  BY ClientAssumption DEF NoOp, NoReturn, Ops, Kinds, Statuses, NoValue

\* A loop iteration that does not break keeps the types of the call's variables.
LEMMA AdvanceType ==
    ASSUME TypeOK, attempt < MaxRetries, NEW st \in Statuses, Advance(st)
    PROVE  /\ attempt' \in 0 .. MaxRetries /\ idx' \in Endpoints /\ status' \in Statuses
           /\ pc' \in {"idle", "loop", "sent"} /\ op' \in Ops /\ opCount' \in Nat
           /\ cur' \in Endpoints
           /\ ret' \in [op : Ops, status : Statuses, value : Int, revision : Nat]
  BY NextEndpointType, ClientAssumption DEF TypeOK, Advance, clientVars

\* A return keeps the types of the call's variables.
LEMMA BreakType ==
    ASSUME TypeOK, NEW st \in Statuses, NEW v \in Int, NEW r \in Nat, Break(st, v, r)
    PROVE  /\ attempt' \in 0 .. MaxRetries /\ idx' \in Endpoints /\ status' \in Statuses
           /\ pc' \in {"idle", "loop", "sent"} /\ op' \in Ops /\ opCount' \in Nat
           /\ cur' \in Endpoints
           /\ ret' \in [op : Ops, status : Statuses, value : Int, revision : Nat]
  BY DummyType, ClientAssumption DEF TypeOK, Break, Statuses, Endpoints

\* TypeOK with the loop guard that makes it inductive: a request is in flight only
\* within the attempts.
TypeInv == TypeOK /\ (pc = "sent" => attempt < MaxRetries)

LEMMA InitType == Init => TypeInv
  BY DummyType, ClientAssumption
  DEF Init, TypeInv, TypeOK, Absent, NoValue, Closed, Endpoints, Statuses

\* One step of etcd_put, etcd_get, ..., of the health thread or of the store keeps
\* TypeInv.
LEMMA NextType == TypeInv /\ [Next]_vars => TypeInv'
  <1> SUFFICES ASSUME TypeInv, [Next]_vars PROVE TypeInv'
    OBVIOUS
  <1> USE DEF TypeInv
  <1>1. CASE BeginOperation
    <2>1. PICK kind \in Kinds, key \in Keys, expected \in Nat : Begin(kind, key, expected)
      BY <1>1 DEF BeginOperation, TypeOK, Kinds
    <2> QED BY <2>1, ClientAssumption
      DEF Begin, TypeOK, Ops, Statuses, storeVars, clientVars
  <1>2. CASE Skip
    BY <1>2, AdvanceType DEF Skip, TypeOK, storeVars, Advance
  <1>3. CASE Send
    <2>1. brk[idx] \in Breakers
      BY DEF TypeOK, Breakers
    <2>2. AfterAllow(brk[idx]) \in Breakers
      BY <2>1, BreakerType DEF TypeOK
    <2> QED BY <1>3, <2>2 DEF Send, TypeOK, Breakers, storeVars, clientVars
  <1>4. CASE Exhausted
    BY <1>4, BreakType DEF Exhausted, TypeOK, storeVars, NoValue, Break
  <1>5. ASSUME pc = "sent", Succeeded \/ Failed \/ UNCHANGED brk
        PROVE  brk' \in [Endpoints -> Breakers]
    <2>1. brk[idx] \in Breakers
      BY DEF TypeOK, Breakers
    <2>2. record_success(brk[idx]) \in Breakers /\ record_failure(brk[idx]) \in Breakers
      BY <2>1, BreakerType DEF TypeOK
    <2>3. CASE Succeeded
      BY <2>2, <2>3 DEF Succeeded, TypeOK, Breakers
    <2>4. CASE Failed
      BY <2>2, <2>4 DEF Failed, TypeOK, Breakers
    <2> QED BY <1>5, <2>3, <2>4 DEF TypeOK, Breakers
  <1>6. pc = "sent" => Sent \subseteq [op : Ops, attempt : Nat]
    BY ClientAssumption DEF Sent, TypeOK
  <1>7. CASE NoReply
    <2>1. PICK st \in {"TIMEOUT", "NETWORK_ERROR"} : Advance(st)
      BY <1>7 DEF NoReply
    <2>2. st \in Statuses
      BY DEF Statuses
    <2> QED BY <1>5, <1>6, <1>7, <2>1, <2>2, AdvanceType
      DEF NoReply, TypeOK, storeVars, Breakers, Advance
  <1>8. CASE ErrorReply
    <2>1. brk' \in [Endpoints -> Breakers]
      BY <1>5, <1>8 DEF ErrorReply
    <2>2. pending' \subseteq [op : Ops, attempt : Nat]
      BY <1>6, <1>8 DEF ErrorReply, TypeOK
    <2>3. CASE Advance("OK")
      BY <1>8, <2>1, <2>2, <2>3, AdvanceType
      DEF ErrorReply, TypeOK, storeVars, Breakers, Statuses, Advance
    <2>4. CASE Break("OK", NoValue, 0)
      BY <1>8, <2>1, <2>2, <2>4, BreakType
      DEF ErrorReply, TypeOK, storeVars, Breakers, Statuses, NoValue, Break
    <2> QED BY <1>8, <2>3, <2>4 DEF ErrorReply
  <1>9. CASE GarbageReply
    <2>1. brk' \in [Endpoints -> Breakers]
      BY <1>5, <1>9 DEF GarbageReply
    <2>2. Apply(op) /\ op \in Ops
      BY <1>9 DEF GarbageReply, TypeOK
    <2>3. CASE Advance("OK")
      BY <1>9, <2>1, <2>2, <2>3, AdvanceType, ApplyType
      DEF GarbageReply, TypeOK, Breakers, Statuses, Advance
    <2>4. CASE Break("OK", NoValue, 0)
      BY <1>9, <2>1, <2>2, <2>4, BreakType, ApplyType
      DEF GarbageReply, TypeOK, Breakers, Statuses, NoValue, Break
    <2> QED BY <1>9, <2>3, <2>4 DEF GarbageReply
  <1>10. CASE PlainReply
    <2>1. brk' \in [Endpoints -> Breakers]
      BY <1>5, <1>10 DEF PlainReply, etcd_put, etcd_delete, etcd_get, etcd_list,
                        etcd_put_if_revision_matches
    <2>2. /\ kv' \in [Keys -> [val : Int, mod : Nat]] /\ rev' \in Nat
          /\ applied' \subseteq [op : Ops, rev : Nat]
      <3>1. op \in Ops /\ (Apply(op) \/ UNCHANGED storeVars)
        BY <1>10 DEF PlainReply, etcd_put, etcd_delete, etcd_get, etcd_list,
                     etcd_put_if_revision_matches, TypeOK
      <3> QED BY <3>1, ApplyType DEF storeVars, TypeOK
    <2>3. UNCHANGED <<pending, now, hc>>
      BY <1>10 DEF PlainReply
    <2>4. CASE Advance("NOT_FOUND")
      BY <1>10, <2>1, <2>2, <2>3, <2>4, AdvanceType, SMTT(40)
      DEF PlainReply, TypeOK, Breakers, Statuses, Advance
    <2>5. CASE \E st \in Statuses, v \in Int, r \in Nat : Break(st, v, r)
      BY <2>1, <2>2, <2>3, <2>5, BreakType, SMTT(40) DEF TypeOK, Breakers, Break
    <2>6. \/ Advance("NOT_FOUND")
          \/ \E st \in Statuses, v \in Int, r \in Nat : Break(st, v, r)
      <3>1. {"OK", "CAS_FAILED"} \subseteq Statuses /\ NoValue \in Int /\ kv[op.key].val \in Int
        BY DEF Statuses, NoValue, TypeOK, Ops
      <3> QED BY <1>10, <2>2, <3>1
        DEF PlainReply, etcd_put, etcd_delete, etcd_get, etcd_list,
            etcd_put_if_revision_matches
    <2> QED BY <2>4, <2>5, <2>6, SMTT(40)
  <1>11. CASE LateApply
    <2>1. PICK p \in pending : pending' = pending \ {p} /\ Apply(p.op)
      BY <1>11 DEF LateApply
    <2>2. p.op \in Ops
      BY DEF TypeOK
    <2> QED BY <1>11, <2>1, <2>2, ApplyType DEF LateApply, TypeOK, callVars
  <1>12. CASE OtherClient
    BY <1>12, SMTT(40) DEF OtherClient, TypeOK, callVars, Absent, NoValue
  <1>13. CASE Tick
    BY <1>13 DEF Tick, TypeOK, callVars, storeVars
  <1>14. ASSUME NEW h \in HealthThreads, HealthStep(h) PROVE TypeInv'
    <2> DEFINE Scans == [pc : {"idle", "test", "half_open"}, i : Endpoints, all : BOOLEAN]
    <2>1. \A allowed \in BOOLEAN : ScanAfter(hc[h], allowed) \in Scans
      BY ClientAssumption, SMTT(40) DEF ScanAfter, TypeOK, Endpoints
    <2>2. CASE HealthStart(h)
      BY <2>2, ClientAssumption, SMTT(40) DEF HealthStart, TypeOK, callVars, storeVars, Endpoints
    <2>3. CASE HealthTest(h)
      <3>1. ScanAfter(hc[h], brk[hc[h].i].state # "OPEN") \in Scans
        BY <2>1, (brk[hc[h].i].state # "OPEN") \in BOOLEAN, Zenon
      <3>2. [hc[h] EXCEPT !.pc = "half_open"] \in Scans
        BY DEF TypeOK
      <3>3. hc' \in [HealthThreads -> Scans]
        <4> HIDE DEF Scans
        <4>1. hc \in [HealthThreads -> Scans]
          BY DEF TypeOK, Scans
        <4> QED BY <2>3, <3>1, <3>2, <4>1 DEF HealthTest
      <3> QED BY <2>3, <3>3 DEF HealthTest, TypeOK, callVars, storeVars
    <2>4. CASE HealthHalfOpen(h)
      BY <2>1, <2>4, Zenon DEF HealthHalfOpen, TypeOK, callVars, storeVars
    <2> QED BY <1>14, <2>2, <2>3, <2>4 DEF HealthStep
  <1>15. CASE UNCHANGED vars
    BY <1>15 DEF vars, TypeOK
  <1> QED BY <1>1, <1>2, <1>3, <1>4, <1>7, <1>8, <1>9, <1>10, <1>11, <1>12, <1>13,
             <1>14, <1>15 DEF Next, CallStep, Reply

\* TypeOK holds in every reachable state of the client, for all parameters.
THEOREM TypeCorrect == Spec => []TypeOK
  <1>1. TypeInv => TypeOK
    BY DEF TypeInv
  <1> QED BY <1>1, InitType, NextType, PTL DEF Spec

---------------------------------------------------------------------------
(* Compare-and-swap.                                                       *)

\* Why a swap cannot happen twice: once performed, the key's modification revision
\* has left the expected one, and since revisions only grow it never comes back.
CasInv ==
    /\ \A k \in Keys : kv[k].mod <= rev
    /\ \A a \in applied : a.op.kind = "cas" /\ a.op.expected > 0 =>
           a.op.expected <= rev /\ kv[a.op.key].mod # a.op.expected
    /\ CasAppliedAtMostOnce

\* The store performs a write only when the compare of the swap holds: CasInv stays.
LEMMA ApplyCas ==
    ASSUME TypeOK, CasInv, NEW o \in Ops, Apply(o)
    PROVE  CasInv'
  <1>1. CASE ~Takes(o)
    BY <1>1 DEF Apply, storeVars, CasInv, CasAppliedAtMostOnce
  <1>2. CASE Takes(o)
    <2> DEFINE n == [op |-> o, rev |-> rev']
    <2>1. applied' = applied \cup {n} /\ rev' \in Nat /\ rev <= rev' /\ o.key \in Keys
      BY <1>2 DEF Apply, TypeOK, Ops
    <2>2. /\ \A k \in Keys \ {o.key} : kv'[k] = kv[k]
          /\ kv'[o.key].mod \in {0, rev + 1}
          /\ kv'[o.key].mod = rev + 1 => rev' = rev + 1
          /\ o.kind = "cas" => kv'[o.key].mod = rev + 1
      BY <1>2 DEF Apply, TypeOK, Ops, Absent
    <2>3. \A k \in Keys : kv[k].mod \in Nat /\ rev \in Nat
      BY DEF TypeOK
    <2>4. \A k \in Keys : kv'[k].mod <= rev'
      BY <2>1, <2>2, <2>3 DEF CasInv
    <2>5. ASSUME NEW a \in applied', a.op.kind = "cas", a.op.expected > 0
          PROVE  a.op.expected <= rev' /\ kv'[a.op.key].mod # a.op.expected
      <3>1. a.op \in Ops
        BY <2>1 DEF TypeOK
      <3>2. a.op.expected <= rev
        BY <1>2, <2>1, <2>5 DEF Takes, CasInv, TypeOK, Ops
      <3>3. CASE a.op.key = o.key
        BY <2>1, <2>2, <2>3, <2>5, <3>1, <3>2, <3>3 DEF Ops
      <3>4. CASE a.op.key # o.key
        BY <2>1, <2>2, <2>3, <2>5, <3>1, <3>2, <3>4 DEF Ops, CasInv
      <3> QED BY <3>3, <3>4
    <2>6. CasAppliedAtMostOnce'
      <3>1. o.kind = "cas" /\ o.expected > 0 => \A a \in applied : a.op # o
        BY <1>2 DEF Takes, CasInv
      <3> QED BY <2>1, <3>1 DEF CasAppliedAtMostOnce, CasInv
    <2> QED BY <2>4, <2>5, <2>6 DEF CasInv
  <1> QED BY <1>1, <1>2

LEMMA NextCas == TypeOK /\ CasInv /\ [Next]_vars => CasInv'
  <1> SUFFICES ASSUME TypeOK, CasInv, [Next]_vars PROVE CasInv'
    OBVIOUS
  <1>1. CASE UNCHANGED storeVars
    BY <1>1 DEF storeVars, CasInv, CasAppliedAtMostOnce
  <1>2. ASSUME NEW o \in Ops, Apply(o) PROVE CasInv'
    BY <1>2, ApplyCas
  <1>3. CASE OtherClient
    <2>1. rev \in Nat /\ applied \subseteq [op : Ops, rev : Nat] /\ applied' = applied
      BY <1>3 DEF OtherClient, TypeOK
    <2>2. rev' = rev + 1 /\ \A k \in Keys : kv'[k].mod \in {kv[k].mod, 0, rev + 1}
      <3>1. PICK c \in Keys : \/ kv' = [kv EXCEPT ![c] = [val |-> 0, mod |-> rev + 1]]
                              \/ kv' = [kv EXCEPT ![c] = Absent]
        BY <1>3 DEF OtherClient
      <3>2. ASSUME NEW k \in Keys PROVE kv'[k].mod \in {kv[k].mod, 0, rev + 1}
        <4>1. CASE k = c
          BY <3>1, <4>1 DEF TypeOK, Absent
        <4>2. CASE k # c
          BY <3>1, <4>2 DEF TypeOK
        <4> QED BY <4>1, <4>2
      <3> QED BY <1>3, <3>2 DEF OtherClient
    <2>3. \A k \in Keys : kv[k].mod \in Nat
      BY DEF TypeOK
    <2> QED BY <2>1, <2>2, <2>3 DEF CasInv, CasAppliedAtMostOnce, Ops
  <1>4. CASE LateApply
    BY <1>2, <1>4 DEF LateApply, TypeOK
  <1>5. CASE Reply
    <2>1. op \in Ops
      BY DEF TypeOK
    <2> QED BY <1>1, <1>2, <1>5, <2>1
      DEF Reply, NoReply, ErrorReply, GarbageReply, PlainReply, etcd_put, etcd_delete,
          etcd_get, etcd_list, etcd_put_if_revision_matches
  <1>6. CASE BeginOperation \/ Skip \/ Send \/ Exhausted \/ Tick
    BY <1>1, <1>6 DEF BeginOperation, Begin, Skip, Send, Exhausted, Tick
  <1>7. CASE \E h \in HealthThreads : HealthStep(h)
    BY <1>1, <1>7, Zenon DEF HealthStep, HealthStart, HealthTest, HealthHalfOpen
  <1>8. CASE UNCHANGED vars
    BY <1>1, <1>8 DEF vars, storeVars
  <1> QED BY <1>3, <1>4, <1>5, <1>6, <1>7, <1>8 DEF Next, CallStep

\* However many attempts etcd_put_if_revision_matches makes and however late they
\* arrive, a swap of an existing key is performed at most once.
THEOREM CasOnce == Spec => []CasAppliedAtMostOnce
  <1>1. Init => CasInv
    BY DEF Init, CasInv, CasAppliedAtMostOnce, Absent
  <1>2. CasInv => CasAppliedAtMostOnce
    BY DEF CasInv
  <1> QED BY <1>1, <1>2, TypeCorrect, NextCas, PTL DEF Spec

---------------------------------------------------------------------------
(* The per-endpoint breakers.                                              *)

LEMMA NextBreaker == TypeOK /\ BreakerConsistent /\ [Next]_vars => BreakerConsistent'
  <1> SUFFICES ASSUME TypeOK, BreakerConsistent, [Next]_vars PROVE BreakerConsistent'
    OBVIOUS
  <1> DEFINE Good(b) == /\ b.failure_count <= FailureThreshold
                        /\ b.state = "CLOSED" => b.failure_count < FailureThreshold
                        /\ b.state = "OPEN" => b.failure_count > 0
  <1>1. CASE UNCHANGED <<brk, idx>> /\ pc' # "sent"
    BY <1>1 DEF BreakerConsistent
  <1>2. CASE UNCHANGED <<brk, idx, pc>>
    BY <1>2 DEF BreakerConsistent
  <1>3. CASE UNCHANGED brk /\ pc' \in {"loop", "idle"}
    BY <1>3 DEF BreakerConsistent
  <1>4. CASE Send
    <2>1. AfterAllow(brk[idx]).state # "OPEN" /\ Good(AfterAllow(brk[idx]))
      BY ClientAssumption DEF AfterAllow, BreakerConsistent, TypeOK
    <2> QED BY <1>4, <2>1 DEF Send, BreakerConsistent, TypeOK
  <1>5. ASSUME pc = "sent", Succeeded \/ Failed, pc' \in {"loop", "idle"}
        PROVE  BreakerConsistent'
    <2>1. brk[idx] \in Breakers /\ Good(brk[idx]) /\ brk[idx].state # "OPEN"
      BY <1>5 DEF BreakerConsistent, TypeOK, Breakers
    <2>2. Good(record_success(brk[idx]))
      BY <2>1, ClientAssumption DEF record_success, Breakers
    <2>3. Good(record_failure(brk[idx]))
      BY <2>1, ClientAssumption DEF record_failure, Breakers
    <2>4. \A e \in Endpoints : Good(brk'[e])
      <3> HIDE DEF Good
      <3>1. \A e \in Endpoints : Good(brk[e])
        BY DEF BreakerConsistent, Good
      <3> QED BY <1>5, <2>2, <2>3, <3>1 DEF Succeeded, Failed, TypeOK
    <2> QED BY <1>5, <2>4 DEF BreakerConsistent
  <1>6. CASE Reply
    <2>1. pc = "sent" /\ pc' \in {"loop", "idle"} /\ (Succeeded \/ Failed \/ UNCHANGED brk)
      BY <1>6 DEF Reply, NoReply, ErrorReply, GarbageReply, PlainReply, etcd_put,
                  etcd_delete, etcd_get, etcd_list, etcd_put_if_revision_matches,
                  Advance, Break
    <2> QED BY <1>3, <1>5, <2>1
  <1>7. CASE BeginOperation \/ Skip \/ Exhausted
    BY <1>3, <1>7 DEF BeginOperation, Begin, Skip, Exhausted, Advance, Break
  <1>8. CASE LateApply \/ OtherClient \/ Tick
    BY <1>2, <1>8 DEF LateApply, OtherClient, Tick, callVars
  <1>9. ASSUME NEW h \in HealthThreads, HealthStep(h) PROVE BreakerConsistent'
    <2>1. CASE HealthStart(h) \/ HealthTest(h)
      BY <1>2, <2>1 DEF HealthStart, HealthTest, callVars
    <2>2. CASE HealthHalfOpen(h)
      BY <2>2 DEF HealthHalfOpen, callVars, BreakerConsistent, TypeOK
    <2> QED BY <1>9, <2>1, <2>2 DEF HealthStep
  <1>10. CASE UNCHANGED vars
    BY <1>2, <1>10 DEF vars
  <1> QED BY <1>4, <1>6, <1>7, <1>8, <1>9, <1>10 DEF Next, CallStep

\* A breaker counts up to its threshold and no further, and a request is never in
\* flight to an endpoint with an open breaker, whatever the health threads do.
THEOREM BreakersStayConsistent == Spec => []BreakerConsistent
  <1>1. Init => BreakerConsistent
    BY ClientAssumption DEF Init, BreakerConsistent, Closed
  <1> QED BY <1>1, TypeCorrect, NextBreaker, PTL DEF Spec

\* A step of an operation obeys the breaker's state machine.
LEMMA OperationBreakerStep ==
    ASSUME TypeOK, BreakerConsistent, HealthThreads = {}, [Next]_vars
    PROVE  BreakerStep
  <1>1. CASE UNCHANGED brk
    BY <1>1 DEF BreakerStep
  <1>2. CASE Send
    BY <1>2 DEF Send, should_allow, AfterAllow, BreakerStep, TypeOK
  <1>3. ASSUME pc = "sent", Succeeded \/ Failed PROVE BreakerStep
    <2>1. brk[idx] \in Breakers /\ brk[idx].state # "OPEN"
      BY <1>3 DEF BreakerConsistent, TypeOK, Breakers
    <2>2. brk[idx].state = "CLOSED" => brk[idx].failure_count < FailureThreshold
      BY DEF BreakerConsistent, TypeOK
    <2>3. CASE Succeeded
      BY <2>1, <2>3, SMTT(40) DEF Succeeded, record_success, BreakerStep, TypeOK, Breakers
    <2>4. CASE Failed
      <3>1. record_failure(brk[idx]).state # brk[idx].state /\ brk[idx].state = "CLOSED" =>
               /\ record_failure(brk[idx]).state = "OPEN"
               /\ brk[idx].failure_count + 1 = FailureThreshold
        BY <2>1, <2>2, ClientAssumption DEF record_failure, Breakers
      <3>2. brk'[idx] = record_failure(brk[idx]) /\ \A e \in Endpoints \ {idx} : brk'[e] = brk[e]
        BY <2>4, SMTT(40) DEF Failed, TypeOK
      <3> QED BY <2>1, <3>1, <3>2, SMTT(40) DEF BreakerStep
    <2> QED BY <1>3, <2>3, <2>4
  <1>4. CASE Reply
    BY <1>1, <1>3, <1>4, SMTT(40) DEF Reply, NoReply, ErrorReply, GarbageReply, PlainReply, etcd_put,
        etcd_delete, etcd_get, etcd_list, etcd_put_if_revision_matches
  <1>5. CASE BeginOperation \/ Skip \/ Exhausted \/ LateApply \/ OtherClient \/ Tick
    BY <1>1, <1>5 DEF BeginOperation, Begin, Skip, Exhausted, LateApply, OtherClient, Tick
  <1>6. CASE UNCHANGED vars
    BY <1>1, <1>6 DEF vars
  <1> QED BY <1>2, <1>4, <1>5, <1>6 DEF Next, CallStep

\* Without a health thread every breaker is a three-state machine that opens exactly
\* on the threshold's failure and leaves OPEN only after the timeout.
THEOREM BreakerIsStateMachine ==
    ASSUME HealthThreads = {}
    PROVE  Spec => BreakerStateMachine
  <1>1. TypeOK /\ BreakerConsistent /\ [Next]_vars => [BreakerStep]_vars
    BY OperationBreakerStep
  <1> QED BY <1>1, TypeCorrect, BreakersStayConsistent, PTL DEF Spec, BreakerStateMachine

---------------------------------------------------------------------------
(* What a returned status means.                                           *)

\* A write of etcd_put returns the revision the store gave to that write.
THEOREM PutRevision == Spec => []PutRevisionIsItsOwn
  <1>1. Init => PutRevisionIsItsOwn
    BY DEF Init, PutRevisionIsItsOwn, NoReturn, NoOp
  <1>2. TypeOK /\ PutRevisionIsItsOwn /\ [Next]_vars => PutRevisionIsItsOwn'
    <2> SUFFICES ASSUME TypeOK, PutRevisionIsItsOwn, [Next]_vars PROVE PutRevisionIsItsOwn'
      BY SMTT(40)
    <2>1. applied \subseteq applied'
      BY Zenon DEF Next, CallStep, Reply, BeginOperation, Begin, Skip, Send, Exhausted, NoReply,
             ErrorReply, GarbageReply, PlainReply, etcd_put, etcd_delete, etcd_get,
             etcd_list, etcd_put_if_revision_matches, LateApply, OtherClient, Tick,
             HealthStep, HealthStart, HealthTest, HealthHalfOpen, Apply, storeVars, vars
    <2>2. CASE UNCHANGED ret
      BY <2>1, <2>2 DEF PutRevisionIsItsOwn
    <2>3. CASE \E st, v : Break(st, v, 0)
      BY <2>3 DEF Break, PutRevisionIsItsOwn
    <2>4. CASE op.kind # "put" /\ \E st, v, r : Break(st, v, r)
      BY <2>4 DEF Break, PutRevisionIsItsOwn
    <2>5. CASE etcd_put
      BY <2>5 DEF etcd_put, Apply, Takes, Break, PutRevisionIsItsOwn
    <2>6. CASE Reply
      BY <2>2, <2>3, <2>4, <2>5, <2>6
      DEF Reply, NoReply, ErrorReply, GarbageReply, PlainReply, etcd_delete, etcd_get,
          etcd_list, etcd_put_if_revision_matches, Advance, clientVars
    <2>7. CASE Exhausted
      BY <2>3, <2>7, SMTT(40) DEF Exhausted
    <2>8. CASE BeginOperation \/ Skip \/ Send \/ LateApply \/ OtherClient \/ Tick
      BY <2>2, <2>8 DEF BeginOperation, Begin, Skip, Send, Advance, LateApply, OtherClient,
                        Tick, clientVars
    <2>9. CASE \E h \in HealthThreads : HealthStep(h)
      BY <2>2, <2>9, Zenon DEF HealthStep, HealthStart, HealthTest, HealthHalfOpen
    <2>10. CASE UNCHANGED vars
      BY <2>2, <2>10 DEF vars
    <2> QED BY <2>6, <2>7, <2>8, <2>9, <2>10 DEF Next, CallStep
  <1> QED BY <1>1, <1>2, TypeCorrect, PTL DEF Spec

\* The status of a write under way is never the OK of an earlier attempt.
OkInv == OkMeansApplied /\ (pc # "idle" /\ op.kind \in Writes => status # "OK")

\* When replies to writes may be lost but each that arrives is a 200 with a complete
\* JSON body, a write that returns ETCD_OK was performed by the store.
THEOREM OkIsApplied ==
    ASSUME Anomalies \cap (Writes \X {"http_error", "garbage", "omit"}) = {}
    PROVE  Spec => []OkMeansApplied
  <1>1. Init => OkInv
    BY DEF Init, OkInv, OkMeansApplied, NoReturn
  <1>2. TypeOK /\ OkInv /\ [Next]_vars => OkInv'
    <2> SUFFICES ASSUME TypeOK, OkInv, [Next]_vars PROVE OkInv'
      OBVIOUS
    <2>1. applied \subseteq applied'
      BY Zenon DEF Next, CallStep, Reply, BeginOperation, Begin, Skip, Send, Exhausted, NoReply,
             ErrorReply, GarbageReply, PlainReply, etcd_put, etcd_delete, etcd_get,
             etcd_list, etcd_put_if_revision_matches, LateApply, OtherClient, Tick,
             HealthStep, HealthStart, HealthTest, HealthHalfOpen, Apply, storeVars, vars
    <2>2. CASE UNCHANGED <<ret, op, pc, status>>
      BY <2>1, <2>2 DEF OkInv, OkMeansApplied
    <2>3. CASE UNCHANGED ret /\ (status' # "OK" \/ op'.kind \notin Writes)
      BY <2>1, <2>3 DEF OkInv, OkMeansApplied
    <2>4. CASE \E st, v, r : Break(st, v, r) /\ (st # "OK" \/ op.kind \notin Writes)
      BY <2>4 DEF Break, OkInv, OkMeansApplied
    <2>5. ASSUME op.kind \in Writes, Takes(op), Apply(op), NEW v, NEW r, Break("OK", v, r)
          PROVE  OkInv'
      <3>1. [op |-> op, rev |-> rev'] \in applied'
        BY <2>5 DEF Apply
      <3>2. ret'.op = op /\ pc' = "idle"
        BY <2>5 DEF Break
      <3>3. \E a \in applied' : a.op = ret'.op
        BY <3>1, <3>2
      <3> QED BY <3>2, <3>3, SMTT(40) DEF OkInv, OkMeansApplied
    <2>6. CASE PlainReply
      <3>1. CASE etcd_put \/ etcd_delete
        BY <2>5, <3>1 DEF etcd_put, etcd_delete, Takes, Writes
      <3>2. CASE etcd_get
        BY <2>3, <2>4, <3>2 DEF etcd_get, Advance, clientVars, Writes
      <3>3. CASE etcd_list
        BY <2>4, <3>3 DEF etcd_list, Writes
      <3>4. CASE etcd_put_if_revision_matches
        BY <2>4, <2>5, <3>4 DEF etcd_put_if_revision_matches, Anomaly, Writes
      <3> QED BY <2>6, <3>1, <3>2, <3>3, <3>4 DEF PlainReply
    <2>7. CASE NoReply \/ ErrorReply \/ GarbageReply
      <3>1. op.kind \in Writes => ~ErrorReply /\ ~GarbageReply
        BY DEF ErrorReply, GarbageReply, Anomaly
      <3>2. CASE op.kind \in Writes
        BY <2>3, <2>7, <3>1, <3>2 DEF NoReply, Advance, clientVars
      <3>3. CASE op.kind \notin Writes
        BY <2>3, <2>7, <3>3 DEF NoReply, ErrorReply, GarbageReply, Advance, clientVars, Writes
      <3> QED BY <3>2, <3>3
    <2>8. CASE Exhausted
      BY <2>4, <2>8 DEF Exhausted, OkInv
    <2>9. CASE BeginOperation
      BY <2>3, <2>9 DEF BeginOperation, Begin, clientVars
    <2>10. CASE Skip \/ Send
      BY <2>1, <2>3, <2>10, SMTT(40) DEF Skip, Send, Advance, OkInv, clientVars
    <2>11. CASE LateApply \/ OtherClient \/ Tick
      BY <2>2, <2>11 DEF LateApply, OtherClient, Tick, callVars
    <2>12. CASE \E h \in HealthThreads : HealthStep(h)
      BY <2>2, <2>12, Zenon DEF HealthStep, HealthStart, HealthTest, HealthHalfOpen, callVars
    <2>13. CASE UNCHANGED vars
      BY <2>2, <2>13 DEF vars
    <2> QED BY <2>6, <2>7, <2>8, <2>9, <2>10, <2>11, <2>12, <2>13 DEF Next, CallStep, Reply
  <1>3. OkInv => OkMeansApplied
    BY DEF OkInv
  <1> QED BY <1>1, <1>2, <1>3, TypeCorrect, PTL DEF Spec

---------------------------------------------------------------------------
(* Failover.                                                               *)

\* How many times the round-robin index advances before it reaches r.
Distance(i, r) == IF i <= r THEN r - i ELSE r - i + EndpointCount

\* Advancing past another endpoint brings the index one closer to r.
LEMMA DistanceShrinks ==
    ASSUME idx \in Endpoints, NEW r \in Endpoints, idx # r
    PROVE  Distance(NextEndpoint, r) = Distance(idx, r) - 1
  <1>1. EndpointCount \in Nat \ {0} /\ idx \in 0 .. EndpointCount - 1 /\ r \in 0 .. EndpointCount - 1
    BY ClientAssumption DEF Endpoints
  <1>2. CASE idx + 1 < EndpointCount
    <2>1. NextEndpoint = idx + 1
      BY <1>1, <1>2 DEF NextEndpoint
    <2> QED BY <1>1, <1>2, <2>1 DEF Distance
  <1>3. CASE idx + 1 = EndpointCount
    <2>1. NextEndpoint = 0
      BY <1>1, <1>3 DEF NextEndpoint
    <2> QED BY <1>1, <1>3, <2>1 DEF Distance
  <1> QED BY <1>1, <1>2, <1>3

\* The breaker of an endpoint that always answers stays closed, no health thread is
\* about to half-open it, and a call other than etcd_get still has the attempts it
\* needs to reach it.
FailoverInv ==
    /\ \A r \in Reliable :
        /\ brk[r].state = "CLOSED" /\ brk[r].failure_count = 0
        /\ \A h \in HealthThreads : hc[h].pc = "half_open" => hc[h].i # r
        /\ pc # "idle" /\ op.kind # "get" => attempt + Distance(idx, r) < EndpointCount
    /\ ReliableEndpointServes

LEMMA NextFailover == TypeOK /\ FailoverInv /\ [Next]_vars => FailoverInv'
  <1> SUFFICES ASSUME TypeOK, FailoverInv, [Next]_vars PROVE FailoverInv'
    OBVIOUS
  <1> DEFINE Quiet(r)  == brk[r].state = "CLOSED" /\ brk[r].failure_count = 0
             Spared(r) == \A h \in HealthThreads : hc[h].pc = "half_open" => hc[h].i # r
             Ahead(r)  == pc # "idle" /\ op.kind # "get" =>
                             attempt + Distance(idx, r) < EndpointCount
  <1>1. Reliable \subseteq Endpoints /\ EndpointCount \in Nat \ {0} /\ MaxRetries \in Nat
    BY ClientAssumption
  <1>2. \A i, r \in Endpoints : Distance(i, r) \in 0 .. EndpointCount - 1
    BY <1>1 DEF Distance, Endpoints
  <1>3. ASSUME NEW r \in Reliable, idx # r, NEW st, Advance(st), pc # "idle"
        PROVE  Ahead(r)'
    <2>1. Distance(idx', r) = Distance(idx, r) - 1 /\ attempt' = attempt + 1
      BY <1>1, <1>3, DistanceShrinks DEF Advance, TypeOK
    <2>2. Distance(idx, r) \in Int /\ attempt \in Int
      BY <1>1, <1>2 DEF TypeOK
    <2>3. Ahead(r) /\ op' = op
      BY <1>3 DEF Advance, FailoverInv
    <2> QED BY <1>1, <1>3, <2>1, <2>2, <2>3
  <1>4. ASSUME NEW st, Advance(st), pc # "idle", op.kind = "get" \/ idx \notin Reliable
        PROVE  \A r \in Reliable : Ahead(r)'
    BY <1>3, <1>4 DEF Advance
  <1>5. ASSUME UNCHANGED hc PROVE \A r \in Reliable : Spared(r)'
    BY <1>5, SMTT(40) DEF FailoverInv
  <1>6. CASE Reply
    <2>1. UNCHANGED hc
      BY <1>6, SMTT(40) DEF Reply, NoReply, ErrorReply, GarbageReply, PlainReply
    <2>2. \/ \E st \in {"OK", "CAS_FAILED"} : \E v, r : Break(st, v, r)
          \/ \E st : Advance(st) /\ (op.kind = "get" \/ idx \notin Reliable)
      BY <1>6, SMTT(40) DEF Reply, NoReply, ErrorReply, GarbageReply, PlainReply, etcd_put,
                  etcd_delete, etcd_get, etcd_list, etcd_put_if_revision_matches, Anomaly
    <2>3. UNCHANGED brk \/ Succeeded \/ (Failed /\ idx \notin Reliable)
      BY <1>6 DEF Reply, NoReply, ErrorReply, GarbageReply, PlainReply, etcd_put,
                  etcd_delete, etcd_get, etcd_list, etcd_put_if_revision_matches, Anomaly
    <2>4. \A r \in Reliable : Quiet(r)'
      <3>1. CASE UNCHANGED brk
        BY <3>1 DEF FailoverInv
      <3>2. CASE Succeeded
        BY <1>1, <3>2 DEF Succeeded, record_success, FailoverInv, TypeOK
      <3>3. CASE Failed /\ idx \notin Reliable
        BY <1>1, <3>3 DEF Failed, FailoverInv, TypeOK
      <3> QED BY <2>3, <3>1, <3>2, <3>3
    <2>5. \A r \in Reliable : Ahead(r)'
      <3>1. pc # "idle"
        BY <1>6, SMTT(40) DEF Reply, NoReply, ErrorReply, GarbageReply, PlainReply
      <3> QED BY <1>4, <2>2, <3>1 DEF Break
    <2>6. ReliableEndpointServes'
      BY <2>2, SMTT(40) DEF Break, Advance, clientVars, FailoverInv, ReliableEndpointServes
    <2> QED BY <1>5, <2>1, <2>4, <2>5, <2>6 DEF FailoverInv
  <1>7. CASE Skip
    <2>1. idx \notin Reliable
      BY <1>7, SMTT(40) DEF Skip, should_allow, FailoverInv
    <2> QED BY <1>4, <1>5, <1>7, <2>1
      DEF Skip, Advance, clientVars, FailoverInv, ReliableEndpointServes
  <1>8. CASE Send
    <2>1. \A r \in Reliable : Quiet(r)'
      BY <1>1, <1>8, SMTT(40) DEF Send, AfterAllow, FailoverInv, TypeOK
    <2>2. \A r \in Reliable : Ahead(r)'
      BY <1>8, SMTT(40) DEF Send, FailoverInv
    <2> QED BY <1>5, <1>8, <2>1, <2>2 DEF Send, clientVars, FailoverInv, ReliableEndpointServes
  <1>9. CASE Exhausted
    <2>1. ReliableEndpointServes'
      <3>1. ASSUME NEW r \in Reliable, MaxRetries >= EndpointCount PROVE op.kind = "get"
        BY <1>1, <1>2, <1>9, <3>1, SMTT(40) DEF Exhausted, FailoverInv, TypeOK
      <3> QED BY <1>9, <3>1 DEF Exhausted, Break, ReliableEndpointServes
    <2> QED BY <1>9, <2>1 DEF Exhausted, Break, FailoverInv
  <1>10. CASE BeginOperation
    <2>1. idx' = cur /\ attempt' = 0 /\ UNCHANGED <<brk, hc, ret>>
      BY <1>10 DEF BeginOperation, Begin, clientVars
    <2>2. \A r \in Reliable : Ahead(r)'
      BY <1>1, <1>2, <2>1 DEF TypeOK
    <2> QED BY <2>1, <2>2 DEF FailoverInv, ReliableEndpointServes
  <1>11. CASE UNCHANGED <<brk, hc, ret, pc, op, attempt, idx>>
    BY <1>11, SMTT(40) DEF FailoverInv, ReliableEndpointServes
  <1>12. CASE LateApply \/ OtherClient \/ Tick \/ UNCHANGED vars
    BY <1>11, <1>12 DEF LateApply, OtherClient, Tick, callVars, vars
  <1>13. ASSUME NEW h \in HealthThreads, HealthStep(h) PROVE FailoverInv'
    <2>1. \A r \in Reliable : Quiet(r)'
      BY <1>1, <1>13, Zenon DEF HealthStep, HealthStart, HealthTest, HealthHalfOpen, FailoverInv, TypeOK
    <2>2. \A r \in Reliable : Spared(r)'
      <3>1. \A a \in BOOLEAN : ScanAfter(hc[h], a).pc # "half_open"
        BY DEF ScanAfter
      <3>2. \A g \in HealthThreads \ {h} : hc'[g] = hc[g]
        BY <1>13, Zenon DEF HealthStep, HealthStart, HealthTest, HealthHalfOpen, TypeOK
      <3>3. hc'[h].pc = "half_open" => brk[hc'[h].i].state = "OPEN"
        <4>1. CASE HealthStart(h)
          <5>1. PICK all \in BOOLEAN : hc' = [hc EXCEPT ![h] = [pc |-> "test", i |-> 0, all |-> all]]
            BY <4>1 DEF HealthStart
          <5>2. hc'[h] = [pc |-> "test", i |-> 0, all |-> all]
            BY <5>1 DEF TypeOK
          <5>3. "test" # "half_open"
            OBVIOUS
          <5> QED BY <5>2, <5>3
        <4>2. CASE HealthTest(h)
          <5>1. ScanAfter(hc[h], brk[hc[h].i].state # "OPEN").pc # "half_open"
            BY <3>1, (brk[hc[h].i].state # "OPEN") \in BOOLEAN, Zenon
          <5> QED BY <4>2, <5>1, SMTT(40) DEF HealthTest, TypeOK
        <4>3. CASE HealthHalfOpen(h)
          BY <4>3, <3>1, Zenon DEF HealthHalfOpen, TypeOK
        <4> QED BY <1>13, <4>1, <4>2, <4>3 DEF HealthStep
      <3> QED BY <3>2, <3>3, SMTT(40) DEF FailoverInv
    <2> QED BY <1>13, <2>1, <2>2, Zenon DEF HealthStep, HealthStart, HealthTest, HealthHalfOpen,
               callVars, FailoverInv, ReliableEndpointServes
  <1> QED BY <1>6, <1>7, <1>8, <1>9, <1>10, <1>12, <1>13 DEF Next, CallStep

\* Failover for every number of endpoints: with an endpoint that always answers and
\* at least as many attempts as endpoints, only reads can end in a transport error.
THEOREM Failover == Spec => []ReliableEndpointServes
  <1>1. Init => FailoverInv
    BY ClientAssumption, SMTT(40) DEF Init, FailoverInv, ReliableEndpointServes, Closed, NoReturn, NoOp
  <1>2. FailoverInv => ReliableEndpointServes
    BY Zenon DEF FailoverInv
  <1> QED BY <1>1, <1>2, TypeCorrect, NextFailover, PTL DEF Spec

---------------------------------------------------------------------------
(* The properties as the runs state them.                                  *)

\* What ETCD_OK says: when replies to writes are lost but never malformed or refused, a
\* write that returned OK was performed, and etcd_put returned the revision of that write.
THEOREM OkWriteIsItsOwn ==
    ASSUME Anomalies \cap (Writes \X {"http_error", "garbage", "omit"}) = {}
    PROVE  Spec => []OkMeansItsOwnWrite
BY TypeCorrect, OkIsApplied, PutRevision, PTL DEF OkMeansItsOwnWrite

\* An endpoint's breaker keeps its counters consistent and obeys its state machine when
\* no thread calls etcd_is_healthy.
THEOREM BreakersWork ==
    ASSUME HealthThreads = {}
    PROVE  Spec => BreakerWorks
BY BreakersStayConsistent, BreakerIsStateMachine, PTL DEF BreakerWorks

\* Failover with any number of threads in etcd_is_healthy: the breakers stay consistent and
\* an endpoint that always answers serves every write and list.
THEOREM FailoverServes == Spec => []FailoverWorks
BY BreakersStayConsistent, Failover, PTL DEF FailoverWorks

===========================================================================
