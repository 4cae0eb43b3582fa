------------------------- MODULE WatchManagerProofs -------------------------
(***************************************************************************)
(* Proofs about WatchManager, for any capacity of the ring, any number of  *)
(* watches and any events.                                                 *)
(*                                                                         *)
(* RingInv says where the events are: from slot 0 on until the ring has    *)
(* filled up, and from head_index = tail_index on afterwards.  HandlerInv  *)
(* says what a handler knows in the middle of watch_manager_get_event: all *)
(* events between the last delivered and `next' are filtered out.          *)
(***************************************************************************)
EXTENDS WatchManager, TLAPS

LogEvents == [type : {"OBJECT", "CONTROL"}, object : SUBSET Attributes]
Slots     == [type : {"OBJECT", "CONTROL"}, object : SUBSET Attributes, sequence_number : Nat]

\* The event with number s as it is stored.
Stored(l, s) == [type |-> l[s + 1].type, object |-> l[s + 1].object, sequence_number |-> s]

RingInv ==
    /\ size \in 0 .. CAPACITY
    /\ head_index \in 0 .. CAPACITY - 1 /\ tail_index \in 0 .. CAPACITY - 1
    /\ events \in [0 .. CAPACITY - 1 -> Slots]
    /\ log \in Seq(LogEvents) /\ global_sequence = Len(log)
    /\ size = IF global_sequence < CAPACITY THEN global_sequence ELSE CAPACITY
    /\ size < CAPACITY => head_index = 0 /\ tail_index = size
    /\ size = CAPACITY => head_index = tail_index
    /\ \A i \in 0 .. size - 1 : events[Slot(i)] = Stored(log, global_sequence - size + i)

Handlers ==
    [pc : {"idle", "stream", "poll", "missed", "null", "write"}, filters : SUBSET Attributes,
     last_delivered_event : Nat \cup {-1}, next : Nat, sent : Seq(Nat)]

HandlerInv ==
    /\ h \in [Watches -> Handlers]
    /\ \A w \in Watches :
          /\ h[w].last_delivered_event < Len(log)
          /\ h[w].pc = "idle" => h[w] = Idle
          /\ h[w].pc = "write" => h[w].last_delivered_event \in Nat
          /\ h[w].pc \in {"poll", "missed"} =>
                /\ h[w].last_delivered_event < h[w].next /\ h[w].next <= Len(log)
                /\ \A j \in h[w].last_delivered_event + 1 .. h[w].next - 1 :
                      ~Matches(h[w].filters, log[j + 1])

---------------------------------------------------------------------------
(* Arithmetic of the indices.                                              *)

\* An index that has gone round at most once.
LEMMA ModOnce ==
    ASSUME NEW c \in Nat \ {0}, NEW a \in Nat, a < 2 * c
    PROVE  a % c = IF a < c THEN a ELSE a - c
<1>1. CASE a < c
  <2>1. a = c * 0 + a
    OBVIOUS
  <2> QED BY <1>1, <2>1
<1>2. CASE a >= c
  <2>1. a = c * 1 + (a - c) /\ a - c \in 0 .. c - 1
    BY <1>2
  <2> QED BY <1>2, <2>1
<1> QED BY <1>1, <1>2

\* Where the i-th event is, when the oldest is at slot k.
LEMMA SlotAt ==
    ASSUME NEW k \in 0 .. CAPACITY - 1, NEW i \in 0 .. CAPACITY - 1
    PROVE  (k + i) % CAPACITY = IF k + i < CAPACITY THEN k + i ELSE k + i - CAPACITY
<1>1. \A a \in Nat : a < 2 * CAPACITY =>
         a % CAPACITY = IF a < CAPACITY THEN a ELSE a - CAPACITY
  BY ModOnce, WatchAssumption, Zenon
<1> DEFINE a == k + i
<1>2. a \in Nat /\ a < 2 * CAPACITY
  BY WatchAssumption
<1>3. a % CAPACITY = IF a < CAPACITY THEN a ELSE a - CAPACITY
  <2> HIDE DEF a
  <2> QED BY <1>1, <1>2
<1> QED BY <1>3, WatchAssumption

\* The slot after slot k.
LEMMA NextSlot ==
    ASSUME NEW k \in 0 .. CAPACITY - 1
    PROVE  (k + 1) % CAPACITY = IF k + 1 < CAPACITY THEN k + 1 ELSE 0
BY ModOnce, WatchAssumption

---------------------------------------------------------------------------
(* The ring.                                                               *)

LEMMA RingInit == Init => RingInv
BY WatchAssumption DEF Init, RingInv, Zero, Slots

LEMMA PublishKeepsRing ==
    ASSUME RingInv, NEW type \in {"OBJECT", "CONTROL"}, NEW object \in SUBSET Attributes,
           Publish(type, object)
    PROVE  RingInv'
<1> USE WatchAssumption
<1> DEFINE c == CAPACITY
           g == global_sequence
           ev == [type |-> type, object |-> object]
           e == [type |-> type, object |-> object, sequence_number |-> g]
<1>1. /\ log' = Append(log, ev) /\ g' = g + 1
      /\ events' = [events EXCEPT ![tail_index] = e]
      /\ tail_index' = (tail_index + 1) % c
      /\ size = c => size' = size /\ head_index' = (head_index + 1) % c
      /\ size # c => size' = size + 1 /\ head_index' = head_index
  BY DEF Publish, watch_ring_buffer_push
<1>2. g \in Nat /\ g = Len(log) /\ ev \in LogEvents /\ e \in Slots
  BY DEF RingInv, LogEvents, Slots
<1>3. log' \in Seq(LogEvents) /\ Len(log') = g + 1 /\ log'[g + 1] = ev
      /\ \A s \in 1 .. g : log'[s] = log[s]
  BY <1>1, <1>2 DEF RingInv
<1>4. Stored(log', g) = e /\ \A s \in 0 .. g - 1 : Stored(log', s) = Stored(log, s)
  BY <1>2, <1>3 DEF Stored
<1>5. /\ events' \in [0 .. c - 1 -> Slots] /\ events'[tail_index] = e
      /\ \A k \in 0 .. c - 1 : k # tail_index => events'[k] = events[k]
  BY <1>1, <1>2 DEF RingInv
<1>6. tail_index' = IF tail_index + 1 < c THEN tail_index + 1 ELSE 0
  BY <1>1, NextSlot DEF RingInv
<1>7. CASE size # c
  <2>1. size \in 0 .. c - 1 /\ head_index = 0 /\ tail_index = size /\ g = size
    BY <1>7 DEF RingInv
  <2>2. size' = size + 1 /\ head_index' = 0 /\ g' = size + 1
    BY <1>1, <1>7, <2>1
  <2>3. ASSUME NEW i \in 0 .. size' - 1
        PROVE  events'[(head_index' + i) % c] = Stored(log', g' - size' + i)
    <3>0. i \in 0 .. size /\ i \in 0 .. c - 1 /\ g' - size' + i = i
      BY <2>1, <2>2
    <3>1. i \in 0 .. size /\ (0 + i) % c = i /\ g' - size' + i = i
      <4>1. i < 2 * c
        BY <3>0
      <4> QED BY <3>0, <4>1, ModOnce
    <3>2. CASE i = size
      BY <1>4, <1>5, <2>1, <2>2, <3>1, <3>2
    <3>3. CASE i # size
      <4>1. i \in 0 .. size - 1
        BY <2>1, <3>1, <3>3
      <4>2. events[(head_index + i) % c] = Stored(log, g - size + i)
        BY <4>1 DEF RingInv, Slot
      <4>3. events[i] = Stored(log, i)
        BY <2>1, <3>1, <4>2
      <4>4. events'[i] = events[i]
        BY <1>5, <2>1, <4>1
      <4>5. Stored(log', i) = Stored(log, i)
        BY <1>4, <2>1, <4>1
      <4> QED BY <2>2, <3>1, <4>3, <4>4, <4>5
    <3> QED BY <3>2, <3>3
  <2>4. /\ size' \in 0 .. c /\ head_index' \in 0 .. c - 1 /\ tail_index' \in 0 .. c - 1
        /\ size' = IF g' < c THEN g' ELSE c
        /\ size' < c => head_index' = 0 /\ tail_index' = size'
        /\ size' = c => head_index' = tail_index'
    BY <1>6, <2>1, <2>2
  <2> QED BY <1>2, <1>3, <1>5, <2>2, <2>3, <2>4, <1>1 DEF RingInv, Slot
<1>8. CASE size = c
  <2> DEFINE t == tail_index
             u == IF t + 1 < c THEN t + 1 ELSE 0
  <2>1. t \in 0 .. c - 1 /\ head_index = t /\ g >= c
    BY <1>2, <1>8 DEF RingInv
  <2>2. size' = c /\ head_index' = u /\ tail_index' = u /\ u \in 0 .. c - 1
    BY <1>1, <1>6, <1>8, <2>1, NextSlot
  <2>3. ASSUME NEW i \in 0 .. c - 1
        PROVE  events'[(u + i) % c] = Stored(log', g + 1 - c + i)
    <3>1. (u + i) % c = IF u + i < c THEN u + i ELSE u + i - c
      BY <2>2, SlotAt, Zenon
    <3>2. CASE i = c - 1
      <4>1. (u + i) % c = t
        BY <2>1, <3>1, <3>2
      <4>2. g + 1 - c + i = g
        BY <1>2, <3>2
      <4> QED BY <1>4, <1>5, <4>1, <4>2
    <3>3. CASE i # c - 1
      <4>1. i + 1 \in 0 .. c - 1
        BY <3>3
      <4>2. (t + (i + 1)) % c = IF t + (i + 1) < c THEN t + (i + 1) ELSE t + (i + 1) - c
        BY <2>1, <4>1, SlotAt, Zenon
      <4>3. (u + i) % c = (t + (i + 1)) % c /\ (u + i) % c # t /\ (u + i) % c \in 0 .. c - 1
        BY <2>1, <3>1, <4>1, <4>2
      <4>4. events[(t + (i + 1)) % c] = Stored(log, g - c + (i + 1))
        BY <1>8, <2>1, <4>1, SMTT(40) DEF RingInv, Slot
      <4>5. g - c + (i + 1) \in 0 .. g - 1 /\ g - c + (i + 1) = g + 1 - c + i
        BY <1>2, <2>1, <4>1
      <4>6. Stored(log', g + 1 - c + i) = Stored(log, g - c + (i + 1))
        BY <1>4, <4>5
      <4>7. events'[(u + i) % c] = events[(u + i) % c]
        BY <1>5, <4>3
      <4> QED BY <4>3, <4>4, <4>6, <4>7
    <3> QED BY <3>2, <3>3
  <2>4. \A i \in 0 .. size' - 1 : events'[(head_index' + i) % c] = Stored(log', g' - size' + i)
    <3>1. g' - size' = g + 1 - c /\ size' - 1 = c - 1
      BY <1>1, <1>2, <2>2
    <3> QED BY <2>2, <2>3, <3>1
  <2>5. size' = IF g' < c THEN g' ELSE c
    BY <1>1, <1>2, <2>1, <2>2
  <2>6. \A i \in 0 .. size' - 1 : events'[Slot(i)'] = Stored(log', g' - size' + i)
    BY <2>4 DEF Slot
  <2>7. /\ size' \in 0 .. c /\ head_index' \in 0 .. c - 1 /\ tail_index' \in 0 .. c - 1
        /\ head_index' = tail_index' /\ ~(size' < c) /\ g' = Len(log')
    BY <1>1, <1>2, <1>3, <2>2
  <2> QED BY <1>3, <1>5, <2>5, <2>6, <2>7 DEF RingInv, Slot
<1> QED BY <1>7, <1>8

\* An event the ring holds is an event of the log, under its number.
LEMMA FoundIsStored ==
    ASSUME RingInv, NEW s, NEW k \in Found(s)
    PROVE  /\ s \in 0 .. Len(log) - 1
           /\ events[k] = Stored(log, s)
<1>1. PICK i \in 0 .. size - 1 : k = Slot(i) /\ events[k].sequence_number = s
  BY DEF Found
<1>2. events[k] = Stored(log, global_sequence - size + i)
  BY <1>1 DEF RingInv
<1>3. s = global_sequence - size + i
  BY <1>1, <1>2 DEF Stored
<1>4. global_sequence - size + i \in 0 .. global_sequence - 1
  BY WatchAssumption DEF RingInv
<1> QED BY <1>2, <1>3, <1>4 DEF RingInv

---------------------------------------------------------------------------
(* The handlers.                                                           *)

LEMMA HandlerInit == Init => HandlerInv
BY DEF Init, HandlerInv, Handlers, Idle, State

\* A handler's step replaces its record by one that satisfies the invariant.
Good(r) ==
    /\ r \in Handlers
    /\ r.last_delivered_event < Len(log)
    /\ r.pc = "idle" => r = Idle
    /\ r.pc = "write" => r.last_delivered_event \in Nat
    /\ r.pc \in {"poll", "missed"} =>
          /\ r.last_delivered_event < r.next /\ r.next <= Len(log)
          /\ \A j \in r.last_delivered_event + 1 .. r.next - 1 : ~Matches(r.filters, log[j + 1])

LEMMA SetKeeps ==
    ASSUME HandlerInv, NEW w \in Watches, NEW r, Good(r), Set(w, r), UNCHANGED log
    PROVE  HandlerInv'
<1>1. h' = [h EXCEPT ![w] = r] /\ h \in [Watches -> Handlers] /\ r \in Handlers
  BY DEF Set, HandlerInv, Good
<1>2. h' \in [Watches -> Handlers] /\ h'[w] = r /\ \A v \in Watches : v # w => h'[v] = h[v]
  BY <1>1
<1>3. ASSUME NEW v \in Watches
      PROVE  /\ h'[v].last_delivered_event < Len(log)
             /\ h'[v].pc = "idle" => h'[v] = Idle
             /\ h'[v].pc = "write" => h'[v].last_delivered_event \in Nat
             /\ h'[v].pc \in {"poll", "missed"} =>
                   /\ h'[v].last_delivered_event < h'[v].next /\ h'[v].next <= Len(log)
                   /\ \A j \in h'[v].last_delivered_event + 1 .. h'[v].next - 1 :
                         ~Matches(h'[v].filters, log[j + 1])
  <2>1. CASE v = w
    BY <1>2, <2>1 DEF Good
  <2>2. CASE v # w
    BY <1>2, <2>2 DEF HandlerInv
  <2> QED BY <2>1, <2>2
<1> QED BY <1>2, <1>3 DEF HandlerInv, Idle, State

LEMMA GoodState ==
    ASSUME NEW f \in SUBSET Attributes, NEW l \in Nat \cup {-1}, NEW n \in Nat, NEW t \in Seq(Nat),
           NEW pc \in {"stream", "poll", "missed", "null", "write"}, l < Len(log), Len(log) \in Nat,
           pc = "write" => l \in Nat,
           pc \in {"poll", "missed"} => /\ l < n /\ n <= Len(log)
                                        /\ \A j \in l + 1 .. n - 1 : ~Matches(f, log[j + 1])
    PROVE  Good(State(pc, f, l, n, t))
<1> DEFINE r == State(pc, f, l, n, t)
<1>1. r \in Handlers
  BY DEF State, Handlers
<1>2. r.pc = pc /\ r.filters = f /\ r.last_delivered_event = l /\ r.next = n
  BY DEF State
<1> HIDE DEF r
<1>3. Good(r)
  BY <1>1, <1>2 DEF Good
<1> QED BY <1>3 DEF r

\* A handler that moves on.
LEMMA GoKeeps ==
    ASSUME RingInv, HandlerInv, NEW w \in Watches,
           NEW pc \in {"stream", "poll", "missed", "null"}, NEW n \in Nat, Go(w, pc, n), UNCHANGED log,
           pc \in {"poll", "missed"} =>
               /\ h[w].last_delivered_event < n /\ n <= Len(log)
               /\ \A j \in h[w].last_delivered_event + 1 .. n - 1 : ~Matches(h[w].filters, log[j + 1])
    PROVE  HandlerInv'
<1> DEFINE r == h[w]
<1>1. r \in Handlers /\ Len(log) \in Nat /\ r.last_delivered_event < Len(log)
  BY DEF HandlerInv, RingInv
<1>2. /\ r.filters \in SUBSET Attributes /\ r.last_delivered_event \in Nat \cup {-1}
      /\ r.sent \in Seq(Nat)
  BY <1>1 DEF Handlers
<1>3. Good(State(pc, r.filters, r.last_delivered_event, n, r.sent))
  BY <1>1, <1>2, GoodState
<1> QED BY <1>3, SetKeeps DEF Go

LEMMA HandlerKeeps ==
    ASSUME RingInv, HandlerInv, NEW w \in Watches, Handler(w)
    PROVE  HandlerInv'
<1> DEFINE r == h[w]
<1>1. /\ r \in Handlers /\ Len(log) \in Nat /\ r.last_delivered_event < Len(log)
      /\ r.pc \in {"poll", "missed"} =>
            /\ r.last_delivered_event < r.next /\ r.next <= Len(log)
            /\ \A j \in r.last_delivered_event + 1 .. r.next - 1 : ~Matches(r.filters, log[j + 1])
  BY DEF HandlerInv, RingInv
<1>2. /\ r.filters \in SUBSET Attributes /\ r.last_delivered_event \in Nat \cup {-1}
      /\ r.next \in Nat /\ r.sent \in Seq(Nat)
  BY <1>1 DEF Handlers
<1>3. CASE GetEvent(w)
  <2>1. /\ r.last_delivered_event + 1 \in Nat /\ r.last_delivered_event < r.last_delivered_event + 1
        /\ r.last_delivered_event + 1 <= Len(log)
        /\ \A j \in r.last_delivered_event + 1 .. (r.last_delivered_event + 1) - 1 : FALSE
    BY <1>1, <1>2, SMTT(40)
  <2> QED BY <1>3, <2>1, GoKeeps DEF GetEvent
<1>4. ASSUME NEW k \in Found(r.next), r.pc = "poll", PollSkip(w, k), UNCHANGED log
      PROVE  HandlerInv'
  <2>1. r.next \in 0 .. Len(log) - 1 /\ events[k] = Stored(log, r.next)
    BY <1>4, FoundIsStored
  <2>2. ~Matches(r.filters, log[r.next + 1])
    BY <1>4, <2>1 DEF PollSkip, Matches, Stored
  <2>3. \A j \in r.last_delivered_event + 1 .. (r.next + 1) - 1 : ~Matches(r.filters, log[j + 1])
    BY <1>1, <1>2, <1>4, <2>2, SMTT(40)
  <2>4. r.next + 1 \in Nat /\ r.last_delivered_event < r.next + 1 /\ r.next + 1 <= Len(log)
    BY <1>1, <1>2, <1>4, <2>1
  <2> QED BY <1>4, <2>3, <2>4, GoKeeps DEF PollSkip
<1>5. ASSUME NEW k \in Found(r.next), r.pc = "poll", PollHit(w, k), UNCHANGED log
      PROVE  HandlerInv'
  <2>1. r.next \in 0 .. Len(log) - 1 /\ events[k].sequence_number = r.next
    BY <1>5, FoundIsStored DEF Found
  <2>2. Good(State("write", r.filters, r.next, 0, r.sent))
    BY <1>1, <1>2, <2>1, GoodState, SMTT(40)
  <2> QED BY <1>5, <2>1, <2>2, SetKeeps DEF PollHit
<1>6. CASE Poll(w) /\ Go(w, "missed", r.next)
  BY <1>1, <1>2, <1>6, GoKeeps DEF Poll
<1>7. CASE Missed(w)
  BY <1>1, <1>2, <1>7, GoKeeps, Zenon DEF Missed
<1>8. CASE KeepAlive(w)
  BY <1>8, GoKeeps DEF KeepAlive
<1>9. CASE WriteEvent(w)
  <2>1. r.last_delivered_event \in Nat
    BY <1>9 DEF WriteEvent, HandlerInv
  <2>2. Append(r.sent, r.last_delivered_event) \in Seq(Nat)
    BY <1>2, <2>1
  <2>3. Good(State("stream", r.filters, r.last_delivered_event, 0,
                   Append(r.sent, r.last_delivered_event)))
    BY <1>1, <1>2, <2>2, GoodState, Zenon
  <2> QED BY <1>9, <2>3, SetKeeps DEF WriteEvent
<1> QED BY <1>3, <1>4, <1>5, <1>6, <1>7, <1>8, <1>9 DEF Handler, Poll

\* A new event changes nothing a handler knows.
LEMMA PublishKeepsHandlers ==
    ASSUME RingInv, HandlerInv, NEW type, NEW object, Publish(type, object)
    PROVE  HandlerInv'
<1>1. h' = h /\ log' = Append(log, [type |-> type, object |-> object])
  BY DEF Publish
<1>2. Len(log) \in Nat /\ Len(log') = Len(log) + 1 /\ \A j \in 1 .. Len(log) : log'[j] = log[j]
  BY <1>1 DEF RingInv
<1>3. ASSUME NEW w \in Watches, h[w].pc \in {"poll", "missed"},
             NEW j \in h[w].last_delivered_event + 1 .. h[w].next - 1
      PROVE  ~Matches(h[w].filters, log'[j + 1])
  <2>1. h[w].last_delivered_event \in Nat \cup {-1} /\ h[w].next \in Nat /\ h[w].next <= Len(log)
    BY <1>3 DEF HandlerInv, Handlers
  <2>2. j + 1 \in 1 .. Len(log)
    BY <1>2, <1>3, <2>1, SMTT(40)
  <2> QED BY <1>2, <1>3, <2>2 DEF HandlerInv
<1>4. ASSUME NEW w \in Watches
      PROVE  /\ h[w].last_delivered_event < Len(log')
             /\ h[w].pc \in {"poll", "missed"} => h[w].next <= Len(log')
  <2>1. /\ h[w].last_delivered_event \in Nat \cup {-1} /\ h[w].next \in Nat
        /\ h[w].last_delivered_event < Len(log)
        /\ h[w].pc \in {"poll", "missed"} => h[w].next <= Len(log)
    BY DEF HandlerInv, Handlers
  <2> QED BY <1>2, <2>1
<1> QED BY <1>1, <1>3, <1>4, Zenon DEF HandlerInv, Matches, Idle, State

Inv == RingInv /\ HandlerInv

LEMMA InvNext == Inv /\ [Next]_vars => Inv'
<1> SUFFICES ASSUME RingInv, HandlerInv, [Next]_vars
             PROVE  Inv'
  BY DEF Inv
<1>1. ASSUME UNCHANGED <<ring, log>>
      PROVE  RingInv'
  BY <1>1 DEF ring, RingInv, Slot, Stored
<1>2. ASSUME UNCHANGED <<h, log>>
      PROVE  HandlerInv'
  BY <1>2 DEF HandlerInv, Matches, Idle, State
<1>3. ASSUME NEW o \in SUBSET Attributes, Publish("OBJECT", o)
      PROVE  Inv'
  BY <1>3, PublishKeepsRing, PublishKeepsHandlers DEF Inv
<1>4. CASE Publish("CONTROL", {})
  BY <1>4, PublishKeepsRing, PublishKeepsHandlers DEF Inv
<1>5. ASSUME NEW b \in BOOLEAN, watch_manager_set_enabled(b)
      PROVE  Inv'
  BY <1>1, <1>2, <1>5 DEF watch_manager_set_enabled, Inv
<1>6. ASSUME NEW w \in Watches, NEW f \in SUBSET Attributes, endpoint_watch_pods(w, f)
      PROVE  Inv'
  <2>1. Len(log) \in Nat /\ -1 \in Nat \cup {-1} /\ <<>> \in Seq(Nat) /\ -1 < Len(log) /\ 0 \in Nat
    BY DEF RingInv
  <2>2. Good(State("stream", f, -1, 0, <<>>))
    BY <2>1, GoodState, Zenon
  <2>3. HandlerInv'
    BY <1>6, <2>2, SetKeeps DEF endpoint_watch_pods
  <2> QED BY <1>1, <1>6, <2>3 DEF endpoint_watch_pods, Inv
<1>7. ASSUME NEW w \in Watches, Handler(w)
      PROVE  Inv'
  <2>1. UNCHANGED <<ring, log>>
    BY <1>7 DEF Handler, GetEvent, Poll, Missed, KeepAlive, WriteEvent
  <2> QED BY <1>1, <1>7, <2>1, HandlerKeeps DEF Inv
<1>8. ASSUME NEW w \in Watches, watch_manager_unsubscribe(w)
      PROVE  Inv'
  <2>1. Good(Idle)
    BY DEF Good, Idle, State, Handlers, RingInv
  <2> QED BY <1>1, <1>8, <2>1, SetKeeps DEF watch_manager_unsubscribe, Inv
<1>9. CASE UNCHANGED vars
  BY <1>1, <1>2, <1>9 DEF vars, Inv
<1> QED BY <1>3, <1>4, <1>5, <1>6, <1>7, <1>8, <1>9 DEF Next

LEMMA Invariance == Spec => []Inv
<1>1. Init => Inv
  BY RingInit, HandlerInit DEF Inv
<1> QED BY <1>1, InvNext, PTL DEF Spec

\* watch_ring_buffer_push keeps the last `size' events of the log in the ring,
\* oldest at head_index, for every capacity and however often it wraps.
THEOREM RingIsTheTail == Spec => []RingHoldsTheTail
<1>1. Inv => RingHoldsTheTail
  BY DEF Inv, RingInv, RingHoldsTheTail, Stored
<1> QED BY <1>1, Invariance, PTL

---------------------------------------------------------------------------
(* WatchManager implements WatchLog.                                       *)

\* Only a watch's own record changes its view.
LEMMA SetChangesView ==
    ASSUME HandlerInv, NEW w \in Watches, NEW r, Set(w, r)
    PROVE  connBar' = [connBar EXCEPT ![w] = View(r)]
<1>1. h' = [h EXCEPT ![w] = r] /\ h \in [Watches -> Handlers]
  BY DEF Set, HandlerInv
<1>2. ASSUME NEW v \in Watches
      PROVE  h'[v] = IF v = w THEN r ELSE h[v]
  BY <1>1
<1>3. connBar' = [v \in Watches |-> IF v = w THEN View(r) ELSE View(h[v])]
  <2>1. connBar' = [v \in Watches |-> View(h'[v])]
    BY DEF connBar, View, Given
  <2>2. \A v \in Watches : View(h'[v]) = IF v = w THEN View(r) ELSE View(h[v])
    BY <1>2
  <2> QED BY <2>1, <2>2
<1> QED BY <1>3, Zenon DEF connBar

\* Moving on within the handler shows nothing.
LEMMA GoIsHidden ==
    ASSUME HandlerInv, NEW w \in Watches, NEW n,
           NEW pc \in {"stream", "poll", "missed", "null"}, Go(w, pc, n),
           h[w].pc \in {"stream", "poll", "missed", "null"}
    PROVE  connBar' = connBar
<1> DEFINE q == State(pc, h[w].filters, h[w].last_delivered_event, n, h[w].sent)
<1>1. View(q) = View(h[w])
  <2>1. q.pc = pc /\ q.filters = h[w].filters /\ q.sent = h[w].sent
        /\ q.last_delivered_event = h[w].last_delivered_event
    BY DEF State
  <2>2. Given(q) = h[w].sent /\ Given(h[w]) = h[w].sent
    BY <2>1 DEF Given
  <2> HIDE DEF q
  <2> QED BY <2>1, <2>2 DEF View
<1>2. connBar' = [connBar EXCEPT ![w] = View(q)]
  BY SetChangesView DEF Go
<1> QED BY <1>1, <1>2, Zenon DEF connBar

LEMMA HitIsDeliver ==
    ASSUME RingInv, HandlerInv, NEW w \in Watches, h[w].pc = "poll", NEW k \in Found(h[w].next),
           PollHit(w, k), UNCHANGED log
    PROVE  h[w].next + 1 \in 1 .. Len(log) /\ Log!Deliver(w, h[w].next + 1)
<1> DEFINE r == h[w]
           n == r.next
           q == State("write", r.filters, n, 0, r.sent)
<1>1. /\ r \in Handlers /\ r.last_delivered_event < n
      /\ \A j \in r.last_delivered_event + 1 .. n - 1 : ~Matches(r.filters, log[j + 1])
  BY DEF HandlerInv
<1>2. /\ n \in 0 .. Len(log) - 1 /\ events[k] = Stored(log, n) /\ events[k].sequence_number = n
      /\ Len(log) \in Nat
  <2>1. n \in 0 .. Len(log) - 1 /\ events[k] = Stored(log, n)
    BY FoundIsStored
  <2>2. events[k].sequence_number = n /\ Len(log) \in Nat
    BY DEF Found, RingInv
  <2> QED BY <2>1, <2>2
<1>3. r.last_delivered_event \in Nat \cup {-1} /\ r.sent \in Seq(Nat)
  BY <1>1 DEF Handlers
<1>4. Matches(r.filters, log[n + 1]) /\ Set(w, q)
  BY <1>2 DEF PollHit, Matches, Stored
<1>5. connBar' = [connBar EXCEPT ![w] = View(q)]
  BY <1>4, SetChangesView
<1>6. Given(q) = Append(r.sent, n) /\ Given(r) = r.sent
  BY DEF Given, State
<1>7. View(q) = [on |-> TRUE, filter |-> r.filters, pos |-> n + 1,
                 got |-> Append([i \in 1 .. Len(r.sent) |-> r.sent[i] + 1], n + 1)]
  <2>1. /\ q.pc = "write" /\ q.filters = r.filters /\ q.last_delivered_event = n
    BY DEF State
  <2>2. [i \in 1 .. Len(Given(q)) |-> Given(q)[i] + 1]
          = Append([i \in 1 .. Len(r.sent) |-> r.sent[i] + 1], n + 1)
    <3> DEFINE t == [i \in 1 .. Len(r.sent) |-> r.sent[i] + 1]
               u == [i \in 1 .. Len(r.sent) + 1 |-> Append(r.sent, n)[i] + 1]
    <3>1. t \in Seq(Nat) /\ Len(t) = Len(r.sent) /\ Len(r.sent) \in Nat
      BY <1>3, SMTT(40)
    <3>2. Len(Append(r.sent, n)) = Len(r.sent) + 1
      BY <1>3
    <3>3. u \in Seq(Nat) /\ Len(u) = Len(r.sent) + 1
      BY <1>2, <1>3, <3>1, SMTT(40)
    <3>4. ASSUME NEW i \in 1 .. Len(r.sent) + 1
          PROVE  u[i] = Append(t, n + 1)[i]
      BY <1>2, <1>3, <3>1
    <3>5. u = Append(t, n + 1)
      BY <1>2, <3>1, <3>3, <3>4, SMTT(40)
    <3> QED BY <1>6, <3>2, <3>5
  <2> HIDE DEF q
  <2> QED BY <2>1, <2>2, Zenon DEF View
<1>8. /\ connBar[w].on = TRUE /\ connBar[w].filter = r.filters
      /\ connBar[w].pos = r.last_delivered_event + 1
      /\ connBar[w].got = [i \in 1 .. Len(r.sent) |-> r.sent[i] + 1]
  BY <1>6, Zenon DEF connBar, View
<1>9. \A j \in (r.last_delivered_event + 1) + 1 .. (n + 1) - 1 : ~Matches(r.filters, log[j])
  <2> SUFFICES ASSUME NEW j \in (r.last_delivered_event + 1) + 1 .. (n + 1) - 1
               PROVE  ~Matches(r.filters, log[j])
    OBVIOUS
  <2>1. j - 1 \in r.last_delivered_event + 1 .. n - 1 /\ (j - 1) + 1 = j
    BY <1>2, <1>3, SMTT(40)
  <2> QED BY <1>1, <2>1
<1>10. n + 1 > r.last_delivered_event + 1 /\ n + 1 \in 1 .. Len(log)
  BY <1>1, <1>2, <1>3
<1> QED BY <1>4, <1>5, <1>7, <1>8, <1>9, <1>10, Zenon DEF Log!Deliver, Log!Wanted, Matches

LEMMA FreshView ==
  ASSUME NEW pc, NEW f, pc # "write"
  PROVE  View(State(pc, f, -1, 0, <<>>))
           = [on |-> pc # "idle", filter |-> f, pos |-> 0, got |-> <<>>]
<1> DEFINE q == State(pc, f, -1, 0, <<>>)
           g == [i \in 1 .. Len(<<>>) |-> Given(q)[i] + 1]
<1>1. q.pc = pc /\ q.filters = f /\ q.last_delivered_event = -1 /\ q.sent = <<>>
  BY DEF State
<1>2. Given(q) = <<>>
  BY <1>1 DEF Given
<1>3. g = <<>>
  <2>1. Len(<<>>) = 0
    OBVIOUS
  <2>2. g = [i \in 1 .. 0 |-> Given(q)[i] + 1]
    BY <2>1
  <2> QED BY <2>2
<1>4. View(q) = [on |-> q.pc # "idle", filter |-> q.filters, pos |-> q.last_delivered_event + 1,
                 got |-> g]
  BY <1>2 DEF View
<1> QED
  <2> HIDE DEF q, g
  <2>1. View(q) = [on |-> pc # "idle", filter |-> f, pos |-> 0, got |-> <<>>]
    BY <1>1, <1>3, <1>4
  <2> QED BY <2>1 DEF q

LEMMA StepRefines == Inv /\ [Next]_vars => [Log!Next]_<<log, connBar>>
<1> SUFFICES ASSUME RingInv, HandlerInv, [Next]_vars
             PROVE  Log!Next \/ (log' = log /\ connBar' = connBar)
  BY DEF Inv
<1>1. ASSUME h' = h
      PROVE  connBar' = connBar
  BY <1>1 DEF connBar, View, Given
<1>2. ASSUME NEW type \in {"OBJECT", "CONTROL"}, NEW o \in SUBSET Attributes, Publish(type, o)
      PROVE  Log!Next
  <2>1. Log!Publish([type |-> type, object |-> o])
    BY <1>1, <1>2 DEF Publish, Log!Publish
  <2>2. [type |-> type, object |-> o] \in Log!Events
    BY DEF Log!Events
  <2> QED BY <2>1, <2>2 DEF Log!Next
<1>3. ASSUME NEW b \in BOOLEAN, watch_manager_set_enabled(b)
      PROVE  log' = log /\ connBar' = connBar
  BY <1>1, <1>3 DEF watch_manager_set_enabled
<1>4. ASSUME NEW w \in Watches, NEW f \in SUBSET Attributes, endpoint_watch_pods(w, f)
      PROVE  Log!Next
  <2> DEFINE q == State("stream", f, -1, 0, <<>>)
  <2>1. View(q) = [on |-> TRUE, filter |-> f, pos |-> 0, got |-> <<>>]
    <3>1. ("stream" # "write") /\ ("stream" # "idle") = TRUE
      OBVIOUS
    <3> QED BY <3>1, FreshView, Zenon
  <2>2. connBar' = [connBar EXCEPT ![w] = View(q)] /\ log' = log
    BY <1>4, SetChangesView DEF endpoint_watch_pods
  <2>3. ~connBar[w].on
    BY <1>4, Zenon DEF endpoint_watch_pods, connBar, View
  <2>4. Log!Open(w, f)
    BY <2>1, <2>2, <2>3, Zenon DEF Log!Open
  <2> QED BY <2>4 DEF Log!Next
<1>5. ASSUME NEW w \in Watches, watch_manager_unsubscribe(w)
      PROVE  Log!Next
  <2>1. View(Idle) = Log!Closed
    <3>1. ("idle" # "write") /\ ("idle" # "idle") = FALSE
      OBVIOUS
    <3> QED BY <3>1, FreshView, Zenon DEF Idle, Log!Closed
  <2>2. connBar' = [connBar EXCEPT ![w] = View(Idle)] /\ log' = log
    BY <1>5, SetChangesView DEF watch_manager_unsubscribe
  <2>3. connBar[w].on
    BY <1>5, Zenon DEF watch_manager_unsubscribe, connBar, View
  <2>4. Log!Close(w)
    BY <2>1, <2>2, <2>3 DEF Log!Close
  <2> QED BY <2>4 DEF Log!Next
<1>6. ASSUME NEW w \in Watches, GetEvent(w) \/ Missed(w) \/ KeepAlive(w)
      PROVE  log' = log /\ connBar' = connBar
  BY <1>6, GoIsHidden DEF GetEvent, Missed, KeepAlive
<1>7. ASSUME NEW w \in Watches, Poll(w)
      PROVE  Log!Next \/ (log' = log /\ connBar' = connBar)
  <2>1. h[w].pc = "poll" /\ log' = log
    BY <1>7 DEF Poll
  <2>2. ASSUME NEW k \in Found(h[w].next), PollHit(w, k)
        PROVE  Log!Next
    BY <2>1, <2>2, HitIsDeliver DEF Log!Next
  <2>3. ASSUME NEW k \in Found(h[w].next), PollSkip(w, k)
        PROVE  connBar' = connBar
    BY <2>1, <2>3, GoIsHidden DEF PollSkip
  <2>4. CASE Go(w, "missed", h[w].next)
    BY <2>1, <2>4, GoIsHidden
  <2> QED BY <1>7, <2>1, <2>2, <2>3, <2>4 DEF Poll
<1>8. ASSUME NEW w \in Watches, WriteEvent(w)
      PROVE  log' = log /\ connBar' = connBar
  <2> DEFINE r == h[w]
             q == State("stream", r.filters, r.last_delivered_event, 0,
                        Append(r.sent, r.last_delivered_event))
  <2>1. connBar' = [connBar EXCEPT ![w] = View(q)] /\ log' = log /\ r.pc = "write"
    BY <1>8, SetChangesView DEF WriteEvent
  <2>2. /\ q.pc = "stream" /\ q.filters = r.filters /\ q.last_delivered_event = r.last_delivered_event
        /\ q.sent = Append(r.sent, r.last_delivered_event)
    BY DEF State
  <2>3. Given(q) = Given(r)
    BY <2>1, <2>2, Zenon DEF Given
  <2>4. View(q) = View(r)
    <3> HIDE DEF q
    <3> QED BY <2>1, <2>2, <2>3 DEF View
  <2> QED BY <2>1, <2>4, Zenon DEF connBar
<1>9. CASE UNCHANGED vars
  BY <1>1, <1>9 DEF vars
<1> QED BY <1>2, <1>3, <1>4, <1>5, <1>6, <1>7, <1>8, <1>9 DEF Next, Handler

\* The ring, the polling handlers and their subscriptions implement WatchLog:
\* what a client is given is the next wanted event of the log, for any ring
\* capacity, any filters and any number of clients.
THEOREM WatchImplementsLog == Spec => GivesTheLog
<1>1. Init => Log!Init
  <2>1. View(Idle) = Log!Closed
    <3>1. ("idle" # "write") /\ ("idle" # "idle") = FALSE
      OBVIOUS
    <3> QED BY <3>1, FreshView, Zenon DEF Idle, Log!Closed
  <2> QED BY <2>1, SMTT(40) DEF Init, Log!Init, connBar
<1> QED BY <1>1, StepRefines, Invariance, PTL DEF Spec, GivesTheLog, Log!Spec, Log!logVars

\* The ring of the watch manager holds the last events, and what a client is sent through it
\* is what the abstract log promises, for any capacity and any number of clients.
THEOREM RingImplementsLog == Spec => RingGivesTheLog
BY RingIsTheTail, WatchImplementsLog, PTL DEF RingGivesTheLog

=============================================================================
