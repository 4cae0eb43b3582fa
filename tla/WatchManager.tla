---------------------------- MODULE WatchManager ----------------------------
(***************************************************************************)
(* The watch service: the ring buffer and the subscriptions of             *)
(* internal/pkg/watch/watch_manager.c, and the handler threads of          *)
(* internal/apiserver/endpoints/watch_handler.c that stream events to      *)
(* clients.  Publishers and handlers share the ring under its lock; each   *)
(* handler polls it for the sequence number it needs next.                 *)
(*                                                                         *)
(* A handler is at "idle" (no client), "stream" (head of its loop), "poll" *)
(* (in watch_manager_get_event, about to look for `next'), "missed" (that  *)
(* event was not there), "null" (timed out) or "write" (an event in hand). *)
(* The enabled flag is read without a lock just before the push; setting   *)
(* it in between is the same as setting it after.                          *)
(***************************************************************************)
EXTENDS Integers, Sequences, FiniteSets

CONSTANTS
    Watches, Attributes,
    CAPACITY,      \* buffer_capacity
    MaxEvents      \* bound: events published

ASSUME WatchAssumption == CAPACITY \in Nat \ {0} /\ MaxEvents \in Nat

VARIABLES
    events, size, head_index, tail_index, global_sequence,   \* ring_buffer
    enabled,
    subscriptions,  \* the array of active subscriptions: their owners
    h,              \* watch -> its handler and subscription
    log             \* history: the events pushed

ring == <<events, size, head_index, tail_index, global_sequence>>
vars == <<ring, enabled, subscriptions, h, log>>

\* A slot that calloc cleared.
Zero == [type |-> "OBJECT", object |-> {}, sequence_number |-> 0]

\* A handler: where it is, its subscription's filters and last delivered event,
\* next_sequence, and the history of the events it has written.
State(pc, filters, last, next, sent) ==
    [pc |-> pc, filters |-> filters, last_delivered_event |-> last, next |-> next, sent |-> sent]

Idle == State("idle", {}, -1, 0, <<>>)

Init ==
    /\ events = [i \in 0 .. CAPACITY - 1 |-> Zero]
    /\ size = 0 /\ head_index = 0 /\ tail_index = 0 /\ global_sequence = 0
    /\ enabled = TRUE
    /\ subscriptions = <<>>
    /\ h = [w \in Watches |-> Idle]
    /\ log = <<>>

---------------------------------------------------------------------------
(* Publishing.                                                             *)

\* Mutation: the head stays where it is when the buffer is full.
watch_ring_buffer_push_KeepsHead(type, object) ==
    /\ global_sequence' = global_sequence + 1
    /\ events' = [events EXCEPT ![tail_index] =
                    [type |-> type, object |-> object, sequence_number |-> global_sequence]]
    /\ tail_index' = (tail_index + 1) % CAPACITY
    /\ size' = IF size = CAPACITY THEN size ELSE size + 1
    /\ UNCHANGED head_index

watch_ring_buffer_push(type, object) ==
    /\ global_sequence' = global_sequence + 1
    /\ events' = [events EXCEPT ![tail_index] =
                    [type |-> type, object |-> object, sequence_number |-> global_sequence]]
    /\ tail_index' = (tail_index + 1) % CAPACITY
    /\ IF size = CAPACITY
       THEN size' = size /\ head_index' = (head_index + 1) % CAPACITY
       ELSE size' = size + 1 /\ head_index' = head_index

\* watch_manager_publish_event, _bookmark and _error.  The last two publish
\* events without an object, which no filter holds back: type "CONTROL".
Publish(type, object) ==
    /\ enabled /\ global_sequence < MaxEvents
    /\ watch_ring_buffer_push(type, object)
    /\ log' = Append(log, [type |-> type, object |-> object])
    /\ UNCHANGED <<enabled, subscriptions, h>>

watch_manager_set_enabled(b) ==
    /\ enabled' = b
    /\ UNCHANGED <<ring, subscriptions, h, log>>

---------------------------------------------------------------------------
(* Reading.                                                                *)

\* The slots that hold an event, oldest first.
Slot(i) == (head_index + i) % CAPACITY

\* Mutation: every slot is searched, the cleared ones too.
Found_AnySlot(s) == {k \in 0 .. CAPACITY - 1 : events[k].sequence_number = s}

\* watch_ring_buffer_get_by_sequence: the slot, if there is one.
Found(s) == {k \in {Slot(i) : i \in 0 .. size - 1} : events[k].sequence_number = s}

\* watch_object_matches_filters, which bookmarks and errors bypass.
Matches(filters, e) == e.type # "OBJECT" \/ filters \subseteq e.object

---------------------------------------------------------------------------
(* The handler of a client.                                                *)

Set(w, r) == h' = [h EXCEPT ![w] = r]

\* The handler moves on: its subscription is as it was.
Go(w, pc, next) ==
    Set(w, State(pc, h[w].filters, h[w].last_delivered_event, next, h[w].sent))

\* watch_manager_subscribe (the resource version asked for is only stored),
\* the filters, the headers and the first bookmark.
endpoint_watch_pods(w, f) ==
    /\ h[w].pc = "idle"
    /\ Set(w, State("stream", f, -1, 0, <<>>))
    /\ subscriptions' = Append(subscriptions, w)
    /\ UNCHANGED <<ring, enabled, log>>

\* The call of watch_manager_get_event.
GetEvent(w) ==
    /\ h[w].pc = "stream"
    /\ Go(w, "poll", h[w].last_delivered_event + 1)
    /\ UNCHANGED <<ring, enabled, subscriptions, log>>

\* Mutation: the event after a filtered one is skipped as well.
PollSkip_Two(w, k) ==
    /\ ~Matches(h[w].filters, events[k])
    /\ Go(w, "poll", h[w].next + 2)

\* Mutation: next_sequence is not advanced past a filtered event.
PollSkip_Stays(w, k) ==
    /\ ~Matches(h[w].filters, events[k])
    /\ UNCHANGED h

\* The filters reject the event.
PollSkip(w, k) ==
    /\ ~Matches(h[w].filters, events[k])
    /\ Go(w, "poll", h[w].next + 1)

PollHit(w, k) ==
    /\ Matches(h[w].filters, events[k])
    /\ Set(w, State("write", h[w].filters, events[k].sequence_number, 0, h[w].sent))

Poll(w) ==
    /\ h[w].pc = "poll"
    /\ \/ \E k \in Found(h[w].next) : PollSkip(w, k) \/ PollHit(w, k)
       \/ Found(h[w].next) = {} /\ Go(w, "missed", h[w].next)
    /\ UNCHANGED <<ring, enabled, subscriptions, log>>

\* The timeout has passed, or the loop sleeps and tries again.
Missed(w) ==
    /\ h[w].pc = "missed"
    /\ Go(w, "null", 0) \/ Go(w, "poll", h[w].next)
    /\ UNCHANGED <<ring, enabled, subscriptions, log>>

\* The keep-alive bookmark, which is not an event of the log.
KeepAlive(w) ==
    /\ h[w].pc = "null"
    /\ Go(w, "stream", 0)
    /\ UNCHANGED <<ring, enabled, subscriptions, log>>

\* The event in hand is written.
WriteEvent(w) ==
    /\ h[w].pc = "write"
    /\ Set(w, State("stream", h[w].filters, h[w].last_delivered_event, 0,
                    Append(h[w].sent, h[w].last_delivered_event)))
    /\ UNCHANGED <<ring, enabled, subscriptions, log>>

\* The entry is taken out and the later ones move up.
Remove(w) ==
    LET i == CHOOSE i \in 1 .. Len(subscriptions) : subscriptions[i] = w
    IN  SubSeq(subscriptions, 1, i - 1) \o SubSeq(subscriptions, i + 1, Len(subscriptions))

\* A write fails: the client has gone.
watch_manager_unsubscribe(w) ==
    /\ h[w].pc \in {"null", "write"}
    /\ Set(w, Idle)
    /\ subscriptions' = Remove(w)
    /\ UNCHANGED <<ring, enabled, log>>

Handler(w) == GetEvent(w) \/ Poll(w) \/ Missed(w) \/ KeepAlive(w) \/ WriteEvent(w)

Next ==
    \/ \E o \in SUBSET Attributes : Publish("OBJECT", o)
    \/ Publish("CONTROL", {})
    \/ \E b \in BOOLEAN : watch_manager_set_enabled(b)
    \/ \E w \in Watches : \/ \E f \in SUBSET Attributes : endpoint_watch_pods(w, f)
                          \/ Handler(w) \/ watch_manager_unsubscribe(w)

\* A handler thread keeps running.
Spec == Init /\ [][Next]_vars /\ \A w \in Watches : WF_vars(Handler(w))

---------------------------------------------------------------------------
(* Properties.                                                             *)

\* The variables have their types, and the subscriptions are those of the
\* handlers that serve a client, once each.
TypeOK ==
    /\ size \in 0 .. CAPACITY /\ global_sequence = Len(log)
    /\ \A w \in Watches :
          /\ h[w].pc \in {"idle", "stream", "poll", "missed", "null", "write"}
          /\ h[w].last_delivered_event < global_sequence /\ h[w].next <= global_sequence
    /\ \A i, j \in 1 .. Len(subscriptions) : subscriptions[i] = subscriptions[j] => i = j
    /\ {subscriptions[i] : i \in 1 .. Len(subscriptions)} = {w \in Watches : h[w].pc # "idle"}

\* However often the indices have wrapped, the ring holds the last `size'
\* events of the log, the oldest at head_index, under their own numbers.
RingHoldsTheTail ==
    /\ size = IF global_sequence < CAPACITY THEN global_sequence ELSE CAPACITY
    /\ \A i \in 0 .. size - 1 :
          LET s == global_sequence - size + i
          IN  events[Slot(i)] = [type |-> log[s + 1].type, object |-> log[s + 1].object,
                                 sequence_number |-> s]

\* The watch as WatchLog sees it: an event in hand is one already delivered,
\* and positions in the log start at 1.
Given(r) == IF r.pc = "write" THEN Append(r.sent, r.last_delivered_event) ELSE r.sent

View(r) ==
    [on |-> r.pc # "idle", filter |-> r.filters, pos |-> r.last_delivered_event + 1,
     got |-> [i \in 1 .. Len(Given(r)) |-> Given(r)[i] + 1]]

connBar == [w \in Watches |-> View(h[w])]

Log == INSTANCE WatchLog WITH conn <- connBar

\* A watch is given exactly the events its filters let through, in order and
\* once, though the ring overwrites events and handlers poll, skip, time out
\* and start again.
GivesTheLog == Log!Spec

Oldest == global_sequence - size

\* An event a watch wants is delivered, unless the client goes or the event
\* after the last one delivered has been overwritten.
DeliveredUnlessLapped ==
    \A w \in Watches, s \in 0 .. MaxEvents - 1 :
        (/\ h[w].pc # "idle" /\ h[w].last_delivered_event < s /\ s < Len(log)
         /\ Matches(h[w].filters, log[s + 1]))
        ~> (\/ h[w].last_delivered_event >= s
            \/ h[w].pc = "idle"
            \/ h[w].last_delivered_event + 1 < Oldest)

\* "Next event for this subscription, or NULL if none available"
\* (watch_manager.h:201): an event a watch wants is delivered while it is in
\* the ring, unless the client goes.
AvailableIsDelivered ==
    \A w \in Watches, s \in 0 .. MaxEvents - 1 :
        (/\ h[w].pc # "idle" /\ h[w].last_delivered_event < s /\ s < Len(log)
         /\ Matches(h[w].filters, log[s + 1]))
        ~> (h[w].last_delivered_event >= s \/ h[w].pc = "idle" \/ s < Oldest)

\* The ring is the tail of the log, and what the handlers make of it is what WatchLog
\* promises a client (RingHoldsTheTail, GivesTheLog).
RingGivesTheLog == []RingHoldsTheTail /\ GivesTheLog

\* The subscriptions are those of the clients served, once each, and a client is given what
\* it waits for unless it was lapped (TypeOK, DeliveredUnlessLapped).
WatchesServed == []TypeOK /\ DeliveredUnlessLapped

=============================================================================
