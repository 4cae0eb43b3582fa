--------------------------- MODULE WatchSessions ---------------------------
(***************************************************************************)
(* The two tables of watches inside the API server of src/sirah: the       *)
(* sessions of apiserver/watch.c, which the watch endpoints of             *)
(* endpoints.c start, and the subscriptions of watch_manager.c with the    *)
(* buffers and the dispatch of event_system.c.                             *)
(*                                                                         *)
(* A session: watch_next_event and watch_notify_all hold the lock of the   *)
(* slot, watch_start does not.  watch_next_event is two steps here (it     *)
(* finds an event, then it moves the index), because watch_start may reset *)
(* the slot between them.                                                  *)
(*                                                                         *)
(* A subscription: the two tables have a lock each.  watch_next_ndjson     *)
(* reads a buffer under the lock of the watch table while event_dispatch   *)
(* fills it under the lock of the event table, so reading is two steps     *)
(* too: it loads the index, then stores it.  watch_close frees a buffer    *)
(* that stays registered; dispatching into it is undefined and ends the    *)
(* behaviour with wsBroken.                                                *)
(***************************************************************************)
EXTENDS Integers, Sequences, FiniteSets, FiniteSetsExt, SequencesExt

CONSTANTS
    WsSlots,        \* MAX_WATCHES
    WsEventLimit,   \* MAX_EVENTS_PER_WATCH
    WsReaders,      \* threads in watch_next_event
    WsTypes,        \* types of resources
    WsNotices,      \* bound: notifications
    EsSlots,        \* MAX_ACTIVE_SUBSCRIPTIONS, MAX_WATCH_SUBSCRIPTIONS
    EsCapacity,     \* the capacity of an event buffer
    EsWatches       \* bound: subscriptions made

ASSUME WsAssumption ==
    /\ WsSlots \in Nat \ {0} /\ WsEventLimit \in Nat \ {0}
    /\ EsSlots \in Nat \ {0} /\ EsCapacity \in Nat \ {0}

VARIABLES
    wsRows,     \* watches: [active, type, events, read, log, touched]
    wsPc,       \* reader -> the slot it found an event in, and the event
    wsSent,     \* notifications so far: the next one's number
    esWatches,  \* watch_manager.c's subscriptions: [id, active, buffer]
    esTable,    \* event_system.c's subscriptions: [active, type, buffer]
    esBuffers,  \* id -> [events, read, freed]
    esReader,   \* the thread between loading an index and storing it
    wsBroken

wsVars == <<wsRows, wsPc, wsSent>>
esVars == <<esWatches, esTable, esBuffers, esReader, wsBroken>>
sessionVars == <<wsVars, esVars>>

NoSlot == 0
NotReading == [slot |-> NoSlot, read |-> 0]
EmptyRow == [active |-> FALSE, type |-> "", events |-> <<>>, read |-> 0,
             log |-> <<>>, touched |-> FALSE]
NoBuffer == 0

watch_init == [i \in 1..WsSlots |-> EmptyRow]

---------------------------------------------------------------------------
(* apiserver/watch.c.                                                      *)

watch_start(type) ==
    LET free == {i \in 1..WsSlots : ~wsRows[i].active} IN
    /\ free # {}
    /\ wsRows' = [wsRows EXCEPT ![Min(free)] =
                    [active |-> TRUE, type |-> type, events |-> <<>>, read |-> 0,
                     log |-> <<>>, touched |-> \E r \in WsReaders : wsPc[r].slot = Min(free)]]
    /\ UNCHANGED <<wsPc, wsSent>>

\* One round of watch_next_event that finds an event; a round that does not
\* changes nothing.  A caller may name any slot: the one it was given may
\* have been stopped, and started again for another caller, since.
watch_next_event(r, i) ==
    /\ wsPc[r] = NotReading /\ \A q \in WsReaders : wsPc[q].slot # i
    /\ wsRows[i].read < Len(wsRows[i].events)
    /\ wsPc' = [wsPc EXCEPT ![r] = [slot |-> i, read |-> wsRows[i].read + 1]]
    /\ UNCHANGED <<wsRows, wsSent>>

EventTaken(r) ==
    LET i == wsPc[r].slot IN
    /\ i # NoSlot
    /\ wsRows' = [wsRows EXCEPT ![i].read = @ + 1]
    /\ wsPc' = [wsPc EXCEPT ![r] = NotReading]
    /\ UNCHANGED wsSent

watch_stop(i) ==
    /\ \A r \in WsReaders : wsPc[r].slot # i
    /\ wsRows' = [wsRows EXCEPT ![i].active = FALSE]
    /\ UNCHANGED <<wsPc, wsSent>>

\* A notification takes the lock of each slot it matches.
watch_notify_all_overwrites(type) ==
    LET n == wsSent + 1
        To(i) == wsRows[i].active /\ wsRows[i].type = type
    IN  /\ wsSent < WsNotices
        /\ \A i \in 1..WsSlots : To(i) => \A r \in WsReaders : wsPc[r].slot # i
        /\ wsRows' = [i \in 1..WsSlots |->
                IF ~To(i) THEN wsRows[i]
                ELSE [wsRows[i] EXCEPT
                        !.log = Append(@, n),
                        !.events = IF Len(@) < WsEventLimit THEN Append(@, n)
                                   ELSE [@ EXCEPT ![WsEventLimit] = n]]]
        /\ wsSent' = n
        /\ UNCHANGED wsPc

watch_notify_all(type) ==
    LET n == wsSent + 1
        To(i) == wsRows[i].active /\ wsRows[i].type = type
    IN  /\ wsSent < WsNotices
        /\ \A i \in 1..WsSlots : To(i) => \A r \in WsReaders : wsPc[r].slot # i
        /\ wsRows' = [i \in 1..WsSlots |->
                IF ~To(i) THEN wsRows[i]
                ELSE [wsRows[i] EXCEPT
                        !.log = Append(@, n),
                        !.events = IF Len(@) < WsEventLimit THEN Append(@, n) ELSE @]]
        /\ wsSent' = n
        /\ UNCHANGED wsPc

\* The three endpoints start a session and answer; no code stops it.
endpoint_watch_pods == watch_start("Pod")
endpoint_watch_services == watch_start("Service")
endpoint_watch_deployments == watch_start("Deployment")

WsInit ==
    /\ wsRows = watch_init
    /\ wsPc = [r \in WsReaders |-> NotReading]
    /\ wsSent = 0

WsNext ==
    /\ \/ "Pod" \in WsTypes /\ endpoint_watch_pods
       \/ "Service" \in WsTypes /\ endpoint_watch_services
       \/ "Deployment" \in WsTypes /\ endpoint_watch_deployments
       \/ \E r \in WsReaders, i \in 1..WsSlots : watch_next_event(r, i)
       \/ \E r \in WsReaders : EventTaken(r)
       \/ \E i \in 1..WsSlots : watch_stop(i)
       \/ \E type \in WsTypes : watch_notify_all(type)
    /\ UNCHANGED esVars

---------------------------------------------------------------------------
(* apiserver/event_system.c and watch_manager.c.                           *)

event_buffer_new == [events |-> <<>>, read |-> 0, freed |-> FALSE]

event_buffer_add(b, event) ==
    IF Len(b.events) >= EsCapacity
    THEN [b EXCEPT !.events = Append(Tail(@), event), !.read = IF @ > 0 THEN @ - 1 ELSE 0]
    ELSE [b EXCEPT !.events = Append(@, event)]

event_buffer_next(b) == IF b.read >= Len(b.events) THEN "" ELSE b.events[b.read + 1]

event_buffer_has_events(b) == b.read < Len(b.events)

event_register_subscription(table, type, buffer) ==
    LET free == {i \in DOMAIN table : ~table[i].active} IN
    IF free = {} THEN table
    ELSE [table EXCEPT ![Min(free)] = [active |-> TRUE, type |-> type, buffer |-> buffer]]

event_unregister_subscription(i) ==
    /\ esTable[i].active
    /\ esTable' = [esTable EXCEPT ![i].active = FALSE]
    /\ UNCHANGED <<esWatches, esBuffers, esReader, wsBroken>>

event_dispatch(type) ==
    LET To == {i \in 1..EsSlots : esTable[i].active /\ esTable[i].type = type}
        buffers == {esTable[i].buffer : i \in To}
    IN  /\ wsBroken' = \E b \in buffers : esBuffers[b].freed
        /\ esBuffers' = [b \in DOMAIN esBuffers |->
                IF b \in buffers THEN event_buffer_add(esBuffers[b], type) ELSE esBuffers[b]]
        /\ UNCHANGED <<esWatches, esTable, esReader>>

watch_notify_change(type) == event_dispatch(type)

WatchSlot(id) ==
    LET at == {i \in 1..EsSlots : esWatches[i].active /\ esWatches[i].id = id} IN
    IF at = {} THEN NoSlot ELSE Min(at)

\* The number of a subscription also names its buffer.  An event is its type.
watch_create(type) ==
    LET id == Len(esBuffers) + 1
        free == {i \in 1..EsSlots : ~esWatches[i].active}
    IN  /\ esReader.id = 0 /\ Len(esBuffers) < EsWatches /\ free # {}
        /\ esWatches' = [esWatches EXCEPT ![Min(free)] = [id |-> id, active |-> TRUE]]
        /\ esBuffers' = Append(esBuffers, event_buffer_new)
        /\ esTable' = event_register_subscription(esTable, type, id)
        /\ UNCHANGED <<esReader, wsBroken>>

watch_has_events(id) == WatchSlot(id) # NoSlot /\ event_buffer_has_events(esBuffers[id])

\* Loading the event and the index, with the lock of the watch table held
\* until they are stored.
watch_next_ndjson(id) ==
    /\ esReader.id = 0 /\ watch_has_events(id)
    /\ esReader' = [id |-> id, read |-> esBuffers[id].read, event |-> event_buffer_next(esBuffers[id])]
    /\ UNCHANGED <<esWatches, esTable, esBuffers, wsBroken>>

\* Storing the index: read_index++ is atomic, or it overwrites what
\* event_buffer_add stored since it was loaded.
EsReaderStores ==
    LET b == esReader.id IN
    /\ b # 0
    /\ \E base \in {esReader.read, esBuffers[b].read} :
          esBuffers' = [esBuffers EXCEPT ![b].read = base + 1]
    /\ esReader' = [id |-> 0, read |-> 0, event |-> ""]
    /\ UNCHANGED <<esWatches, esTable, wsBroken>>

watch_close(id) ==
    /\ WatchSlot(id) # NoSlot /\ esReader.id = 0
    /\ esWatches' = [esWatches EXCEPT ![WatchSlot(id)].active = FALSE]
    /\ esBuffers' = [esBuffers EXCEPT ![id] = [events |-> <<>>, read |-> 0, freed |-> TRUE]]
    /\ UNCHANGED <<esTable, esReader, wsBroken>>

event_bookmark_new == "BOOKMARK"

watch_send_bookmark(id) ==
    /\ WatchSlot(id) # NoSlot /\ esReader.id = 0
    /\ esBuffers' = [esBuffers EXCEPT ![id] = event_buffer_add(@, event_bookmark_new)]
    /\ UNCHANGED <<esWatches, esTable, esReader, wsBroken>>

EsInit ==
    /\ esWatches = [i \in 1..EsSlots |-> [id |-> 0, active |-> FALSE]]
    /\ esTable = [i \in 1..EsSlots |-> [active |-> FALSE, type |-> "", buffer |-> NoBuffer]]
    /\ esBuffers = <<>>
    /\ esReader = [id |-> 0, read |-> 0, event |-> ""]
    /\ wsBroken = FALSE

EsNext ==
    /\ ~wsBroken
    /\ \/ \E type \in WsTypes : watch_create(type) \/ watch_notify_change(type)
       \/ \E id \in DOMAIN esBuffers :
             watch_next_ndjson(id) \/ watch_close(id) \/ watch_send_bookmark(id)
       \/ EsReaderStores
       \/ \E i \in 1..EsSlots : event_unregister_subscription(i)
    /\ UNCHANGED wsVars

SessionInit == WsInit /\ EsInit

\* A session gives out what was sent to its type since it began, in order and
\* without a gap, up to the size of its table, unless a reader was inside the
\* slot when the session took it over; and whatever the race between reading
\* the buffer of a subscription and filling it, its index stays inside it.
SessionComplete ==
    /\ \A i \in 1..WsSlots : wsRows[i].active /\ ~wsRows[i].touched =>
          /\ wsRows[i].events = SubSeq(wsRows[i].log, 1, Min({WsEventLimit, Len(wsRows[i].log)}))
          /\ wsRows[i].read <= Len(wsRows[i].events)
    /\ ~wsBroken => \A id \in DOMAIN esBuffers : esBuffers[id].read <= Len(esBuffers[id].events)

=============================================================================
