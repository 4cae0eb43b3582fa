------------------------------ MODULE WatchLog ------------------------------
(***************************************************************************)
(* What a watch promises (internal/pkg/watch/watch_manager.h): events are  *)
(* published into one log, and each open watch is given, in order and once,*)
(* exactly the events its filters let through.                             *)
(***************************************************************************)
EXTENDS Integers, Sequences

CONSTANTS
    Watches,      \* clients of the watch endpoints
    Attributes    \* label or field conditions an object may satisfy

VARIABLES
    log,    \* all events published
    conn    \* watch -> [on, filter, pos, got]: got are positions in the log

logVars == <<log, conn>>

\* Changes of objects, and bookmarks and errors, which have no object.
Events == [type : {"OBJECT", "CONTROL"}, object : SUBSET Attributes]

\* "Filters are combined with AND logic (all must match)".
Wanted(filter, e) == e.type # "OBJECT" \/ filter \subseteq e.object

Closed == [on |-> FALSE, filter |-> {}, pos |-> 0, got |-> <<>>]

Init ==
    /\ log = <<>>
    /\ conn = [w \in Watches |-> Closed]

Publish(e) ==
    /\ log' = Append(log, e)
    /\ UNCHANGED conn

Open(w, f) ==
    /\ ~conn[w].on
    /\ conn' = [conn EXCEPT ![w] = [on |-> TRUE, filter |-> f, pos |-> 0, got |-> <<>>]]
    /\ UNCHANGED log

\* The next wanted event of the log.
Deliver(w, i) ==
    /\ conn[w].on
    /\ i > conn[w].pos /\ Wanted(conn[w].filter, log[i])
    /\ \A j \in conn[w].pos + 1 .. i - 1 : ~Wanted(conn[w].filter, log[j])
    /\ conn' = [conn EXCEPT ![w] = [on |-> TRUE, filter |-> conn[w].filter, pos |-> i,
                                    got |-> Append(conn[w].got, i)]]
    /\ UNCHANGED log

Close(w) ==
    /\ conn[w].on
    /\ conn' = [conn EXCEPT ![w] = Closed]
    /\ UNCHANGED log

Next ==
    \/ \E e \in Events : Publish(e)
    \/ \E w \in Watches : \/ \E f \in SUBSET Attributes : Open(w, f)
                          \/ \E i \in 1 .. Len(log) : Deliver(w, i)
                          \/ Close(w)

Spec == Init /\ [][Next]_logVars

=============================================================================
