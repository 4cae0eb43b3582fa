-------------------------- MODULE ApiObjectsProofs --------------------------
(***************************************************************************)
(* Proofs about ApiObjects for any number of threads, kinds, names and     *)
(* requests: a PATCH never loses an update, a refused request leaves no    *)
(* trace, and an acknowledged one has happened.                            *)
(***************************************************************************)
EXTENDS ApiObjects, TLAPS

PCs == {"idle", "get", "list", "put", "delete", "patch", "cas", "bind"}
ThreadType == [pc : PCs, req : Requests, first : ObjectType, read : ObjectType]
ReplyType == [req : Requests, code : Nat, rv : Int, items : SUBSET Objects,
              there : SUBSET Objects, read : ObjectType, at : ObjectType]

Types ==
    /\ store \in [Objects -> ObjectType]
    /\ rev \in Nat /\ now \in Nat /\ count \in Nat
    /\ applied \subseteq [id : Nat, prior : Nat, base : Nat]
    /\ th \in [Threads -> ThreadType]
    /\ reply \in [Threads -> ReplyType]

LEMMA Constants ==
    /\ NoRequest \in Requests /\ Absent \in ObjectType /\ NoRv \in Versions
    /\ Idle \in ThreadType /\ NoReply \in ReplyType
<1>1. Objects # {}
  <2>1. PICK k \in Kinds, n \in Names : TRUE
    BY ApiAssumption
  <2>2. <<k, n>> \in Objects
    BY DEF Objects
  <2>3. QED
    BY <2>2
<1>2. NoRequest \in Requests
  BY <1>1 DEF NoRequest, Requests, AllVerbs, NoRv
<1>3. Absent \in ObjectType /\ NoRv \in Versions
  BY DEF Absent, ObjectType, Versions, NoRv
<1>4. QED
  BY <1>2, <1>3 DEF Idle, ThreadType, PCs, NoReply, ReplyType, NoRv

\* A response leaves the thread idle and its record well formed.
LEMMA AnswerTypes ==
    ASSUME Types, NEW t \in Threads, NEW r \in Requests, NEW code \in Nat,
           NEW rv \in Int, NEW items \in SUBSET Objects, Answer(t, r, code, rv, items)
    PROVE  /\ th' \in [Threads -> ThreadType] /\ reply' \in [Threads -> ReplyType]
           /\ th'[t] = Idle /\ reply'[t].req = r /\ reply'[t].code = code
           /\ reply'[t].at = store[r.obj]
           /\ \A u \in Threads : u # t => th'[u] = th[u] /\ reply'[u] = reply[u]
<1>1. r.obj \in Objects
  BY DEF Requests
<1>2. [req |-> r, code |-> code, rv |-> rv, items |-> items, there |-> Stored,
       read |-> th[t].read, at |-> store[r.obj]] \in ReplyType
  BY <1>1 DEF Types, ThreadType, ReplyType, Stored
<1>3. QED
  BY <1>2, Constants DEF Answer, Types

LEMMA WriteTypes ==
    ASSUME Types, NEW o \in Objects, NEW v \in ObjectType, NEW id \in Nat, Write(o, v, id)
    PROVE  /\ store' \in [Objects -> ObjectType] /\ rev' \in Nat
           /\ applied' \subseteq [id : Nat, prior : Nat, base : Nat]
BY DEF Types, Write, ObjectType

---------------------------------------------------------------------------
(* The inductive invariant.  A request in progress has an identity of its  *)
(* own that no write carries yet; an object whose revision is 0, which is  *)
(* what every compare-and-swap of a PATCH asks for, is not there.          *)

Busy(t) == th[t].pc # "idle"

Fresh ==
    /\ \A a \in applied : a.id <= count
    /\ \A t \in Threads : reply[t].req.id <= count
    /\ \A t \in Threads : Busy(t) => th[t].req.id <= count /\ ~WroteIt(th[t].req)
    /\ \A t, u \in Threads : Busy(t) /\ Busy(u) /\ t # u => th[t].req.id # th[u].req.id
    /\ \A t, u \in Threads : Busy(t) => reply[u].req.id # th[t].req.id

Unrevised == \A o \in Objects : store[o].mod = 0 => store[o].id = 0

VerbOfStep ==
    \A t \in Threads :
        /\ th[t].pc = "get" => th[t].req.verb = "GET"
        /\ th[t].pc = "list" => th[t].req.verb = "LIST"
        /\ th[t].pc = "delete" => th[t].req.verb = "DELETE"
        /\ th[t].pc = "idle" => th[t] = Idle

IInv == Types /\ Fresh /\ Unrevised /\ VerbOfStep

\* What serving a request may do to the history of writes.
Recorded(t) ==
    \/ applied' = applied
    \/ \E p, b \in Nat : applied' = applied \cup {[id |-> th[t].req.id, prior |-> p, base |-> b]}

LEMMA Served ==
    ASSUME Types, Fresh, NEW t \in Threads, Busy(t), NEW code \in Nat, NEW rv \in Int,
           NEW items \in SUBSET Objects, Answer(t, th[t].req, code, rv, items),
           Recorded(t), count' = count
    PROVE  /\ Fresh'
           /\ \A u \in Threads : u # t =>
                 /\ reply'[u] = reply[u]
                 /\ (WroteIt(reply[u].req))' <=> WroteIt(reply[u].req)
<1>1. th[t].req \in Requests /\ th[t].req.id \in Nat
  BY DEF Types, ThreadType, Requests
<1>2. /\ th'[t] = Idle /\ reply'[t].req = th[t].req
      /\ \A u \in Threads : u # t => th'[u] = th[u] /\ reply'[u] = reply[u]
  BY <1>1, AnswerTypes
<1>3. \A i : i # th[t].req.id => ((\E a \in applied' : a.id = i) <=> (\E a \in applied : a.id = i))
  BY DEF Recorded
<1>4. \A a \in applied' : a.id <= count'
  BY DEF Recorded, Fresh
<1>5. \A u \in Threads : reply'[u].req.id <= count'
  BY <1>2 DEF Fresh
<1>6. \A u \in Threads : Busy(u)' => u # t /\ Busy(u) /\ th'[u] = th[u]
  BY <1>2 DEF Busy, Idle
<1>7. \A u \in Threads : Busy(u)' => th'[u].req.id <= count' /\ ~(WroteIt(th[u].req))'
  BY <1>2, <1>3, <1>6 DEF Fresh, WroteIt
<1>8. \A u, v \in Threads : Busy(u)' /\ Busy(v)' /\ u # v => th'[u].req.id # th'[v].req.id
  BY <1>6 DEF Fresh
<1>9. \A u, v \in Threads : Busy(u)' => reply'[v].req.id # th'[u].req.id
  BY <1>2, <1>6 DEF Fresh
<1>10. \A u \in Threads : u # t => ((WroteIt(reply[u].req))' <=> WroteIt(reply[u].req))
  BY <1>2, <1>3 DEF Fresh, WroteIt
<1>11. QED
  BY <1>2, <1>4, <1>5, <1>7, <1>8, <1>9, <1>10 DEF Fresh

---------------------------------------------------------------------------
(* Every step that ends a request is a Response: at most one write, of an  *)
(* object with a revision, and a code that tells whether it was made.      *)

Writes(t) ==
    \E v \in ObjectType :
        /\ v.mod = 0 => v.id = 0
        /\ v.base # 0 => store[th[t].req.obj].mod = 0
        /\ Write(th[t].req.obj, v, th[t].req.id)

Response(t, code) ==
    /\ Busy(t)
    /\ \E rv \in Int, items \in SUBSET Objects : Answer(t, th[t].req, code, rv, items)
    /\ UnchangedStore \/ Writes(t)
    /\ code \in {400, 404} => UnchangedStore
    /\ code = 409 /\ "retried" \notin Glitches => UnchangedStore
    /\ "unseen" \notin Glitches =>
          /\ code \in {200, 201} /\ th[t].req.verb \in Changes \ {"DELETE"} => Writes(t)
          /\ code = 204 => Writes(t) \/ store[th[t].req.obj] = Absent
    /\ UNCHANGED <<now, count>>

LEMMA ResponseRecorded ==
    ASSUME Types, NEW t \in Threads, UnchangedStore \/ Writes(t)
    PROVE  Recorded(t)
<1>1. th[t].req.obj \in Objects
  BY SMTT(40) DEF Types, ThreadType, Requests
<1>2. CASE Writes(t)
  BY <1>1, <1>2 DEF Writes, Write, Recorded, Types, ObjectType
<1>3. CASE UnchangedStore
  BY <1>3 DEF UnchangedStore, Recorded
<1>4. QED
  BY <1>2, <1>3

LEMMA ResponseIInv ==
    ASSUME IInv, NEW t \in Threads, NEW code \in Nat, Response(t, code)
    PROVE  IInv'
<1>1. PICK rv \in Int, items \in SUBSET Objects : Answer(t, th[t].req, code, rv, items)
  BY DEF Response
<1>2. th[t].req \in Requests /\ th[t].req.obj \in Objects /\ th[t].req.id \in Nat
  BY DEF IInv, Types, ThreadType, Requests
<1>3. /\ th' \in [Threads -> ThreadType] /\ reply' \in [Threads -> ReplyType]
      /\ th'[t] = Idle
      /\ \A u \in Threads : u # t => th'[u] = th[u]
  BY <1>1, <1>2, AnswerTypes DEF IInv
<1>4. /\ store' \in [Objects -> ObjectType] /\ rev' \in Nat
      /\ applied' \subseteq [id : Nat, prior : Nat, base : Nat]
  <2>1. CASE UnchangedStore
    BY <2>1 DEF UnchangedStore, IInv, Types
  <2>2. CASE Writes(t)
    BY <1>2, <2>2, WriteTypes DEF Writes, IInv
  <2>3. QED
    BY <2>1, <2>2, SMTT(40) DEF Response
<1>5. Types'
  BY <1>3, <1>4 DEF Types, IInv, Response
<1>6. Fresh'
  BY <1>1, Served, ResponseRecorded, SMTT(40) DEF IInv, Response
<1>7. Unrevised'
  <2>1. CASE UnchangedStore
    BY <2>1 DEF UnchangedStore, Unrevised, IInv
  <2>2. CASE Writes(t)
    <3>1. PICK v \in ObjectType : (v.mod = 0 => v.id = 0) /\ store' = [store EXCEPT ![th[t].req.obj] = v]
      BY <2>2 DEF Writes, Write
    <3>2. store \in [Objects -> ObjectType] /\ Unrevised
      BY DEF IInv, Types
    <3>3. QED
      BY <3>1, <3>2 DEF Unrevised
  <2>3. QED
    BY <2>1, <2>2 DEF Response
<1>8. VerbOfStep'
  BY <1>3 DEF VerbOfStep, IInv, Idle
<1>9. QED
  BY <1>5, <1>6, <1>7, <1>8 DEF IInv

LEMMA ResponsePatch ==
    ASSUME IInv, PatchReplacesWhatItRead, NEW t \in Threads, NEW code, Response(t, code)
    PROVE  PatchReplacesWhatItRead'
<1>1. th[t].req.obj \in Objects
  BY DEF IInv, Types, ThreadType, Requests
<1>2. CASE UnchangedStore
  BY <1>2 DEF UnchangedStore, PatchReplacesWhatItRead
<1>3. CASE Writes(t)
  <2>1. PICK v \in ObjectType : /\ v.base # 0 => store[th[t].req.obj].mod = 0
                                /\ Write(th[t].req.obj, v, th[t].req.id)
    BY <1>3 DEF Writes
  <2>2. v.base # 0 => store[th[t].req.obj].id = 0
    BY <1>1, <2>1 DEF IInv, Unrevised
  <2>3. QED
    BY <2>1, <2>2 DEF Write, PatchReplacesWhatItRead
<1>4. QED
  BY <1>2, <1>3, SMTT(40) DEF Response

LEMMA ResponseRefused ==
    ASSUME IInv, RefusedHasNoEffect, NEW t \in Threads, NEW code \in Nat, Response(t, code)
    PROVE  RefusedHasNoEffect'
<1>1. PICK rv \in Int, items \in SUBSET Objects : Answer(t, th[t].req, code, rv, items)
  BY DEF Response
<1>2. th[t].req \in Requests
  BY DEF IInv, Types, ThreadType
<1>3. reply'[t].req = th[t].req /\ reply'[t].code = code
  BY <1>1, <1>2, AnswerTypes DEF IInv
<1>4. \A u \in Threads : u # t => /\ reply'[u] = reply[u]
                                  /\ (WroteIt(reply[u].req))' <=> WroteIt(reply[u].req)
  BY <1>1, Served, ResponseRecorded DEF IInv, Response
<1>5. code \in {400, 404} \/ (code = 409 /\ "retried" \notin Glitches)
         => ~(WroteIt(reply[t].req))'
  BY <1>3, SMTT(40) DEF Response, UnchangedStore, WroteIt, IInv, Fresh
<1>6. QED
  BY <1>3, <1>4, <1>5 DEF RefusedHasNoEffect

LEMMA ResponseAcknowledged ==
    ASSUME IInv, AcknowledgedIsApplied, NEW t \in Threads, NEW code \in Nat, Response(t, code),
           "unseen" \notin Glitches
    PROVE  AcknowledgedIsApplied'
<1>1. PICK rv \in Int, items \in SUBSET Objects : Answer(t, th[t].req, code, rv, items)
  BY DEF Response
<1>2. th[t].req \in Requests
  BY DEF IInv, Types, ThreadType
<1>3. /\ reply'[t].req = th[t].req /\ reply'[t].code = code
      /\ reply'[t].at = store[th[t].req.obj]
  BY <1>1, <1>2, AnswerTypes DEF IInv
<1>4. \A u \in Threads : u # t => /\ reply'[u] = reply[u]
                                  /\ (WroteIt(reply[u].req))' <=> WroteIt(reply[u].req)
  BY <1>1, Served, ResponseRecorded DEF IInv, Response
<1>5. Writes(t) => (WroteIt(reply[t].req))'
  <2>1. SUFFICES ASSUME Writes(t) PROVE \E a \in applied' : a.id = th[t].req.id
    BY <1>3 DEF WroteIt
  <2>2. PICK v \in ObjectType : Write(th[t].req.obj, v, th[t].req.id)
    BY <2>1 DEF Writes
  <2>3. [id |-> th[t].req.id, prior |-> store[th[t].req.obj].id, base |-> v.base] \in applied'
    BY <2>2 DEF Write
  <2>4. QED
    BY <2>3
<1>6. QED
  BY <1>3, <1>4, <1>5 DEF AcknowledgedIsApplied, Response

---------------------------------------------------------------------------
(* The endpoints: each step is a Response, or goes on to the next call.    *)

Continues(t) ==
    /\ Busy(t)
    /\ th' \in [Threads -> ThreadType]
    /\ th'[t].pc \in {"cas", "patch"} /\ th'[t].req = th[t].req
    /\ \A u \in Threads : u # t => th'[u] = th[u]
    /\ UnchangedStore /\ UNCHANGED <<reply, now, count>>

Serves(t) == (\E code \in Nat : Response(t, code)) \/ Continues(t)

LEMMA Request ==
    ASSUME Types, NEW t \in Threads
    PROVE  /\ th[t] \in ThreadType /\ th[t].req \in Requests
           /\ th[t].req.obj \in Objects /\ th[t].req.id \in Nat
           /\ store[th[t].req.obj] \in ObjectType
BY DEF Types, ThreadType, Requests

LEMMA UnseenServes ==
    ASSUME NEW t \in Threads, Busy(t), NEW code \in {200, 201, 204},
           Unseen(t, th[t].req, code), UNCHANGED <<now, count>>
    PROVE  Serves(t)
<1>1. 0 \in Int /\ {} \in SUBSET Objects /\ code \in Nat
  OBVIOUS
<1>2. Response(t, code)
  BY <1>1, SMTT(40) DEF Unseen, Response
<1>3. QED
  BY <1>1, <1>2, SMTT(40) DEF Serves

LEMMA CreateServes ==
    ASSUME IInv, NEW t \in Threads, NEW k, Create(t, k)
    PROVE  Serves(t)
<1> DEFINE r == th[t].req
<1>1. NewObject(r) \in ObjectType /\ NewObject(r).mod # 0 /\ NewObject(r).base = 0
  <2>1. NewObject(r).rv \in Versions
    BY DEF NewObject, Versions, NoRv, IInv, Types
  <2>2. QED
    BY <2>1, Request DEF NewObject, ObjectType, IInv, Types
<1>2. Write(r.obj, NewObject(r), r.id) => Writes(t)
  BY <1>1 DEF Writes
<1>3. \A f : PutFailure(k, f) \in {500, 503}
  BY DEF PutFailure
<1>4. Busy(t) /\ UNCHANGED <<now, count>>
  BY DEF Create, At, Busy
<1>5. CASE Write(r.obj, NewObject(r), r.id) /\ Answer(t, r, 201, rev + 1, {})
  <2>1. rev + 1 \in Int /\ {} \in SUBSET Objects
    BY DEF IInv, Types
  <2>2. Response(t, 201)
    BY <1>2, <1>4, <1>5, <2>1, SMTT(40) DEF Response
  <2>3. QED
    BY <2>2, SMTT(40) DEF Serves
<1>6. CASE \E f \in Failures : /\ MaybeWrite(r.obj, NewObject(r), r.id)
                               /\ Answer(t, r, PutFailure(k, f), NoRv, {})
  <2>1. PICK f \in Failures : /\ MaybeWrite(r.obj, NewObject(r), r.id)
                              /\ Answer(t, r, PutFailure(k, f), NoRv, {})
    BY <1>6
  <2>2. NoRv \in Int /\ {} \in SUBSET Objects
    BY DEF NoRv
  <2>3. Response(t, PutFailure(k, f))
    BY <1>2, <1>3, <1>4, <2>1, <2>2, SMTT(40) DEF Response, MaybeWrite
  <2>4. QED
    BY <1>3, <2>3, SMTT(40) DEF Serves
<1>7. CASE Unseen(t, r, 201)
  BY <1>4, <1>7, UnseenServes
<1>8. QED
  BY <1>5, <1>6, <1>7, SMTT(40) DEF Create

LEMMA GetServes ==
    ASSUME IInv, NEW t \in Threads, NEW k, Get(t, k)
    PROVE  Serves(t)
<1> DEFINE r == th[t].req
<1>1. /\ Busy(t) /\ UnchangedStore /\ UNCHANGED <<now, count>>
      /\ r.verb \notin Changes
  BY DEF Get, At, Busy, IInv, VerbOfStep, Changes
<1>2. \E code \in Nat \ {204}, rv \in Int : Answer(t, r, code, rv, {})
  <2>1. store[r.obj].rv \in Int /\ GetRevision \in Int /\ NoRv \in Int
    BY Request DEF IInv, ObjectType, Versions, GetRevision, NoRv
  <2>2. \A f : GetFailure(k, f) \in Nat \ {204}
    BY DEF GetFailure
  <2>3. QED
    BY <2>1, <2>2 DEF Get
<1>3. PICK code \in Nat \ {204} : Response(t, code)
  BY <1>1, <1>2, SMTT(40) DEF Response
<1>4. QED
  BY <1>3, SMTT(40) DEF Serves

LEMMA ListServes ==
    ASSUME IInv, NEW t \in Threads, NEW k, List(t, k)
    PROVE  Serves(t)
<1> DEFINE r == th[t].req
<1>1. /\ Busy(t) /\ UnchangedStore /\ UNCHANGED <<now, count>>
      /\ r.verb \notin Changes
  BY DEF List, At, Busy, IInv, VerbOfStep, Changes
<1>2. \E code \in Nat \ {204}, rv \in Int, i \in SUBSET Objects : Answer(t, r, code, rv, i)
  <2>1. NoRv \in Int /\ {} \in SUBSET Objects /\ Items(k) \in SUBSET Objects
    BY DEF NoRv, Items, OfKind, Stored
  <2>2. \A f : ListFailure(k, f) \in Nat \ {204}
    BY DEF ListFailure
  <2>3. QED
    BY <2>1, <2>2 DEF List
<1>3. PICK code \in Nat \ {204} : Response(t, code)
  BY <1>1, <1>2, SMTT(40) DEF Response
<1>4. QED
  BY <1>3, SMTT(40) DEF Serves

LEMMA DeleteServes ==
    ASSUME IInv, NEW t \in Threads, NEW k, Delete(t, k)
    PROVE  Serves(t)
<1> DEFINE r == th[t].req
<1>1. Busy(t) /\ r.verb = "DELETE" /\ UNCHANGED <<now, count>>
  BY DEF Delete, At, Busy, IInv, VerbOfStep
<1>2. Erase(r) => UnchangedStore \/ Writes(t)
  BY Constants DEF Erase, Writes, Absent
<1>3. Erase(r) => Writes(t) \/ store[r.obj] = Absent
  BY Constants DEF Erase, Writes, Absent
<1>4. NoRv \in Int /\ {} \in SUBSET Objects
  BY DEF NoRv
<1>5. CASE Erase(r) /\ Answer(t, r, 204, NoRv, {})
  <2>1. Response(t, 204)
    BY <1>1, <1>2, <1>3, <1>4, <1>5, SMTT(40) DEF Response
  <2>2. QED
    BY <2>1, SMTT(40) DEF Serves
<1>6. CASE \E f \in Failures : /\ UnchangedStore \/ ("lost" \in Glitches /\ Erase(r))
                               /\ Answer(t, r, DeleteFailure(k, f), NoRv, {})
  <2>1. PICK f \in Failures : /\ UnchangedStore \/ ("lost" \in Glitches /\ Erase(r))
                              /\ Answer(t, r, DeleteFailure(k, f), NoRv, {})
    BY <1>6
  <2>2. DeleteFailure(k, f) \in {500, 503}
    BY DEF DeleteFailure
  <2>3. Response(t, DeleteFailure(k, f))
    BY <1>1, <1>2, <1>4, <2>1, <2>2, SMTT(40) DEF Response
  <2>4. QED
    BY <2>2, <2>3, SMTT(40) DEF Serves
<1>7. CASE Unseen(t, r, 204)
  BY <1>1, <1>7, UnseenServes
<1>8. QED
  BY <1>5, <1>6, <1>7 DEF Delete

LEMMA PatchGetServes ==
    ASSUME IInv, NEW t \in Threads, NEW k, PatchGet(t, k)
    PROVE  Serves(t)
<1> DEFINE r == th[t].req
           v == store[r.obj]
<1>1. Busy(t) /\ UnchangedStore /\ UNCHANGED <<now, count>>
  BY DEF PatchGet, At, Busy
<1>2. NoRv \in Int /\ {} \in SUBSET Objects
  BY DEF NoRv
<1>3. CASE \E code \in {500, 400, 404, 409} : Answer(t, r, code, NoRv, {})
  <2>1. PICK code \in {500, 400, 404, 409} : Answer(t, r, code, NoRv, {})
    BY <1>3
  <2>2. Response(t, code)
    BY <1>1, <1>2, <2>1, SMTT(40) DEF Response
  <2>3. QED
    BY <2>2, SMTT(40) DEF Serves
<1>4. CASE th' = [th EXCEPT ![t].pc = "cas", ![t].read = v] /\ UNCHANGED reply
  <2>1. [th[t] EXCEPT !.pc = "cas", !.read = v] \in ThreadType
    BY Request, Zenon DEF IInv, ThreadType, PCs
  <2>2. Continues(t)
    BY <1>1, <1>4, <2>1 DEF Continues, IInv, Types, ThreadType
  <2>3. QED
    BY <2>2, SMTT(40) DEF Serves
<1>5. QED
  BY <1>3, <1>4 DEF PatchGet

LEMMA PatchCasServes ==
    ASSUME IInv, NEW t \in Threads, NEW k, PatchCas(t, k)
    PROVE  Serves(t)
<1> DEFINE r == th[t].req
           matches == store[r.obj].mod = GetRevision
<1>1. Busy(t) /\ UNCHANGED <<now, count>>
  BY SMTT(40) DEF PatchCas, At, Busy
<1>2. Merged(t) \in ObjectType /\ Merged(t).mod # 0
  <2>1. th[t].first.id \in Nat /\ th[t].read.id \in Nat /\ th[t].read.rv \in Versions
    BY Request DEF IInv, ThreadType, ObjectType
  <2>2. QED
    BY <2>1, Request DEF Merged, ObjectType, IInv, Types
<1>3. matches /\ Write(r.obj, Merged(t), r.id) => Writes(t)
  BY <1>2 DEF Writes, GetRevision
<1>4. NoRv \in Int /\ {} \in SUBSET Objects /\ rev + 1 \in Int
  BY DEF NoRv, IInv, Types
<1>5. CASE /\ matches /\ Write(r.obj, Merged(t), r.id)
           /\ \E rv \in {0, rev + 1} : Answer(t, r, 200, rv, {})
  <2>1. Response(t, 200)
    BY <1>1, <1>3, <1>4, <1>5, SMTT(40) DEF Response
  <2>2. QED
    BY <2>1, SMTT(40) DEF Serves
<1>6. CASE /\ matches /\ "retried" \in Glitches
           /\ Write(r.obj, Merged(t), r.id)
           /\ Answer(t, r, 409, NoRv, {})
  <2>1. Response(t, 409)
    BY <1>1, <1>3, <1>4, <1>6, SMTT(40) DEF Response
  <2>2. QED
    BY <2>1, SMTT(40) DEF Serves
<1>7. CASE UnchangedStore /\ Answer(t, r, 409, NoRv, {})
  <2>1. Response(t, 409)
    BY <1>1, <1>4, <1>7, SMTT(40) DEF Response
  <2>2. QED
    BY <2>1, SMTT(40) DEF Serves
<1>8. CASE \E f \in Failures :
              /\ IF matches THEN MaybeWrite(r.obj, Merged(t), r.id) ELSE UnchangedStore
              /\ Answer(t, r, CasFailure(k, f), NoRv, {})
  <2>1. PICK f \in Failures :
              /\ IF matches THEN MaybeWrite(r.obj, Merged(t), r.id) ELSE UnchangedStore
              /\ Answer(t, r, CasFailure(k, f), NoRv, {})
    BY <1>8
  <2>2. CasFailure(k, f) \in {500, 503}
    BY SMTT(40) DEF CasFailure
  <2>3. Response(t, CasFailure(k, f))
    BY <1>1, <1>3, <1>4, <2>1, <2>2, SMTT(40) DEF Response, MaybeWrite
  <2>4. QED
    BY <2>2, <2>3, SMTT(40) DEF Serves
<1>9. CASE Unseen(t, r, 200)
  BY <1>1, <1>9, UnseenServes
<1>10. QED
  BY <1>5, <1>6, <1>7, <1>8, <1>9, Zenon DEF PatchCas

LEMMA BindServes ==
    ASSUME IInv, NEW t \in Threads, bind_pod(t)
    PROVE  Serves(t)
<1> DEFINE r == th[t].req
           v == store[r.obj]
<1>1. Busy(t) /\ UnchangedStore /\ UNCHANGED <<now, count>>
  BY DEF bind_pod, At, Busy
<1>2. CASE Answer(t, r, 404, NoRv, {})
  <2>1. NoRv \in Int /\ {} \in SUBSET Objects
    BY DEF NoRv
  <2>2. Response(t, 404)
    BY <1>1, <1>2, <2>1, SMTT(40) DEF Response
  <2>3. QED
    BY <2>2, SMTT(40) DEF Serves
<1>3. CASE th' = [th EXCEPT ![t].pc = "patch", ![t].first = v] /\ UNCHANGED reply
  <2>1. [th[t] EXCEPT !.pc = "patch", !.first = v] \in ThreadType
    BY Request, Zenon DEF IInv, ThreadType, PCs
  <2>2. Continues(t)
    BY <1>1, <1>3, <2>1 DEF Continues, IInv, Types, ThreadType
  <2>3. QED
    BY <2>2, SMTT(40) DEF Serves
<1>4. QED
  BY <1>2, <1>3 DEF bind_pod

LEMMA EndpointServes ==
    ASSUME IInv, NEW t \in Threads, Endpoint(t)
    PROVE  Serves(t)
<1>1. CASE CreateStep(t)
  BY <1>1, CreateServes DEF CreateStep, endpoint_create_pod_etcd,
     endpoint_create_service_etcd, endpoint_create_deployment_etcd,
     endpoint_create_statefulset_etcd, endpoint_create_job_etcd,
     endpoint_create_configmap_etcd, endpoint_create_secret_etcd,
     endpoint_create_pv_etcd, endpoint_create_pvc_etcd
<1>2. CASE GetStep(t)
  BY <1>2, GetServes DEF GetStep, endpoint_get_pod_etcd,
     endpoint_get_service_etcd, endpoint_get_deployment_etcd,
     endpoint_get_statefulset_etcd, endpoint_get_job_etcd,
     endpoint_get_configmap_etcd, endpoint_get_secret_etcd,
     endpoint_get_pv_etcd, endpoint_get_pvc_etcd
<1>3. CASE ListStep(t)
  BY <1>3, ListServes DEF ListStep, endpoint_list_pods_etcd,
     endpoint_list_services_etcd, endpoint_list_deployments_etcd,
     endpoint_list_statefulsets_etcd, endpoint_list_jobs_etcd,
     endpoint_list_configmaps_etcd, endpoint_list_secrets_etcd,
     endpoint_list_pv_etcd, endpoint_list_pvc_etcd
<1>4. CASE DeleteStep(t)
  BY <1>4, DeleteServes DEF DeleteStep, endpoint_delete_pod_etcd,
     endpoint_delete_service_etcd, endpoint_delete_deployment_etcd,
     endpoint_delete_statefulset_etcd, endpoint_delete_job_etcd,
     endpoint_delete_configmap_etcd, endpoint_delete_secret_etcd,
     endpoint_delete_pv_etcd, endpoint_delete_pvc_etcd
<1>5. CASE PatchStep(t)
  BY <1>5, PatchGetServes, PatchCasServes DEF PatchStep, Patch, endpoint_patch_pod_etcd,
     endpoint_patch_service_etcd, endpoint_patch_deployment_etcd,
     endpoint_patch_configmap_etcd, endpoint_patch_secret_etcd,
     endpoint_patch_pv_etcd, endpoint_patch_pvc_etcd
<1>6. QED
  BY <1>1, <1>2, <1>3, <1>4, <1>5, BindServes DEF Endpoint

---------------------------------------------------------------------------
(* Requests that arrive, and steps inside a request.                       *)

LEMMA RouteSteps ==
    ASSUME NEW verbs \in SUBSET (AllVerbs \ {"PUT"}), NEW v \in AllVerbs
    PROVE  /\ Routed(verbs, v) \in (PCs \ {"idle"}) \cup {"none"}
           /\ Routed(verbs, v) = "get" => v = "GET"
           /\ Routed(verbs, v) = "list" => v = "LIST"
           /\ Routed(verbs, v) = "delete" => v = "DELETE"
<1>1. CASE v \notin verbs
  BY <1>1 DEF Routed
<1>2. CASE v \in verbs
  <2>1. v \in {"GET", "LIST", "POST", "DELETE", "PATCH", "BIND", "STATUS"}
    BY <1>2 DEF AllVerbs
  <2>2. Routed(verbs, v) = FirstStep[v]
    BY <1>2 DEF Routed
  <2>3. QED
    BY <2>1, <2>2 DEF FirstStep, PCs
<1>3. QED
  BY <1>1, <1>2

LEMMA RouteOfRequest ==
    ASSUME NEW r \in Requests
    PROVE  /\ Route(r) \in (PCs \ {"idle"}) \cup {"none", "update", "namespace"}
           /\ Route(r) = "get" => r.verb = "GET"
           /\ Route(r) = "list" => r.verb = "LIST"
           /\ Route(r) = "delete" => r.verb = "DELETE"
           /\ Route(r) = "update" => r.verb = "PUT"
           /\ Route(r) = "namespace" => r.scoped /\ r.obj[1] = "persistentvolumeclaims"
<1> DEFINE A == Crud
           B == Crud \cup {"PATCH"}
           C == Crud \cup {"PATCH", "BIND", "STATUS"}
           R(x) == /\ x \in (PCs \ {"idle"}) \cup {"none"}
                   /\ x = "get" => r.verb = "GET"
                   /\ x = "list" => r.verb = "LIST"
                   /\ x = "delete" => r.verb = "DELETE"
<1>1. r.verb \in AllVerbs /\ r.obj[1] \in AllKinds /\ r.scoped \in BOOLEAN
  BY ApiAssumption DEF Requests, Objects
<1>2. /\ A \in SUBSET (AllVerbs \ {"PUT"}) /\ B \in SUBSET (AllVerbs \ {"PUT"})
      /\ C \in SUBSET (AllVerbs \ {"PUT"})
  BY DEF Crud, AllVerbs
<1>3. R(Routed(A, r.verb)) /\ R(Routed(B, r.verb)) /\ R(Routed(C, r.verb))
  BY <1>1, <1>2, RouteSteps
<1>4. CASE r.obj[1] = "persistentvolumeclaims"
  <2>1. Route(r) = route_pvc(r.verb, r.scoped)
    BY <1>4 DEF Route
  <2>2. CASE r.scoped /\ route_namespaces(r.verb) # "none"
    <3>1. Route(r) = "namespace"
      BY <2>1, <2>2, SMTT(40) DEF route_pvc, route_namespaces
    <3>2. QED
      BY <1>4, <2>2, <3>1
  <2>3. CASE ~(r.scoped /\ route_namespaces(r.verb) # "none")
    <3>1. Route(r) = Routed(B, r.verb)
      BY <2>1, <2>3, SMTT(40) DEF route_pvc
    <3>2. QED
      BY <1>3, <3>1 DEF PCs
  <2>4. QED
    BY <2>2, <2>3
<1>5. CASE r.obj[1] = "deployments"
  <2>1. Route(r) = IF r.verb = "PUT" THEN "update" ELSE Routed(B, r.verb)
    BY <1>5, SMTT(40) DEF Route, route_deployments
  <2>2. QED
    BY <1>3, <2>1 DEF PCs
<1>6. CASE r.obj[1] \notin {"persistentvolumeclaims", "deployments"}
  <2>1. Route(r) \in {Routed(A, r.verb), Routed(B, r.verb), Routed(C, r.verb)}
    BY <1>1, <1>6, SMTT(40) DEF Route, AllKinds, route_pods, route_services, route_statefulsets,
       route_jobs, route_configmaps, route_secrets, route_pv
  <2>2. QED
    BY <1>3, <2>1 DEF PCs
<1>7. QED
  BY <1>4, <1>5, <1>6

LEMMA IncomingTypes ==
    ASSUME Types, NEW r \in Incoming
    PROVE  /\ r \in Requests /\ r.id = count + 1 /\ r.verb \in Verbs
           /\ r.obj[1] = "persistentvolumeclaims" => r.scoped \in ClaimPaths
<1>1. \A o \in Objects : store[o].mod \in Int /\ store[o].rv \in Int
  BY DEF Types, ObjectType, Versions, NoRv
<1>2. QED
  BY <1>1, ApiAssumption DEF Incoming, Requests, Types, NoRv

\* A request that is answered without a call to etcd.
Replies(t, r, code) ==
    /\ \E rv \in Int, items \in SUBSET Objects : Answer(t, r, code, rv, items)
    /\ code \in {200, 201} => \/ r.verb = "PUT"
                              \/ r.scoped /\ r.obj[1] = "persistentvolumeclaims"
    /\ code # 204

\* A request whose endpoint is entered.
Enters(t, r) ==
    /\ th' \in [Threads -> ThreadType]
    /\ th'[t].req = r
    /\ th'[t].pc = "get" => r.verb = "GET"
    /\ th'[t].pc = "list" => r.verb = "LIST"
    /\ th'[t].pc = "delete" => r.verb = "DELETE"
    /\ th'[t].pc # "idle"
    /\ \A u \in Threads : u # t => th'[u] = th[u]
    /\ UNCHANGED reply

LEMMA Receives ==
    ASSUME IInv, NEW t \in Threads, api_handle_request(t)
    PROVE  /\ count' = count + 1 /\ th[t].pc = "idle"
           /\ UnchangedStore /\ UNCHANGED now
           /\ \E r \in Incoming : (\E code \in Nat : Replies(t, r, code)) \/ Enters(t, r)
<1>1. PICK r \in Incoming :
        \/ Route(r) = "none" /\ Answer(t, r, 404, NoRv, {})
        \/ Route(r) = "update" /\ Answer(t, r, endpoint_update_deployment(r), NoRv, {})
        \/ Route(r) = "namespace" /\ Answer(t, r, NamespaceReply(r), NoRv, {})
        \/ /\ Route(r) \notin {"none", "update", "namespace"}
           /\ BadRequest(r) /\ Answer(t, r, 400, NoRv, {})
        \/ /\ Route(r) \notin {"none", "update", "namespace"} /\ ~BadRequest(r)
           /\ th' = [th EXCEPT ![t] = [Idle EXCEPT !.pc = Route(r), !.req = r]]
           /\ UNCHANGED reply
  BY Zenon DEF api_handle_request
<1>2. r \in Requests
  BY IncomingTypes DEF IInv
<1>3. NoRv \in Int /\ {} \in SUBSET Objects
  BY DEF NoRv
<1>4. CASE \E code \in {400, 404} : Answer(t, r, code, NoRv, {})
  <2>1. \E code \in Nat : Replies(t, r, code)
    BY <1>3, <1>4 DEF Replies
  <2>2. QED
    BY <2>1 DEF api_handle_request
<1>5. CASE Route(r) = "update" /\ Answer(t, r, endpoint_update_deployment(r), NoRv, {})
  <2>1. endpoint_update_deployment(r) \in {200, 400}
    BY SMTT(40) DEF endpoint_update_deployment
  <2>2. Replies(t, r, endpoint_update_deployment(r))
    BY <1>2, <1>3, <1>5, <2>1, RouteOfRequest DEF Replies
  <2>3. QED
    BY <2>1, <2>2 DEF api_handle_request
<1>6. CASE Route(r) = "namespace" /\ Answer(t, r, NamespaceReply(r), NoRv, {})
  <2>1. NamespaceReply(r) \in {200, 201, 400}
    BY DEF NamespaceReply
  <2>2. Replies(t, r, NamespaceReply(r))
    BY <1>2, <1>3, <1>6, <2>1, RouteOfRequest DEF Replies
  <2>3. QED
    BY <2>1, <2>2 DEF api_handle_request
<1>7. CASE /\ Route(r) \notin {"none", "update", "namespace"}
           /\ th' = [th EXCEPT ![t] = [Idle EXCEPT !.pc = Route(r), !.req = r]]
           /\ UNCHANGED reply
  <2>1. [Idle EXCEPT !.pc = Route(r), !.req = r] \in ThreadType
    BY <1>2, <1>7, Constants, RouteOfRequest, Zenon DEF ThreadType, Idle
  <2>2. th' \in [Threads -> ThreadType] /\ th'[t].pc = Route(r) /\ th'[t].req = r
    BY <1>7, <2>1 DEF IInv, Types, Idle
  <2>3. Enters(t, r)
    BY <1>2, <1>7, <2>2, RouteOfRequest DEF Enters, IInv, Types
  <2>4. QED
    BY <2>3 DEF api_handle_request
<1>8. QED
  BY <1>1, <1>4, <1>5, <1>6, <1>7

LEMMA ReceivesIInv ==
    ASSUME IInv, NEW t \in Threads, api_handle_request(t)
    PROVE  IInv'
<1>1. PICK r \in Incoming : (\E code \in Nat : Replies(t, r, code)) \/ Enters(t, r)
  BY Receives
<1>2. /\ count' = count + 1 /\ th[t].pc = "idle" /\ count \in Nat
      /\ UnchangedStore /\ UNCHANGED now
  BY Receives DEF IInv, Types
<1>3. r \in Requests /\ r.id = count + 1
  BY IncomingTypes DEF IInv
<1>4. /\ th' \in [Threads -> ThreadType] /\ reply' \in [Threads -> ReplyType]
      /\ \A u \in Threads : u # t => th'[u] = th[u] /\ reply'[u] = reply[u]
      /\ \/ th'[t] = Idle /\ reply'[t].req = r
         \/ /\ th'[t].req = r /\ reply'[t] = reply[t]
            /\ th'[t].pc = "get" => r.verb = "GET"
            /\ th'[t].pc = "list" => r.verb = "LIST"
            /\ th'[t].pc = "delete" => r.verb = "DELETE"
            /\ th'[t].pc # "idle"
  <2>1. CASE \E code \in Nat : Replies(t, r, code)
    BY <1>3, <2>1, AnswerTypes DEF Replies, IInv
  <2>2. CASE Enters(t, r)
    BY <2>2 DEF Enters, IInv, Types
  <2>3. QED
    BY <1>1, <2>1, <2>2
<1>5. Types'
  BY <1>2, <1>4, SMTT(40) DEF IInv, Types, UnchangedStore
<1>6. Unrevised' /\ VerbOfStep'
  BY <1>2, <1>4, SMTT(40) DEF IInv, Unrevised, VerbOfStep, UnchangedStore, Idle
<1>7. Fresh'
  <2>1. \A a \in applied : a.id \in Nat
    BY DEF IInv, Types
  <2>2. \A u \in Threads : reply[u].req.id \in Nat /\ th[u].req.id \in Nat
    BY SMTT(40) DEF IInv, Types, ThreadType, ReplyType, Requests
  <2>3. \A a \in applied' : a.id <= count'
    BY <1>2, <2>1, SMTT(40) DEF IInv, Fresh, UnchangedStore
  <2>4. \A u \in Threads : reply'[u].req.id <= count'
    BY <1>2, <1>3, <1>4, <2>2 DEF IInv, Fresh
  <2>5. ~\E a \in applied : a.id = count + 1
    BY <1>2, <2>1, SMTT(40) DEF IInv, Fresh
  <2>6. \A u \in Threads : Busy(u)' =>
           \/ u # t /\ Busy(u) /\ th'[u] = th[u]
           \/ u = t /\ th'[u].req.id = count + 1 /\ reply'[t] = reply[t]
    BY <1>3, <1>4, SMTT(40) DEF Busy, Idle
  <2>7. \A u \in Threads : Busy(u)' => th'[u].req.id <= count' /\ ~(WroteIt(th[u].req))'
    <3>1. SUFFICES ASSUME NEW u \in Threads, Busy(u)'
                   PROVE  th'[u].req.id <= count' /\ ~\E a \in applied : a.id = th'[u].req.id
      BY <1>2 DEF WroteIt, UnchangedStore
    <3>2. Busy(u) => th[u].req.id <= count /\ ~\E a \in applied : a.id = th[u].req.id
      BY DEF IInv, Fresh, WroteIt
    <3>3. CASE Busy(u) /\ th'[u] = th[u]
      BY <1>2, <2>2, <3>2, <3>3
    <3>4. CASE th'[u].req.id = count + 1
      BY <1>2, <2>5, <3>4
    <3>5. QED
      BY <2>6, <3>1, <3>3, <3>4
  <2>8. \A u, v \in Threads : Busy(u)' /\ Busy(v)' /\ u # v => th'[u].req.id # th'[v].req.id
    BY <1>2, <2>2, <2>6 DEF IInv, Fresh
  <2>9. \A u, v \in Threads : Busy(u)' => reply'[v].req.id # th'[u].req.id
    <3>1. SUFFICES ASSUME NEW u \in Threads, NEW v \in Threads, Busy(u)'
                   PROVE  reply'[v].req.id # th'[u].req.id
      BY SMTT(40)
    <3>2. CASE u = t
      BY <1>2, <1>4, <2>2, <2>6, <3>1, <3>2, SMTT(40) DEF IInv, Fresh
    <3>3. CASE u # t
      <4>1. Busy(u) /\ th'[u] = th[u]
        BY <2>6, <3>1, <3>3
      <4>2. reply[v].req.id # th[u].req.id /\ th[u].req.id <= count
        BY <4>1 DEF IInv, Fresh
      <4>3. reply'[v] = reply[v] \/ reply'[v].req.id = count + 1
        BY <1>3, <1>4
      <4>4. QED
        BY <1>2, <2>2, <4>1, <4>2, <4>3
    <3>4. QED
      BY <3>2, <3>3
  <2>10. QED
    BY <2>3, <2>4, <2>7, <2>8, <2>9 DEF Fresh
<1>8. QED
  BY <1>5, <1>6, <1>7 DEF IInv

LEMMA ContinuesIInv ==
    ASSUME IInv, NEW t \in Threads, Continues(t)
    PROVE  IInv'
<1>1. Types' /\ Unrevised' /\ VerbOfStep'
  BY DEF IInv, Types, Unrevised, VerbOfStep, Continues, UnchangedStore
<1>2. \A u \in Threads : /\ Busy(u)' <=> Busy(u)
                         /\ th'[u].req = th[u].req /\ reply'[u] = reply[u]
  BY SMTT(40) DEF Continues, Busy
<1>3. Fresh'
  BY <1>2 DEF IInv, Fresh, WroteIt, Continues, UnchangedStore
<1>4. QED
  BY <1>1, <1>3, SMTT(40) DEF IInv

---------------------------------------------------------------------------
(* The theorems.                                                           *)

LEMMA InitIInv == Init => IInv
<1> SUFFICES ASSUME Init PROVE IInv
  OBVIOUS
<1>1. Types
  BY Constants, SMTT(40) DEF Init, Types
<1>2. Fresh
  BY Constants, SMTT(40) DEF Init, Fresh, Busy, Idle, NoReply, NoRequest, WroteIt
<1>3. Unrevised /\ VerbOfStep
  BY DEF Init, Unrevised, VerbOfStep, Absent, Idle
<1>4. QED
  BY <1>1, <1>2, <1>3 DEF IInv

LEMMA StepIInv == IInv /\ [Next]_vars => IInv'
<1> SUFFICES ASSUME IInv, [Next]_vars PROVE IInv'
  BY SMTT(40)
<1>1. CASE Tick
  BY <1>1, SMTT(40) DEF Tick, IInv, Types, Fresh, Unrevised, VerbOfStep, Busy, WroteIt
<1>2. ASSUME NEW t \in Threads, api_handle_request(t) PROVE IInv'
  BY <1>2, ReceivesIInv
<1>3. ASSUME NEW t \in Threads, Endpoint(t) PROVE IInv'
  BY <1>3, EndpointServes, ResponseIInv, ContinuesIInv, SMTT(40) DEF Serves
<1>4. CASE UNCHANGED vars
  BY <1>4 DEF vars, IInv, Types, Fresh, Unrevised, VerbOfStep, Busy, WroteIt
<1>5. QED
  BY <1>1, <1>2, <1>3, <1>4 DEF Next

\* The server's state is well formed in every reachable state.
THEOREM TypeCorrect == Spec => []TypeOK
<1>1. IInv => TypeOK
  BY DEF IInv, Types, TypeOK, VerbOfStep, ThreadType, PCs
<1>2. QED
  BY InitIInv, StepIInv, <1>1, PTL DEF Spec

\* What a PATCH or a bind replaces is what it read, or nothing, for any number of
\* concurrent requests: endpoint_patch_*_etcd compares with a revision of 0, so that it
\* only ever writes where there is no object.
THEOREM NoLostUpdate == Spec => []PatchReplacesWhatItRead
<1>1. Init => PatchReplacesWhatItRead
  BY DEF Init, PatchReplacesWhatItRead
<1>2. IInv /\ PatchReplacesWhatItRead /\ [Next]_vars => PatchReplacesWhatItRead'
  <2> SUFFICES ASSUME IInv, PatchReplacesWhatItRead, [Next]_vars
               PROVE  PatchReplacesWhatItRead'
    OBVIOUS
  <2>1. CASE applied' = applied
    BY <2>1, SMTT(40) DEF PatchReplacesWhatItRead
  <2>2. ASSUME NEW t \in Threads, Endpoint(t) PROVE PatchReplacesWhatItRead'
    BY <2>1, <2>2, EndpointServes, ResponsePatch, SMTT(40) DEF Serves, Continues, UnchangedStore
  <2>3. ASSUME NEW t \in Threads, api_handle_request(t) PROVE applied' = applied
    BY <2>3 DEF api_handle_request, UnchangedStore
  <2>4. QED
    BY <2>1, <2>2, <2>3 DEF Next, Tick, vars
<1>3. QED
  BY InitIInv, StepIInv, <1>1, <1>2, PTL DEF Spec

\* A request that handler.c or an endpoint answers with 400 or 404 has written nothing,
\* nor has one answered with 409 as long as the etcd client sends no compare-and-swap
\* twice.
THEOREM RefusalIsClean == Spec => []RefusedHasNoEffect
<1>1. Init => RefusedHasNoEffect
  BY DEF Init, RefusedHasNoEffect, NoReply
<1>2. IInv /\ RefusedHasNoEffect /\ [Next]_vars => RefusedHasNoEffect'
  <2> SUFFICES ASSUME IInv, RefusedHasNoEffect, [Next]_vars
               PROVE  RefusedHasNoEffect'
    OBVIOUS
  <2>1. CASE applied' = applied /\ reply' = reply
    BY <2>1 DEF RefusedHasNoEffect, WroteIt
  <2>2. ASSUME NEW t \in Threads, Endpoint(t) PROVE RefusedHasNoEffect'
    BY <2>1, <2>2, EndpointServes, ResponseRefused, SMTT(40) DEF Serves, Continues, UnchangedStore
  <2>3. ASSUME NEW t \in Threads, api_handle_request(t) PROVE RefusedHasNoEffect'
    <3>1. PICK r \in Incoming : (\E code \in Nat : Replies(t, r, code)) \/ Enters(t, r)
      BY <2>3, Receives
    <3>2. r \in Requests /\ r.id = count + 1 /\ applied' = applied
      BY <2>3, Receives, IncomingTypes, SMTT(40) DEF IInv, UnchangedStore
    <3>3. ~\E a \in applied : a.id = r.id
      BY <3>2, SMTT(40) DEF IInv, Fresh, Types
    <3>4. CASE \E code \in Nat : Replies(t, r, code)
      <4>1. /\ reply'[t].req = r
            /\ \A u \in Threads : u # t => reply'[u] = reply[u]
        BY <3>2, <3>4, AnswerTypes, SMTT(40) DEF Replies, IInv
      <4>2. QED
        BY <3>2, <3>3, <4>1, SMTT(40) DEF RefusedHasNoEffect, WroteIt
    <3>5. CASE Enters(t, r)
      BY <2>1, <3>2, <3>5 DEF Enters
    <3>6. QED
      BY <3>1, <3>4, <3>5
  <2>4. QED
    BY <2>1, <2>2, <2>3 DEF Next, Tick, vars
<1>3. QED
  BY InitIInv, StepIInv, <1>1, <1>2, PTL DEF Spec

\* A change answered with 200, 201 or 204 has reached etcd.  The two ways handler.c has of
\* acknowledging a change that it does not make are excluded: PUT of a deployment, and
\* claims addressed through their namespace; so are refusals the etcd client overlooks.
THEOREM AcknowledgementIsHonest ==
    ASSUME "PUT" \notin Verbs, TRUE \notin ClaimPaths, "unseen" \notin Glitches
    PROVE  Spec => []AcknowledgedIsApplied
<1>1. Init => AcknowledgedIsApplied
  BY DEF Init, AcknowledgedIsApplied, NoReply
<1>2. IInv /\ AcknowledgedIsApplied /\ [Next]_vars => AcknowledgedIsApplied'
  <2> SUFFICES ASSUME IInv, AcknowledgedIsApplied, [Next]_vars
               PROVE  AcknowledgedIsApplied'
    BY SMTT(40)
  <2>1. CASE applied' = applied /\ reply' = reply
    BY <2>1 DEF AcknowledgedIsApplied, WroteIt
  <2>2. ASSUME NEW t \in Threads, Endpoint(t) PROVE AcknowledgedIsApplied'
    BY <2>1, <2>2, EndpointServes, ResponseAcknowledged, SMTT(40) DEF Serves, Continues, UnchangedStore
  <2>3. ASSUME NEW t \in Threads, api_handle_request(t) PROVE AcknowledgedIsApplied'
    <3>1. PICK r \in Incoming : (\E code \in Nat : Replies(t, r, code)) \/ Enters(t, r)
      BY <2>3, Receives
    <3>2. /\ r \in Requests /\ applied' = applied /\ r.verb # "PUT"
          /\ ~(r.scoped /\ r.obj[1] = "persistentvolumeclaims")
      <4>1. r \in Requests /\ applied' = applied /\ r.verb \in Verbs
        BY <2>3, Receives, IncomingTypes DEF IInv, UnchangedStore
      <4>2. r.obj[1] = "persistentvolumeclaims" => r.scoped = FALSE
        BY IncomingTypes, ApiAssumption, Zenon DEF IInv
      <4>3. QED
        BY <4>1, <4>2, SMTT(40)
    <3>3. CASE \E code \in Nat : Replies(t, r, code)
      <4>1. /\ reply'[t].code \notin {200, 201, 204}
            /\ \A u \in Threads : u # t => reply'[u] = reply[u]
        BY <3>2, <3>3, AnswerTypes DEF Replies, IInv
      <4>2. QED
        BY <3>2, <4>1 DEF AcknowledgedIsApplied, WroteIt
    <3>4. CASE Enters(t, r)
      BY <2>1, <3>2, <3>4 DEF Enters
    <3>5. QED
      BY <3>1, <3>3, <3>4, SMTT(40)
  <2>4. QED
    BY <2>1, <2>2, <2>3 DEF Next, Tick, vars
<1>3. QED
  BY InitIInv, StepIInv, <1>1, <1>2, PTL DEF Spec

\* What the answer to a write says, for any number of concurrent requests: one that was
\* acknowledged was performed, and a PATCH replaced what it had read. The assumptions leave
\* out the cases in which the code does acknowledge what it has not done.
THEOREM WritesHonest ==
    ASSUME "PUT" \notin Verbs, TRUE \notin ClaimPaths, "unseen" \notin Glitches
    PROVE  Spec => []WritesAreTrue
BY TypeCorrect, AcknowledgementIsHonest, NoLostUpdate, PTL DEF WritesAreTrue

=============================================================================
