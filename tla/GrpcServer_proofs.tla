-------------------------- MODULE GrpcServer_proofs --------------------------
(***************************************************************************)
(* For any numbers of services, slices, sidecars and subscriptions with    *)
(* any ids, and channels of any capacity: the distribution implements      *)
(* Distribution, nothing is sent on a closed channel, and no sidecar gets  *)
(* into the map after the receivers were closed.                           *)
(***************************************************************************)
EXTENDS GrpcServer, SequenceTheorems, TLAPS

Slice == [svc : Services, eps : SUBSET Endpoints]

-----------------------------------------------------------------------------
(* The cache of EndpointSlices *)

(* d is c with other slices of svc. *)
Touched(c, d, svc) ==
    /\ DOMAIN d = DOMAIN c \cup {svc}
    /\ d[svc] \in [DOMAIN d[svc] -> SUBSET Endpoints]
    /\ \A x \in DOMAIN c \ {svc} : d[x] = c[x]

LEMMA PutTouches ==
    ASSUME NEW c, NEW svc, NEW m, m \in [DOMAIN m -> SUBSET Endpoints]
    PROVE  Touched(c, Put(c, svc, m), svc)
BY DEF Touched, Put

LEMMA OfType ==
    ASSUME NEW c, CacheOK(c), NEW svc
    PROVE  Of(c, svc) \in [DOMAIN Of(c, svc) -> SUBSET Endpoints]
BY DEF CacheOK, Of, NoSlices

LEMMA AddedTouches ==
    ASSUME NEW c, CacheOK(c), NEW n, NEW es \in Slice
    PROVE  Touched(c, SliceAdded(c, n, es), es.svc)
<1> DEFINE old == Of(c, es.svc)
           m == [x \in DOMAIN old \cup {n} |-> IF x = n THEN es.eps ELSE old[x]]
<1>1. es.eps \in SUBSET Endpoints
  BY DEF Slice
<1>2. old \in [DOMAIN old -> SUBSET Endpoints]
  BY OfType
<1>3. m \in [DOMAIN m -> SUBSET Endpoints]
  BY <1>1, <1>2
<1>4. SliceAdded(c, n, es) = Put(c, es.svc, m)
  BY DEF SliceAdded
<1> HIDE DEF m
<1>5. QED
  BY <1>3, <1>4, PutTouches

LEMMA UpdatedTouches ==
    ASSUME NEW c, CacheOK(c), NEW n, NEW old \in Slice, NEW new \in Slice
    PROVE  Touched(c, SliceUpdated(c, n, old, new), old.svc)
<1>1. CASE old.svc = new.svc
  BY <1>1, AddedTouches DEF SliceUpdated
<1>2. CASE old.svc # new.svc
  <2>1. Of(c, old.svc) \in [DOMAIN Of(c, old.svc) -> SUBSET Endpoints]
    BY OfType
  <2>2. QED
    BY <1>2, <2>1, PutTouches DEF SliceUpdated
<1>3. QED
  BY <1>1, <1>2

LEMMA DeletedTouches ==
    ASSUME NEW c, CacheOK(c), NEW n, NEW old \in Slice,
           old.svc \in DOMAIN c, ~ReadsNil(c, n, old)
    PROVE  Touched(c, SliceDeleted(c, n, old), old.svc)
<1> DEFINE left == Restrict(Of(c, old.svc), DOMAIN Of(c, old.svc) \ {n})
<1>1. Of(c, old.svc) \in [DOMAIN Of(c, old.svc) -> SUBSET Endpoints]
  BY OfType
<1>2. left \in [DOMAIN left -> SUBSET Endpoints]
  BY <1>1 DEF Restrict
<1>3. old.svc \in DOMAIN SliceDeleted(c, n, old)
  BY DEF ReadsNil
<1>4. old.svc \notin DOMAIN Restrict(c, DOMAIN c \ {old.svc})
  BY DEF Restrict
<1>5. SliceDeleted(c, n, old) = Put(c, old.svc, left)
  BY <1>3, <1>4 DEF SliceDeleted
<1> HIDE DEF left
<1>6. QED
  BY <1>2, <1>5, PutTouches

LEMMA TouchedOK ==
    ASSUME NEW c, CacheOK(c), NEW svc \in Services, NEW d, Touched(c, d, svc)
    PROVE  /\ CacheOK(d)
           /\ GetMerged(d, svc) \in SUBSET Endpoints
           /\ \A x \in Services \ {svc} :
                 GetMerged(d, x) = GetMerged(c, x) /\ (x \in DOMAIN d <=> x \in DOMAIN c)
<1>1. CacheOK(d)
  BY DEF CacheOK, Touched
<1>2. GetMerged(d, svc) \in SUBSET Endpoints
  BY DEF GetMerged, Of, Range, Touched
<1>3. ASSUME NEW x \in Services \ {svc}
      PROVE  GetMerged(d, x) = GetMerged(c, x) /\ (x \in DOMAIN d <=> x \in DOMAIN c)
  <2>1. x \in DOMAIN d <=> x \in DOMAIN c
    BY DEF Touched
  <2>2. Of(d, x) = Of(c, x)
    BY <2>1 DEF Of, Touched
  <2>3. QED
    BY <2>1, <2>2 DEF GetMerged
<1>4. QED
  BY <1>1, <1>2, <1>3

(* What a report does: a new state of one service is published, or nothing *)
(* is (and perhaps the process ends).                                      *)
Published(svc, op) ==
    /\ Touched(cache, cache', svc)
    /\ history' = [history EXCEPT ![svc] = Append(@, GetMerged(cache', svc))]
    /\ Publish(svc, Message(op, svc))

LEMMA ReportCases ==
    ASSUME TypeOK, NEW n \in Slices, NEW es \in EndpointSlice(n) \cup {None}, Report(n, es)
    PROVE  /\ slices' \in [Slices -> Slice \cup {None}]
           /\ panicked' \in {panicked, "nil service"}
           /\ UNCHANGED <<sidecars, stream, server>>
           /\ task = NoTask
           /\ \/ \E svc \in Services, op \in {"ADDED", "MODIFIED"} : Published(svc, op)
              \/ UNCHANGED <<cache, history, task>>
<1>0. slices \in [Slices -> Slice \cup {None}] /\ CacheOK(cache)
  BY DEF TypeOK, Slice
<1>1. es \in Slice \cup {None}
  BY ServerAssumption DEF EndpointSlice, Slice
<1>2. slices' \in [Slices -> Slice \cup {None}]
  BY <1>0, <1>1 DEF Report
<1>3. CASE es # None /\ OnAdded(n, es)
  <2>1. es \in Slice /\ es.svc \in Services
    BY <1>1, <1>3 DEF Slice
  <2>2. Published(es.svc, "ADDED")
    BY <1>0, <1>3, <2>1, AddedTouches DEF OnAdded, Noted, Published
  <2>3. QED
    BY <1>2, <1>3, <2>1, <2>2 DEF Report, OnAdded
<1>4. CASE es # None /\ OnUpdated(n, es)
  <2>1. es \in Slice /\ slices[n] \in Slice /\ slices[n].svc \in Services
    BY <1>0, <1>1, <1>4 DEF Slice, OnUpdated
  <2>2. Touched(cache, cache', slices[n].svc)
    BY <1>0, <1>4, <2>1, UpdatedTouches DEF OnUpdated
  <2>3. Published(slices[n].svc, "MODIFIED")
    BY <1>4, <2>2 DEF OnUpdated, Noted, Published
  <2>4. QED
    BY <1>2, <1>4, <2>1, <2>3 DEF Report, OnUpdated
<1>5. CASE es = None /\ OnDeleted(n)
  <2>1. slices[n] \in Slice /\ slices[n].svc \in Services
    BY <1>0, <1>5 DEF Slice, OnDeleted
  <2>2. CASE slices[n].svc \in DOMAIN cache /\ ~ReadsNil(cache, n, slices[n])
    <3>1. Touched(cache, cache', slices[n].svc)
      BY <1>0, <1>5, <2>1, <2>2, DeletedTouches DEF OnDeleted
    <3>2. Published(slices[n].svc, "MODIFIED")
      BY <1>5, <2>2, <3>1 DEF OnDeleted, Noted, Published
    <3>3. QED
      BY <1>2, <1>5, <2>1, <2>2, <3>2 DEF Report, OnDeleted
  <2>3. CASE ~(slices[n].svc \in DOMAIN cache /\ ~ReadsNil(cache, n, slices[n]))
    BY <1>2, <1>5, <2>3 DEF Report, OnDeleted
  <2>4. QED
    BY <2>2, <2>3
<1>6. QED
  BY <1>3, <1>4, <1>5 DEF Report
-----------------------------------------------------------------------------
(* Channels *)

(* What a client was told of, v, and what it will be told, q, are states   *)
(* of its service in their order.                                          *)
Ordered(q, v, states) ==
    /\ v <= Len(states)
    /\ \A i \in 1 .. Len(q) :
          /\ q[i].version \in 1 .. Len(states)
          /\ q[i].eps = states[q[i].version]
          /\ v <= q[i].version
    /\ \A i, j \in 1 .. Len(q) : i <= j => q[i].version <= q[j].version

LEMMA OfferedType ==
    ASSUME NEW q \in Seq(MessageSet), Len(q) <= Capacity, NEW m \in MessageSet
    PROVE  Offered(q, m) \in Seq(MessageSet) /\ Len(Offered(q, m)) <= Capacity
BY ServerAssumption DEF Offered

LEMMA TailType ==
    ASSUME NEW q \in Seq(MessageSet), q # <<>>
    PROVE  /\ Head(q) \in MessageSet /\ Head(q) = q[1] /\ 1 \in 1 .. Len(q)
           /\ Tail(q) \in Seq(MessageSet) /\ Len(Tail(q)) = Len(q) - 1
           /\ \A i \in 1 .. Len(Tail(q)) : Tail(q)[i] = q[i + 1] /\ i + 1 \in 1 .. Len(q)
<1>1. Len(q) \in Nat \ {0}
  OBVIOUS
<1>2. Head(q) = q[1] /\ q[1] \in MessageSet /\ 1 \in 1 .. Len(q)
  BY <1>1
<1>3. Tail(q) \in Seq(MessageSet) /\ Len(Tail(q)) = Len(q) - 1
  OBVIOUS
<1>4. QED
  BY <1>1, <1>2, <1>3

LEMMA OfferedOrdered ==
    ASSUME NEW q \in Seq(MessageSet), NEW m \in MessageSet, NEW v \in Nat, NEW states,
           Len(states) \in Nat, Ordered(q, v, states),
           m.version = Len(states), m.version \in 1 .. Len(states),
           m.eps = states[m.version]
    PROVE  Ordered(Offered(q, m), v, states)
<1>1. CASE Len(q) < Capacity
  <2> DEFINE r == Append(q, m)
  <2>1. /\ Len(r) = Len(q) + 1 /\ Len(q) \in Nat
        /\ \A i \in 1 .. Len(q) : r[i] = q[i]
        /\ r[Len(q) + 1] = m
    OBVIOUS
  <2> HIDE DEF r
  <2>2. ASSUME NEW i \in 1 .. Len(r)
        PROVE  i \in 1 .. Len(q) \/ i = Len(q) + 1
    BY <2>1
  <2>3. \A i \in 1 .. Len(r) :
           r[i].version \in 1 .. Len(states) /\ r[i].eps = states[r[i].version] /\ v <= r[i].version
    BY <2>1, <2>2 DEF Ordered
  <2>4. ASSUME NEW i \in 1 .. Len(r), NEW j \in 1 .. Len(r), i <= j
        PROVE  r[i].version <= r[j].version
    <3>1. CASE j = Len(q) + 1
      BY <3>1, <2>1, <2>3
    <3>2. CASE j \in 1 .. Len(q)
      <4>1. i \in 1 .. Len(q)
        BY <3>2, <2>1, <2>4
      <4>2. QED
        BY <4>1, <3>2, <2>1, <2>4 DEF Ordered
    <3>3. QED
      BY <2>2, <3>1, <3>2
  <2>5. QED
    BY <1>1, <2>3, <2>4 DEF Ordered, Offered, r
<1>2. CASE ~(Len(q) < Capacity)
  BY <1>2 DEF Offered
<1>3. QED
  BY <1>1, <1>2

LEMMA TailOrdered ==
    ASSUME NEW q \in Seq(MessageSet), q # <<>>, NEW v \in Nat, NEW states,
           Len(states) \in Nat, Ordered(q, v, states)
    PROVE  /\ Ordered(Tail(q), Head(q).version, states)
           /\ Head(q).version \in 1 .. Len(states)
           /\ Head(q).eps = states[Head(q).version]
           /\ v <= Head(q).version
<1> DEFINE r == Tail(q)
<1>1. /\ Head(q) = q[1] /\ 1 \in 1 .. Len(q) /\ Len(q) \in Nat /\ Len(r) \in Nat
      /\ \A i \in 1 .. Len(r) : r[i] = q[i + 1] /\ i + 1 \in 1 .. Len(q) /\ 1 <= i + 1
  BY TailType
<1> HIDE DEF r
<1>2. /\ q[1].version \in 1 .. Len(states) /\ q[1].eps = states[q[1].version]
      /\ v <= q[1].version
  BY <1>1 DEF Ordered
<1>3. ASSUME NEW i \in 1 .. Len(r)
      PROVE  /\ r[i].version \in 1 .. Len(states) /\ r[i].eps = states[r[i].version]
             /\ q[1].version <= r[i].version
  BY <1>1 DEF Ordered
<1>4. ASSUME NEW i \in 1 .. Len(r), NEW j \in 1 .. Len(r), i <= j
      PROVE  r[i].version <= r[j].version
  <2>1. i + 1 <= j + 1
    BY <1>1, <1>4
  <2>2. QED
    BY <1>1, <2>1 DEF Ordered
<1>5. QED
  BY <1>1, <1>2, <1>3, <1>4 DEF Ordered, r

LEMMA GrownOrdered ==
    ASSUME NEW q, NEW v \in Nat, NEW S, NEW states \in Seq(S), NEW e \in S, Len(q) \in Nat,
           Ordered(q, v, states)
    PROVE  Ordered(q, v, Append(states, e))
<1> DEFINE t == Append(states, e)
<1>1. /\ Len(t) = Len(states) + 1 /\ Len(states) \in Nat
      /\ \A i \in 1 .. Len(states) : t[i] = states[i] /\ i \in 1 .. Len(t)
  OBVIOUS
<1> HIDE DEF t
<1>2. v <= Len(t)
  BY <1>1 DEF Ordered
<1>3. \A i \in 1 .. Len(q) :
         q[i].version \in 1 .. Len(t) /\ q[i].eps = t[q[i].version] /\ v <= q[i].version
  BY <1>1 DEF Ordered
<1>4. QED
  BY <1>2, <1>3 DEF Ordered, t
-----------------------------------------------------------------------------
(* Types *)

LEMMA RegisterRange ==
    ASSUME NEW s, Register(s)
    PROVE  Range(sidecars') \subseteq Range(sidecars) \cup {s}
BY DEF Register, Range

LEMMA LeaveRange ==
    ASSUME NEW s, Leave(s)
    PROVE  Range(sidecars') \subseteq Range(sidecars)
BY DEF Leave, Range, Restrict

LEMMA TypeInitial == Init => TypeOK
<1> SUFFICES ASSUME Init
             PROVE  TypeOK
  OBVIOUS
<1>1. <<>> \in Seq(MessageSet) /\ <<>> \in Seq(SUBSET Endpoints) /\ Len(<<>>) <= Capacity
  BY ServerAssumption
<1>2. Nothing \in [version : Nat, eps : SUBSET Endpoints]
  BY DEF Nothing
<1>3. stream \in [Streams -> Subscription] /\ \A s \in Streams : Len(stream[s].chan) <= Capacity
  BY <1>1, <1>2 DEF Init, Subscription
<1>4. CacheOK(cache) /\ Range(sidecars) \subseteq Streams /\ TaskOK
  BY DEF Init, CacheOK, Range, TaskOK
<1>5. QED
  BY <1>1, <1>3, <1>4 DEF Init, TypeOK

LEMMA PublishType ==
    ASSUME TypeOK, NEW svc \in Services, NEW op \in {"ADDED", "MODIFIED"}, Published(svc, op)
    PROVE  /\ CacheOK(cache') /\ TaskOK' /\ history' \in [Services -> Seq(SUBSET Endpoints)]
           /\ history'[svc] = Append(history[svc], GetMerged(cache', svc))
           /\ \A x \in Services \ {svc} : history'[x] = history[x]
           /\ Len(history'[svc]) = Len(history[svc]) + 1
           /\ Len(history[svc]) \in Nat
           /\ history'[svc][Len(history'[svc])] = GetMerged(cache', svc)
           /\ Message(op, svc) \in MessageSet
<1>1. CacheOK(cache') /\ GetMerged(cache', svc) \in SUBSET Endpoints
  BY TouchedOK DEF TypeOK, Published
<1>2. history \in [Services -> Seq(SUBSET Endpoints)] /\ history[svc] \in Seq(SUBSET Endpoints)
  BY DEF TypeOK
<1>3. /\ history' \in [Services -> Seq(SUBSET Endpoints)]
      /\ history'[svc] = Append(history[svc], GetMerged(cache', svc))
      /\ \A x \in Services \ {svc} : history'[x] = history[x]
  BY <1>1, <1>2 DEF Published
<1>4. /\ Len(history'[svc]) = Len(history[svc]) + 1 /\ Len(history[svc]) \in Nat
      /\ history'[svc][Len(history'[svc])] = GetMerged(cache', svc)
  BY <1>1, <1>2, <1>3
<1>5. Message(op, svc) \in MessageSet
  BY <1>1, <1>4 DEF Message, MessageSet
<1>6. TaskOK'
  BY <1>5 DEF Published, Publish, TaskOK
<1>7. QED
  BY <1>1, <1>3, <1>4, <1>5, <1>6

LEMMA SnapshotType ==
    ASSUME TypeOK, NEW svc \in Services
    PROVE  Snapshot(svc) \in MessageSet
<1>1. GetMerged(cache, svc) \in SUBSET Endpoints
  <2>1. Of(cache, svc) \in [DOMAIN Of(cache, svc) -> SUBSET Endpoints]
    BY OfType DEF TypeOK
  <2>2. QED
    BY <2>1 DEF GetMerged, Range
<1>2. Len(history[svc]) \in Nat
  BY DEF TypeOK
<1>3. QED
  BY <1>1, <1>2 DEF Snapshot, MessageSet
-----------------------------------------------------------------------------
(* The inductive invariant.  While the informer's goroutine publishes, no  *)
(* report is taken, so what it holds is the latest state; a stream enters  *)
(* the map of sidecars after its snapshot is in the channel, so what is    *)
(* published comes after it.                                               *)

Early == {"none", "called", "accepted", "listed", "greeted"}

IsLatest(m, svc) ==
    /\ m.version = Len(history[svc]) /\ m.version \in 1 .. Len(history[svc])
    /\ m.eps = history[svc][m.version]

LatestCached ==
    \A svc \in DOMAIN cache :
        /\ Len(history[svc]) > 0
        /\ history[svc][Len(history[svc])] = GetMerged(cache, svc)

TaskLatest ==
    /\ task # NoTask => IsLatest(task.message, task.svc)
    /\ task.at \in {"inform", "sending"} => ServiceOf[task.target] = task.svc

(* While Informer is about to send, nobody closes its channel. *)
SendSafe == task.at = "sending" => ~stream[task.target].closed

StreamInv(s) ==
    /\ Ordered(stream[s].chan, stream[s].told.version, history[ServiceOf[s]])
    /\ Ordered(stream[s].snapshot, stream[s].told.version, history[ServiceOf[s]])
    /\ stream[s].at \in Early => s \notin Range(sidecars) /\ task.target # s
    /\ stream[s].at \in Early \ {"greeted"} => stream[s].chan = <<>>
    /\ stream[s].at # "listed" => stream[s].snapshot = <<>>

Reasons == {"no", "nil service", "nil listFn"}

IInv ==
    /\ TypeOK
    /\ LatestCached
    /\ TaskLatest
    /\ SendSafe
    /\ \A s \in Streams : StreamInv(s)
    /\ panicked \in Reasons

LEMMA InvInitial == Init => IInv
<1> SUFFICES ASSUME Init
             PROVE  IInv
  OBVIOUS
<1>1. \A s \in Streams : StreamInv(s)
  BY ServerAssumption DEF Init, StreamInv, Ordered, Nothing, NoTask, Range
<1>2. LatestCached /\ TaskLatest /\ SendSafe
  BY DEF Init, LatestCached, TaskLatest, SendSafe, NoTask
<1>3. QED
  BY <1>1, <1>2, TypeInitial DEF Init, IInv, Reasons

(* Stream s may become r. *)
GoodChange(s, r) ==
    /\ r \in Subscription
    /\ r.closed = stream[s].closed
    /\ Len(r.chan) <= Capacity
    /\ Ordered(r.chan, r.told.version, history[ServiceOf[s]])
    /\ Ordered(r.snapshot, r.told.version, history[ServiceOf[s]])
    /\ r.at \in Early => stream[s].at \in Early /\ sidecars' = sidecars
    /\ r.at \in Early \ {"greeted"} => r.chan = <<>>
    /\ r.at # "listed" => r.snapshot = <<>>

LEMMA ChangeKeeps ==
    ASSUME IInv, NEW s \in Streams, NEW r, GoodChange(s, r),
           stream' = [stream EXCEPT ![s] = r],
           Range(sidecars') \subseteq Range(sidecars) \cup {s},
           task' \in {task, NoTask}, UNCHANGED <<known, server>>, panicked' \in Reasons
    PROVE  IInv'
<1>0. /\ stream \in [Streams -> Subscription]
      /\ \A t \in Streams : Len(stream[t].chan) <= Capacity
  BY DEF IInv, TypeOK
<1>1. stream'[s] = r /\ \A t \in Streams \ {s} : stream'[t] = stream[t]
  BY <1>0
<1>2. stream' \in [Streams -> Subscription] /\ \A t \in Streams : Len(stream'[t].chan) <= Capacity
  BY <1>0, <1>1 DEF GoodChange
<1>3. Range(sidecars') \subseteq Streams
  BY DEF IInv, TypeOK
<1>4. TypeOK'
  BY <1>2, <1>3 DEF IInv, TypeOK, TaskOK, NoTask, known, server, CacheOK
<1>5. LatestCached'
  BY DEF IInv, LatestCached, known
<1>6. TaskLatest'
  BY DEF IInv, TaskLatest, IsLatest, known, NoTask
<1>7. ASSUME NEW t \in Streams
      PROVE  task'.target = t => task.target = t
  BY ServerAssumption DEF NoTask
<1>11. SendSafe'
  <2>1. CASE task' = NoTask
    BY <2>1 DEF SendSafe, NoTask
  <2>2. CASE task' = task /\ task.at = "sending"
    <3>1. task.target \in Streams /\ ~stream[task.target].closed
      BY <2>2 DEF IInv, TypeOK, TaskOK, NoTask, SendSafe
    <3>2. stream'[task.target].closed = stream[task.target].closed
      BY <1>1, <3>1 DEF GoodChange
    <3>3. QED
      BY <2>2, <3>1, <3>2 DEF SendSafe
  <2>3. QED
    BY <2>1, <2>2 DEF SendSafe
<1>8. StreamInv(s)'
  <2>1. StreamInv(s)
    BY DEF IInv
  <2>2. QED
    BY <1>1, <1>7, <2>1 DEF StreamInv, GoodChange, known
<1>9. ASSUME NEW t \in Streams \ {s}
      PROVE  StreamInv(t)'
  <2>1. StreamInv(t)
    BY DEF IInv
  <2>2. QED
    BY <1>1, <1>7, <2>1 DEF StreamInv, known
<1>10. QED
  BY <1>4, <1>5, <1>6, <1>8, <1>9, <1>11 DEF IInv

(* What is known of a stream before a step. *)
LEMMA StreamFacts ==
    ASSUME IInv, NEW s \in Streams
    PROVE  /\ stream \in [Streams -> Subscription]
           /\ stream[s] \in Subscription /\ Len(stream[s].chan) <= Capacity
           /\ StreamInv(s)
           /\ ServiceOf[s] \in Services /\ history[ServiceOf[s]] \in Seq(SUBSET Endpoints)
           /\ stream[s].told.version \in Nat
           /\ panicked \in Reasons
BY ServerAssumption DEF IInv, TypeOK, Subscription

LEMMA MoveGood ==
    ASSUME IInv, NEW s \in Streams, NEW from, NEW to, Move(s, from, to),
           to \in {"called", "accepted", "receiving", "leaving", "done"},
           from # "listed", to \in {"called", "accepted"} => from \in Early \ {"greeted"} /\ sidecars' = sidecars
    PROVE  \E r : GoodChange(s, r) /\ stream' = [stream EXCEPT ![s] = r]
<1> DEFINE r == [stream[s] EXCEPT !.at = to]
<1>1. stream[s] \in Subscription /\ StreamInv(s) /\ stream[s].at = from
  BY StreamFacts DEF Move
<1>2. /\ r \in Subscription /\ r.at = to /\ r.chan = stream[s].chan
      /\ r.snapshot = stream[s].snapshot /\ r.told = stream[s].told
      /\ r.closed = stream[s].closed
  BY <1>1 DEF Subscription
<1>3. stream' = [stream EXCEPT ![s] = r]
  BY StreamFacts DEF Move
<1> HIDE DEF r
<1>4. GoodChange(s, r)
  BY <1>1, <1>2, StreamFacts DEF GoodChange, StreamInv, Early
<1>5. QED
  BY <1>3, <1>4
-----------------------------------------------------------------------------
(* Steps *)

SameTold == \A t \in Streams : stream'[t].told = stream[t].told

SameClosed == \A t \in Streams : stream'[t].closed = stream[t].closed


LEMMA ReportKeeps ==
    ASSUME IInv, NEW n \in Slices, NEW es \in EndpointSlice(n) \cup {None}, Report(n, es)
    PROVE  IInv'
<1>0. TypeOK /\ LatestCached /\ TaskLatest /\ panicked \in Reasons /\ CacheOK(cache)
  BY DEF IInv, TypeOK
<1>1. /\ slices' \in [Slices -> Slice \cup {None}]
      /\ panicked' \in Reasons
      /\ UNCHANGED <<sidecars, stream, server>>
      /\ task = NoTask
  BY <1>0, ReportCases DEF Reasons
<1>2. CASE UNCHANGED <<cache, history, task>>
  <2>1. TypeOK'
    BY <1>0, <1>1, <1>2 DEF TypeOK, TaskOK, CacheOK, server, Slice
  <2>2. \A s \in Streams : StreamInv(s)'
    BY <1>1, <1>2 DEF IInv, StreamInv
  <2>3. LatestCached' /\ TaskLatest' /\ SendSafe'
    BY <1>0, <1>1, <1>2 DEF LatestCached, TaskLatest, IsLatest, SendSafe, NoTask
  <2>4. QED
    BY <1>1, <2>1, <2>2, <2>3 DEF IInv
<1>3. ASSUME NEW svc \in Services, NEW op \in {"ADDED", "MODIFIED"}, Published(svc, op)
      PROVE  IInv'
  <2>1. /\ CacheOK(cache') /\ TaskOK' /\ history' \in [Services -> Seq(SUBSET Endpoints)]
        /\ history'[svc] = Append(history[svc], GetMerged(cache', svc))
        /\ \A x \in Services \ {svc} : history'[x] = history[x]
        /\ Len(history'[svc]) = Len(history[svc]) + 1
        /\ Len(history[svc]) \in Nat
        /\ history'[svc][Len(history'[svc])] = GetMerged(cache', svc)
    BY <1>0, <1>3, PublishType
  <2>2. /\ GetMerged(cache', svc) \in SUBSET Endpoints
        /\ \A x \in Services \ {svc} :
              GetMerged(cache', x) = GetMerged(cache, x) /\ (x \in DOMAIN cache' <=> x \in DOMAIN cache)
    BY <1>0, <1>3, TouchedOK DEF Published
  <2>3. TypeOK'
    BY <1>0, <1>1, <2>1 DEF TypeOK, server, Slice
  <2>4. LatestCached'
    <3> SUFFICES ASSUME NEW x \in DOMAIN cache'
                 PROVE  /\ Len(history'[x]) > 0
                        /\ history'[x][Len(history'[x])] = GetMerged(cache', x)
      BY DEF LatestCached
    <3>1. x \in Services
      BY <2>1 DEF CacheOK
    <3>2. CASE x = svc
      BY <2>1, <3>2
    <3>3. CASE x # svc
      BY <1>0, <2>1, <2>2, <3>1, <3>3 DEF LatestCached
    <3>4. QED
      BY <3>2, <3>3
  <2>5. TaskLatest' /\ SendSafe'
    BY <1>3, <2>1 DEF Published, Publish, Message, TaskLatest, IsLatest, SendSafe
  <2>6. ASSUME NEW s \in Streams
        PROVE  StreamInv(s)'
    <3> DEFINE st == stream[s]
               before == history[ServiceOf[s]]
    <3>1. /\ st \in Subscription /\ StreamInv(s) /\ ServiceOf[s] \in Services
          /\ before \in Seq(SUBSET Endpoints) /\ st.told.version \in Nat
      BY StreamFacts
    <3>2. Len(st.chan) \in Nat /\ Len(st.snapshot) \in Nat
      BY <3>1 DEF Subscription
    <3>3. Ordered(st.chan, st.told.version, before) /\ Ordered(st.snapshot, st.told.version, before)
      BY <3>1 DEF StreamInv
    <3> DEFINE after == Append(before, GetMerged(cache', svc))
    <3>4. Ordered(st.chan, st.told.version, after) /\ Ordered(st.snapshot, st.told.version, after)
      BY <2>2, <3>1, <3>2, <3>3, GrownOrdered
    <3>5. history'[ServiceOf[s]] \in {before, after}
      BY <2>1, <3>1
    <3>6. task'.target # s
      BY <1>3, ServerAssumption DEF Published, Publish
    <3>7. stream' = stream /\ sidecars' = sidecars
      BY <1>1
    <3> HIDE DEF before, after
    <3>8. QED
      BY <3>1, <3>3, <3>4, <3>5, <3>6, <3>7 DEF StreamInv
  <2>7. QED
    BY <1>1, <2>3, <2>4, <2>5, <2>6 DEF IInv
<1>4. QED
  BY <1>0, <1>2, <1>3, ReportCases

LEMMA ListFnKeeps ==
    ASSUME IInv, NEW s \in Streams, ListFn(s)
    PROVE  IInv' /\ SameTold /\ SameClosed
<1>1. /\ stream[s] \in Subscription /\ Len(stream[s].chan) <= Capacity /\ StreamInv(s)
      /\ stream \in [Streams -> Subscription] /\ ServiceOf[s] \in Services
      /\ stream[s].told.version \in Nat /\ history[ServiceOf[s]] \in Seq(SUBSET Endpoints)
      /\ panicked \in Reasons
  BY StreamFacts
<1>2. CASE ListFnSet
  <2> DEFINE snap == IF ServiceOf[s] \in DOMAIN cache THEN <<Snapshot(ServiceOf[s])>> ELSE <<>>
             r == [stream[s] EXCEPT !.at = "listed", !.snapshot = snap]
  <2>1. snap \in Seq(MessageSet)
    BY <1>1, SnapshotType DEF IInv
  <2>2. Ordered(snap, stream[s].told.version, history[ServiceOf[s]])
    <3>1. stream[s].told.version <= Len(history[ServiceOf[s]])
      BY <1>1 DEF StreamInv, Ordered
    <3>2. CASE ServiceOf[s] \in DOMAIN cache
      <4>1. IsLatest(Snapshot(ServiceOf[s]), ServiceOf[s])
        BY <1>1, <3>2 DEF IInv, LatestCached, IsLatest, Snapshot
      <4>2. snap = <<Snapshot(ServiceOf[s])>>
        BY <3>2
      <4>3. Len(snap) = 1 /\ snap[1] = Snapshot(ServiceOf[s])
        BY <4>2
      <4> HIDE DEF snap
      <4>4. \A i \in 1 .. Len(snap) : i = 1
        BY <4>3
      <4>5. QED
        BY <1>1, <3>1, <4>1, <4>3, <4>4 DEF Ordered, IsLatest
    <3>3. CASE ServiceOf[s] \notin DOMAIN cache
      BY <3>1, <3>3 DEF Ordered
    <3>4. QED
      BY <3>2, <3>3
  <2> HIDE DEF snap
  <2>3. /\ r \in Subscription /\ r.at = "listed" /\ r.chan = stream[s].chan
        /\ r.snapshot = snap /\ r.told = stream[s].told /\ r.closed = stream[s].closed
    BY <1>1, <2>1 DEF Subscription
  <2>4. stream' = [stream EXCEPT ![s] = r]
    BY <1>1, <1>2 DEF ListFn, snap
  <2> HIDE DEF r
  <2>5. stream[s].at = "accepted"
    BY DEF ListFn
  <2>6. GoodChange(s, r)
    BY <1>1, <2>2, <2>3, <2>5 DEF GoodChange, StreamInv, Early, ListFn
  <2>7. SameTold /\ SameClosed
    BY <1>1, <2>3, <2>4 DEF SameTold, SameClosed
  <2>8. QED
    BY <1>1, <1>2, <2>4, <2>6, <2>7, ChangeKeeps DEF ListFn
<1>3. CASE ~ListFnSet
  <2>1. UNCHANGED <<known, task, sidecars, server, stream>> /\ panicked' \in Reasons
    BY <1>3 DEF ListFn, Reasons
  <2>2. \A t \in Streams : StreamInv(t)'
    BY <2>1 DEF IInv, StreamInv, known
  <2>3. TypeOK'
    BY <2>1 DEF IInv, TypeOK, TaskOK, CacheOK, known, server
  <2>4. QED
    BY <2>1, <2>2, <2>3 DEF SameTold, SameClosed, IInv, LatestCached, TaskLatest, IsLatest, known,
                                 SendSafe
<1>4. QED
  BY <1>2, <1>3

LEMMA GreetKeeps ==
    ASSUME IInv, NEW s \in Streams, Greet(s)
    PROVE  IInv' /\ SameTold /\ SameClosed
<1>1. /\ stream[s] \in Subscription /\ Len(stream[s].chan) <= Capacity /\ StreamInv(s)
      /\ stream \in [Streams -> Subscription] /\ stream[s].told.version \in Nat
      /\ stream[s].at = "listed" /\ panicked \in Reasons
  BY StreamFacts DEF Greet
<1>2. stream[s].chan = <<>> /\ stream[s].snapshot \in Seq(MessageSet)
  BY <1>1 DEF StreamInv, Early, Subscription
<1> DEFINE told == stream[s].told.version
           states == history[ServiceOf[s]]
           snap == stream[s].snapshot
           q == IF snap = <<>> THEN stream[s].chan ELSE Offered(stream[s].chan, Head(snap))
           r == [stream[s] EXCEPT !.at = "greeted", !.snapshot = <<>>, !.chan = q]
<1>3. Ordered(snap, told, states) /\ Ordered(stream[s].chan, told, states)
  BY <1>1 DEF StreamInv
<1>4. q \in Seq(MessageSet) /\ Len(q) <= Capacity /\ Ordered(q, told, states)
  <2>1. CASE snap = <<>>
    BY <1>1, <1>3, <2>1 DEF Subscription
  <2>2. CASE snap # <<>>
    <3>1. Head(snap) \in MessageSet /\ Head(snap) = snap[1] /\ 1 \in 1 .. Len(snap)
      BY <1>2, <2>2, TailType
    <3>2. q = <<Head(snap)>>
      BY <1>2, <2>2, ServerAssumption DEF Offered
    <3> HIDE DEF q, snap
    <3>3. q \in Seq(MessageSet) /\ Len(q) = 1 /\ q[1] = snap[1]
      <4>1. ASSUME NEW m \in MessageSet
            PROVE  <<m>> \in Seq(MessageSet) /\ Len(<<m>>) = 1 /\ <<m>>[1] = m
        OBVIOUS
      <4>2. QED
        BY <3>1, <3>2, <4>1
    <3>4. \A i \in 1 .. Len(q) : i = 1
      BY <3>3
    <3>5. Ordered(q, told, states)
      <4>1. snap[1].version <= snap[1].version
        BY <3>1 DEF MessageSet
      <4>2. QED
        BY <1>3, <3>1, <3>3, <3>4, <4>1 DEF Ordered
    <3>6. QED
      BY <3>3, <3>5, ServerAssumption
  <2>3. QED
    BY <2>1, <2>2
<1>5. Ordered(<<>>, told, states) /\ <<>> \in Seq(MessageSet)
  BY <1>3 DEF Ordered
<1>6. stream' = [stream EXCEPT ![s] = r]
  BY <1>1 DEF Greet
<1> HIDE DEF q, states
<1>7. /\ r \in Subscription /\ r.at = "greeted" /\ r.chan = q
      /\ r.snapshot = <<>> /\ r.told = stream[s].told /\ r.closed = stream[s].closed
  BY <1>1, <1>4, <1>5 DEF Subscription
<1> HIDE DEF r
<1>8. GoodChange(s, r)
  BY <1>1, <1>4, <1>5, <1>7 DEF GoodChange, Early, Greet, states
<1>9. SameTold /\ SameClosed
  BY <1>1, <1>6, <1>7 DEF SameTold, SameClosed
<1>10. QED
  BY <1>1, <1>6, <1>8, <1>9, ChangeKeeps DEF Greet

LEMMA SendKeeps ==
    ASSUME IInv, NEW s \in Streams, Send(s)
    PROVE  /\ IInv' /\ SameClosed
           /\ \/ stream'[s].told = stream[s].told
              \/ /\ stream'[s].told.version \in DOMAIN history[ServiceOf[s]]
                 /\ stream[s].told.version <= stream'[s].told.version
                 /\ stream'[s].told = [version |-> stream'[s].told.version,
                                       eps |-> history[ServiceOf[s]][stream'[s].told.version]]
           /\ \A t \in Streams \ {s} : stream'[t].told = stream[t].told
<1> DEFINE q == stream[s].chan
           states == history[ServiceOf[s]]
<1>1. /\ stream[s] \in Subscription /\ Len(q) <= Capacity /\ StreamInv(s)
      /\ stream \in [Streams -> Subscription] /\ stream[s].told.version \in Nat
      /\ states \in Seq(SUBSET Endpoints) /\ stream[s].at = "receiving"
      /\ panicked \in Reasons
  BY StreamFacts DEF Send
<1>2. q \in Seq(MessageSet) /\ q # <<>> /\ Len(states) \in Nat /\ DOMAIN states = 1 .. Len(states)
  BY <1>1 DEF Subscription, Send
<1>3. UNCHANGED <<known, task, sidecars, server, panicked>>
  BY DEF Send
<1>4. CASE stream[s].broken
  <2> DEFINE r == [stream[s] EXCEPT !.at = "leaving"]
  <2>1. stream' = [stream EXCEPT ![s] = r]
    BY <1>1, <1>4 DEF Send
  <2>2. /\ r \in Subscription /\ r.at = "leaving" /\ r.chan = q
        /\ r.snapshot = stream[s].snapshot /\ r.told = stream[s].told
        /\ r.closed = stream[s].closed
    BY <1>1 DEF Subscription
  <2> HIDE DEF r
  <2>3. GoodChange(s, r)
    BY <1>1, <2>2 DEF GoodChange, Early, StreamInv
  <2>4. /\ stream'[s].told = stream[s].told
        /\ \A t \in Streams \ {s} : stream'[t].told = stream[t].told
        /\ SameClosed
    BY <1>1, <2>1, <2>2 DEF SameClosed
  <2>5. IInv'
    BY <1>1, <1>3, <2>1, <2>3, ChangeKeeps
  <2>6. QED
    BY <2>4, <2>5
<1>5. CASE ~stream[s].broken
  <2> DEFINE r == [stream[s] EXCEPT !.chan = Tail(q), !.told = ToldOf(Head(q))]
  <2>1. stream' = [stream EXCEPT ![s] = r]
    BY <1>1, <1>5 DEF Send
  <2>2. /\ Head(q) \in MessageSet /\ Tail(q) \in Seq(MessageSet) /\ Len(Tail(q)) <= Capacity
    <3> HIDE DEF q
    <3>1. /\ Head(q) \in MessageSet /\ Tail(q) \in Seq(MessageSet) /\ Len(Tail(q)) = Len(q) - 1
          /\ Len(q) \in Nat
      BY <1>2, TailType
    <3>2. QED
      BY <1>1, <3>1, ServerAssumption
  <2>3. /\ Ordered(Tail(q), Head(q).version, states)
        /\ Head(q).version \in 1 .. Len(states)
        /\ Head(q).eps = states[Head(q).version]
        /\ stream[s].told.version <= Head(q).version
    <3>1. Ordered(q, stream[s].told.version, states)
      BY <1>1 DEF StreamInv
    <3> HIDE DEF q, states
    <3>2. QED
      BY <1>1, <1>2, <3>1, TailOrdered
  <2>4. ToldOf(Head(q)) \in [version : Nat, eps : SUBSET Endpoints]
        /\ ToldOf(Head(q)).version = Head(q).version /\ ToldOf(Head(q)).eps = Head(q).eps
    BY <2>2 DEF ToldOf, MessageSet
  <2>5. /\ r \in Subscription /\ r.at = "receiving" /\ r.chan = Tail(q)
        /\ r.snapshot = stream[s].snapshot /\ r.told = ToldOf(Head(q))
        /\ r.closed = stream[s].closed
    BY <1>1, <2>2, <2>4 DEF Subscription
  <2>6. Ordered(<<>>, Head(q).version, states) /\ stream[s].snapshot = <<>>
    <3>1. stream[s].snapshot = <<>>
      BY <1>1 DEF StreamInv
    <3> HIDE DEF q, states
    <3>2. Head(q).version <= Len(states)
      BY <2>3 DEF Ordered
    <3>3. Len(<<>>) = 0
      OBVIOUS
    <3>4. Ordered(<<>>, Head(q).version, states)
      BY <3>2, <3>3 DEF Ordered
    <3>5. QED
      BY <3>1, <3>4
  <2> HIDE DEF r, q, states
  <2>7. GoodChange(s, r)
    BY <2>2, <2>3, <2>4, <2>5, <2>6 DEF GoodChange, Early, states
  <2>8. /\ stream'[s].told = ToldOf(Head(q))
        /\ \A t \in Streams \ {s} : stream'[t].told = stream[t].told
        /\ SameClosed
    BY <1>1, <2>1, <2>5 DEF SameClosed
  <2>9. ToldOf(Head(q)) = [version |-> Head(q).version, eps |-> states[Head(q).version]]
    BY <2>3 DEF ToldOf
  <2>10. IInv'
    BY <1>1, <1>3, <2>1, <2>7, ChangeKeeps
  <2>11. QED
    BY <1>2, <2>3, <2>4, <2>8, <2>9, <2>10 DEF states
<1>6. QED
  BY <1>4, <1>5
LEMMA CallStepsKeep ==
    ASSUME IInv, NEW s \in Streams,
           Call(s) \/ Check(s) \/ Enter(s) \/ EndOfChannel(s) \/ Leave(s) \/ Disconnect(s)
    PROVE  IInv' /\ SameTold /\ SameClosed
<1>0. stream \in [Streams -> Subscription] /\ stream[s] \in Subscription /\ panicked \in Reasons
      /\ Len(stream[s].chan) <= Capacity /\ StreamInv(s)
  BY StreamFacts
<1>1. ASSUME NEW r, GoodChange(s, r), stream' = [stream EXCEPT ![s] = r],
             r.told = stream[s].told, r.closed = stream[s].closed,
             Range(sidecars') \subseteq Range(sidecars) \cup {s},
             UNCHANGED <<known, task, server, panicked>>
      PROVE  IInv' /\ SameTold /\ SameClosed
  BY <1>0, <1>1, ChangeKeeps DEF SameTold, SameClosed
<1>2. ASSUME NEW from, NEW to, Move(s, from, to), from # "listed",
             to \in {"called", "accepted", "receiving", "leaving", "done"},
             to \in {"called", "accepted"} => from \in Early \ {"greeted"} /\ sidecars' = sidecars,
             Range(sidecars') \subseteq Range(sidecars) \cup {s},
             UNCHANGED <<known, task, server, panicked>>
      PROVE  IInv' /\ SameTold /\ SameClosed
  <2>1. PICK r : GoodChange(s, r) /\ stream' = [stream EXCEPT ![s] = r]
    BY <1>2, MoveGood
  <2>2. /\ stream'[s].told = stream[s].told /\ stream'[s].closed = stream[s].closed
        /\ stream'[s] = r
    BY <1>0, <1>2, <2>1 DEF Move, Subscription
  <2>3. QED
    BY <1>1, <1>2, <2>1, <2>2
<1>3. CASE Call(s)
  BY <1>2, <1>3 DEF Call, Early
<1>4. CASE Check(s)
  <2>1. \E to \in {"accepted", "done"} : Move(s, "called", to)
    BY <1>4 DEF Check
  <2>2. QED
    BY <1>2, <1>4, <2>1 DEF Check, Early
<1>5. CASE Enter(s)
  <2>1. \E to \in {"receiving", "done"} : Move(s, "greeted", to)
    BY <1>5 DEF Enter
  <2>2. Range(sidecars') \subseteq Range(sidecars) \cup {s}
    BY <1>5, RegisterRange DEF Enter
  <2>3. QED
    BY <1>2, <1>5, <2>1, <2>2 DEF Enter
<1>6. CASE EndOfChannel(s)
  BY <1>2, <1>6 DEF EndOfChannel
<1>7. CASE Leave(s)
  <2>1. Range(sidecars') \subseteq Range(sidecars)
    BY <1>7, LeaveRange
  <2>2. QED
    BY <1>2, <1>7, <2>1 DEF Leave
<1>8. CASE Disconnect(s)
  <2> DEFINE r == [stream[s] EXCEPT !.broken = TRUE]
  <2>1. stream' = [stream EXCEPT ![s] = r]
    BY <1>0, <1>8 DEF Disconnect
  <2>2. /\ r \in Subscription /\ r.at = stream[s].at /\ r.chan = stream[s].chan
        /\ r.snapshot = stream[s].snapshot /\ r.told = stream[s].told
        /\ r.closed = stream[s].closed
    BY <1>0 DEF Subscription
  <2> HIDE DEF r
  <2>3. GoodChange(s, r)
    BY <1>0, <1>8, <2>2 DEF GoodChange, StreamInv, Disconnect
  <2>4. QED
    BY <1>1, <1>8, <2>1, <2>2, <2>3 DEF Disconnect
<1>9. QED
  BY <1>3, <1>4, <1>5, <1>6, <1>7, <1>8

LEMMA InformerKeeps ==
    ASSUME IInv, InformerStep
    PROVE  IInv' /\ SameTold /\ SameClosed
<1>0. TypeOK /\ TaskOK /\ TaskLatest /\ panicked \in Reasons
  BY DEF IInv, TypeOK
<1>1. CASE GetSidecar
  <2>0. SameTold /\ SameClosed
    BY <1>1 DEF GetSidecar, SameTold, SameClosed
  <2>1. ASSUME task' = NoTask
        PROVE  IInv'
    <3>1. TypeOK' /\ LatestCached' /\ TaskLatest' /\ SendSafe'
      BY <1>1, <2>1 DEF IInv, TypeOK, TaskOK, CacheOK, LatestCached, TaskLatest, NoTask, IsLatest,
                        GetSidecar, known, server, SendSafe
    <3>2. \A t \in Streams : StreamInv(t)'
      BY <1>1, <2>1, ServerAssumption DEF IInv, StreamInv, GetSidecar, NoTask, known
    <3>3. QED
      BY <1>0, <1>1, <3>1, <3>2 DEF IInv, GetSidecar
  <2>2. ASSUME NEW s \in Range(sidecars), ServiceOf[s] = task.svc,
               task' = [task EXCEPT !.at = "inform", !.target = s]
        PROVE  IInv'
    <3>0. task.at = "publish" /\ s \in Streams
      BY <1>0, <1>1 DEF TypeOK, GetSidecar
    <3>1. task \in [at : {"publish"}, svc : Services, message : MessageSet, target : {None}]
      BY <1>0, <3>0 DEF TaskOK, NoTask
    <3>2. task' \in [at : {"inform"}, svc : Services, message : MessageSet, target : Streams]
          /\ task'.message = task.message /\ task'.svc = task.svc /\ task'.target = s
          /\ task # NoTask
      <4>1. task = [at |-> "publish", svc |-> task.svc, message |-> task.message, target |-> None]
            /\ task.svc \in Services /\ task.message \in MessageSet
        BY <3>1
      <4>2. task' = [at |-> "inform", svc |-> task.svc, message |-> task.message, target |-> s]
        BY <2>2, <4>1
      <4>3. QED
        BY <3>0, <4>1, <4>2 DEF NoTask
    <3>3. TypeOK'
      BY <1>0, <1>1, <3>2 DEF TypeOK, TaskOK, CacheOK, GetSidecar, known, server
    <3>4. LatestCached' /\ TaskLatest' /\ SendSafe'
      BY <1>1, <2>2, <3>2 DEF IInv, LatestCached, TaskLatest, IsLatest, GetSidecar, known, SendSafe
    <3>5. \A t \in Streams : StreamInv(t)'
      BY <1>1, <2>2, <3>2 DEF IInv, StreamInv, GetSidecar, known
    <3>6. QED
      BY <1>0, <1>1, <3>3, <3>4, <3>5 DEF IInv, GetSidecar
  <2>3. QED
    BY <1>1, <2>0, <2>1, <2>2 DEF GetSidecar
<1>2. CASE Informer
  <2>0. SameTold /\ SameClosed
    BY <1>2 DEF Informer, SameTold, SameClosed
  <2>1. UNCHANGED <<known, sidecars, stream, server, panicked>>
    BY <1>2 DEF Informer
  <2>2. task \in [at : {"inform"}, svc : Services, message : MessageSet, target : Streams]
        /\ task # NoTask
    BY <1>0, <1>2 DEF TaskOK, Informer, NoTask
  <2>3. CASE task' = NoTask
    <3>1. TypeOK' /\ LatestCached' /\ TaskLatest' /\ SendSafe'
      BY <2>1, <2>3 DEF IInv, TypeOK, TaskOK, CacheOK, LatestCached, TaskLatest, NoTask, IsLatest,
                        known, server, SendSafe
    <3>2. \A t \in Streams : StreamInv(t)'
      BY <2>1, <2>3, ServerAssumption DEF IInv, StreamInv, NoTask, known
    <3>3. QED
      BY <1>0, <2>0, <2>1, <3>1, <3>2 DEF IInv
  <2>4. CASE task' = [task EXCEPT !.at = "sending"] /\ ~stream[task.target].closed
    <3>1. task' \in [at : {"sending"}, svc : Services, message : MessageSet, target : Streams]
          /\ task'.message = task.message /\ task'.svc = task.svc /\ task'.target = task.target
      BY <2>2, <2>4
    <3>2. TypeOK'
      BY <1>0, <2>1, <3>1 DEF TypeOK, TaskOK, CacheOK, known, server
    <3>3. LatestCached' /\ TaskLatest' /\ SendSafe'
      BY <2>1, <2>2, <2>4, <3>1 DEF IInv, LatestCached, TaskLatest, IsLatest, known, SendSafe
    <3>4. \A t \in Streams : StreamInv(t)'
      BY <2>1, <3>1 DEF IInv, StreamInv, known
    <3>5. QED
      BY <1>0, <2>0, <2>1, <3>2, <3>3, <3>4 DEF IInv
  <2>5. QED
    BY <1>2, <2>3, <2>4 DEF Informer
<1>3. CASE Offer
  <2> DEFINE s == task.target
             m == task.message
  <2>1. s \in Streams /\ m \in MessageSet /\ ServiceOf[s] = task.svc /\ IsLatest(m, task.svc)
    <3>0. task.at = "sending"
      BY <1>3 DEF Offer
    <3>1. task.at = "sending" /\ task # NoTask
      BY <3>0 DEF NoTask
    <3>2. task \in [at : {"inform", "sending"}, svc : Services, message : MessageSet, target : Streams]
      BY <1>0, <3>1 DEF TaskOK
    <3>3. QED
      BY <1>0, <3>1, <3>2 DEF TaskLatest
  <2>2. /\ stream \in [Streams -> Subscription] /\ stream[s] \in Subscription
        /\ Len(stream[s].chan) <= Capacity /\ StreamInv(s)
        /\ history[ServiceOf[s]] \in Seq(SUBSET Endpoints) /\ stream[s].told.version \in Nat
    BY <2>1, StreamFacts
  <2>3. stream[s].at \notin Early /\ ~stream[s].closed
    BY <1>3, <2>2 DEF StreamInv, IInv, SendSafe, Offer
  <2> DEFINE chan == Offered(stream[s].chan, m)
             r == [stream[s] EXCEPT !.chan = chan]
  <2>4. chan \in Seq(MessageSet) /\ Len(chan) <= Capacity
    BY <2>1, <2>2, OfferedType DEF Subscription
  <2>5. Ordered(chan, stream[s].told.version, history[ServiceOf[s]])
    <3>1. /\ stream[s].chan \in Seq(MessageSet) /\ Len(history[ServiceOf[s]]) \in Nat
          /\ Ordered(stream[s].chan, stream[s].told.version, history[ServiceOf[s]])
      BY <2>2 DEF StreamInv, Subscription
    <3>2. QED
      BY <2>1, <2>2, <3>1, OfferedOrdered DEF IsLatest
  <2>6. stream' = [stream EXCEPT ![s] = r] /\ UNCHANGED <<known, server, sidecars, panicked>>
        /\ task' = NoTask
    BY <1>3, <2>2, <2>3 DEF Offer
  <2> HIDE DEF chan, s, m
  <2>7. /\ r \in Subscription /\ r.at = stream[s].at /\ r.chan = chan
        /\ r.snapshot = stream[s].snapshot /\ r.told = stream[s].told
        /\ r.closed = stream[s].closed
    BY <2>2, <2>4 DEF Subscription
  <2> HIDE DEF r
  <2>8. GoodChange(s, r)
    BY <2>2, <2>3, <2>4, <2>5, <2>7 DEF GoodChange, StreamInv, Early
  <2>9. SameTold /\ SameClosed
    BY <2>1, <2>2, <2>6, <2>7 DEF SameTold, SameClosed
  <2>10. QED
    BY <1>0, <2>1, <2>6, <2>8, <2>9, ChangeKeeps
<1>4. QED
  BY <1>1, <1>2, <1>3 DEF InformerStep

LEMMA ServerKeeps ==
    ASSUME IInv, MainStep \/ StopperStep \/ Cancel
    PROVE  IInv' /\ SameTold
<1>0. stream \in [Streams -> Subscription]
  BY DEF IInv, TypeOK
<1>1. /\ UNCHANGED <<known, task, sidecars, panicked>>
      /\ ready' \in BOOLEAN /\ cancelled' \in BOOLEAN
      /\ main' \in {"listening", "ready", "serving", "returned"}
      /\ stopper' \in {"waiting", "closing", "closed", "stopping"}
  BY DEF IInv, TypeOK, MainStep, StopperStep, StoreReady, Serve, Return, StopTaking,
         CloseReceivers, GracefulStop, Cancel, known
<1>2. /\ stream' \in [Streams -> Subscription]
      /\ \A t \in Streams :
            /\ stream'[t].at = stream[t].at /\ stream'[t].chan = stream[t].chan
            /\ stream'[t].snapshot = stream[t].snapshot /\ stream'[t].told = stream[t].told
  <2>1. CASE stream' = stream
    BY <1>0, <2>1
  <2>2. CASE CloseReceivers
    <3>1. ASSUME NEW t \in Streams
          PROVE  LET r == [stream[t] EXCEPT !.closed = TRUE]
                 IN  /\ r \in Subscription /\ r.at = stream[t].at /\ r.chan = stream[t].chan
                     /\ r.snapshot = stream[t].snapshot /\ r.told = stream[t].told
      BY <1>0 DEF Subscription
    <3>2. \A t \in Streams : stream'[t] \in {stream[t], [stream[t] EXCEPT !.closed = TRUE]}
      BY <2>2 DEF CloseReceivers, Closed
    <3>3. stream' = [t \in Streams |-> stream'[t]]
      BY <2>2 DEF CloseReceivers, Closed
    <3>4. QED
      BY <1>0, <3>1, <3>2, <3>3
  <2>3. QED
    BY <2>1, <2>2 DEF MainStep, StopperStep, StoreReady, Serve, Return, StopTaking, GracefulStop,
                      Cancel
<1>7. SendSafe'
  <2>1. CASE stream' = stream
    BY <1>1, <2>1 DEF IInv, SendSafe
  <2>2. CASE CloseReceivers /\ task.at = "sending"
    <3>1. task.target \in Streams \ Range(sidecars) /\ ~stream[task.target].closed
      BY <2>2 DEF IInv, TypeOK, TaskOK, NoTask, SendSafe, CloseReceivers, Sending
    <3>2. QED
      BY <1>1, <2>2, <3>1 DEF CloseReceivers, Closed, SendSafe
  <2>3. QED
    BY <1>1, <2>1, <2>2 DEF MainStep, StopperStep, StoreReady, Serve, Return, StopTaking,
                            GracefulStop, Cancel, SendSafe
<1>3. TypeOK'
  BY <1>1, <1>2 DEF IInv, TypeOK, TaskOK, CacheOK, known
<1>4. LatestCached' /\ TaskLatest'
  BY <1>1 DEF IInv, LatestCached, TaskLatest, IsLatest, known
<1>5. \A t \in Streams : StreamInv(t)'
  BY <1>1, <1>2 DEF IInv, StreamInv, known
<1>6. QED
  BY <1>1, <1>2, <1>3, <1>4, <1>5, <1>7 DEF IInv, SameTold

LEMMA InvStep == IInv /\ [Next]_vars => IInv'
<1> SUFFICES ASSUME IInv, [Next]_vars
             PROVE  IInv'
  OBVIOUS
<1>1. CASE UNCHANGED vars
  BY <1>1 DEF vars, IInv, TypeOK, TaskOK, CacheOK, LatestCached, TaskLatest, IsLatest, SendSafe,
                   StreamInv
<1>2. CASE Next
  BY <1>2, ReportKeeps, CallStepsKeep, ListFnKeeps, GreetKeeps, SendKeeps, InformerKeeps, ServerKeeps
     DEF Next, Step, SubscribeStep
<1>3. QED
  BY <1>1, <1>2

LEMMA Invariance == Spec => []IInv
BY InvInitial, InvStep, PTL DEF Spec
-----------------------------------------------------------------------------
(* The theorems *)

(* Every variable has its type; in particular no channel holds more than   *)
(* its capacity (channelCapacity, sidecar.go).                             *)
THEOREM TypeCorrect == Spec => []TypeOK
<1>1. IInv => TypeOK
  BY DEF IInv
<1>2. QED
  BY <1>1, Invariance, PTL

(* A publication that found its sidecar, or its channel open, before the   *)
(* shutdown closed the channels does not send on a closed one              *)
(* (Sidecar.Informer and Close under informerMtx).                         *)
THEOREM ClosedIsSafe == Spec => []NoSendOnClosed
<1>1. IInv => NoSendOnClosed
  BY DEF IInv, Reasons, NoSendOnClosed
<1>2. QED
  BY <1>1, Invariance, PTL

(* Each step is a step of the promise, or none. *)
LEMMA StepRefines ==
    ASSUME IInv, [Next]_vars
    PROVE  [Promise!Next]_(Promise!vars)
<1>0. /\ stream \in [Streams -> Subscription] /\ Told = [s \in Streams |-> stream[s].told]
      /\ TypeOK
  BY DEF IInv, TypeOK, Told
<1>1. ASSUME history' = history, SameTold
      PROVE  UNCHANGED Promise!vars
  BY <1>1 DEF Promise!vars, Told, SameTold
<1>2. ASSUME NEW n \in Slices, NEW es \in EndpointSlice(n) \cup {None}, Report(n, es)
      PROVE  [Promise!Next]_(Promise!vars)
  <2>1. Told' = Told
    BY <1>0, <1>2, ReportCases DEF Told
  <2>2. ASSUME NEW svc \in Services, NEW op \in {"ADDED", "MODIFIED"}, Published(svc, op)
        PROVE  Promise!Next
    <3>1. GetMerged(cache', svc) \in SUBSET Endpoints
      BY <1>0, <2>2, TouchedOK DEF TypeOK, Published
    <3>2. Promise!Change(svc, GetMerged(cache', svc))
      BY <2>1, <2>2 DEF Promise!Change, Published
    <3>3. QED
      BY <3>1, <3>2 DEF Promise!Next
  <2>3. QED
    BY <1>0, <1>2, <2>1, <2>2, ReportCases DEF Promise!vars
<1>3. ASSUME NEW s \in Streams, Send(s)
      PROVE  [Promise!Next]_(Promise!vars)
  <2>1. /\ history' = history
        /\ \/ stream'[s].told = stream[s].told
           \/ /\ stream'[s].told.version \in DOMAIN history[ServiceOf[s]]
              /\ stream[s].told.version <= stream'[s].told.version
              /\ stream'[s].told = [version |-> stream'[s].told.version,
                                    eps |-> history[ServiceOf[s]][stream'[s].told.version]]
        /\ \A t \in Streams \ {s} : stream'[t].told = stream[t].told
    BY <1>3, SendKeeps, Zenon DEF Send, known
  <2>2. CASE stream'[s].told = stream[s].told
    BY <1>1, <2>1, <2>2 DEF SameTold
  <2>3. CASE stream'[s].told # stream[s].told
    <3> DEFINE v == stream'[s].told.version
    <3>1. v \in DOMAIN history[ServiceOf[s]] /\ v >= Told[s].version
      <4>1. /\ v \in DOMAIN history[ServiceOf[s]] /\ stream[s].told.version <= v
            /\ Told[s].version = stream[s].told.version
        BY <2>1, <2>3 DEF Told
      <4>2. stream[s].told.version \in Nat /\ v \in Nat
        BY <4>1, StreamFacts
      <4>3. QED
        BY <4>1, <4>2
    <3>2. Told' = [Told EXCEPT ![s] = [version |-> v, eps |-> history[ServiceOf[s]][v]]]
      BY <2>1, <2>3 DEF Told
    <3> HIDE DEF v
    <3>3. Promise!Tell(s)
      BY <2>1, <3>1, <3>2 DEF Promise!Tell
    <3>4. QED
      BY <3>3 DEF Promise!Next
  <2>4. QED
    BY <2>2, <2>3, Zenon
<1>4. ASSUME NEW s \in Streams, ListFn(s) \/ Greet(s)
      PROVE  UNCHANGED Promise!vars
  <2>1. SameTold
    BY <1>4, ListFnKeeps, GreetKeeps
  <2>2. history' = history
    BY <1>4 DEF ListFn, Greet, known
  <2>3. QED
    BY <1>1, <2>1, <2>2
<1>5. ASSUME NEW s \in Streams,
             Call(s) \/ Check(s) \/ Enter(s) \/ EndOfChannel(s) \/ Leave(s) \/ Disconnect(s)
      PROVE  UNCHANGED Promise!vars
  <2>1. history' = history
    BY <1>5 DEF Call, Check, Enter, EndOfChannel, Leave, Disconnect, known
  <2>2. QED
    BY <1>1, <1>5, <2>1, CallStepsKeep
<1>6. ASSUME InformerStep \/ MainStep \/ StopperStep \/ Cancel
      PROVE  UNCHANGED Promise!vars
  <2>1. history' = history
    BY <1>6 DEF InformerStep, GetSidecar, Informer, Offer, MainStep, StopperStep, StoreReady, Serve,
                Return, StopTaking, CloseReceivers, GracefulStop, Cancel, known
  <2>2. QED
    BY <1>1, <1>6, <2>1, InformerKeeps, ServerKeeps
<1>7. CASE UNCHANGED vars
  BY <1>7 DEF vars, Promise!vars, Told
<1>8. QED
  BY <1>2, <1>3, <1>4, <1>5, <1>6, <1>7 DEF Next, Step, SubscribeStep

(* What a client is told are states its service went through, in that      *)
(* order, for any number of subscriptions, with any ids, of any services   *)
(* (Subscribe, GetSidecar, Publish).                                       *)
THEOREM DistributionRefined == Spec => ImplementsDistribution
<1>1. Init => Promise!Init
  BY DEF Init, Promise!Init, Told, Nothing, Promise!Nothing
<1>2. IInv /\ [Next]_vars => [Promise!Next]_(Promise!vars)
  BY StepRefines
<1>3. QED
  BY <1>1, <1>2, Invariance, PTL DEF Spec, ImplementsDistribution, Promise!Spec

ToldForwards == \A s \in Streams : Told[s].version <= Told'[s].version

NeverToldBackwards == [][ToldForwards]_vars

(* What is promised implies, for a client, that no later message is of an  *)
(* older state than one before, whether it comes from the snapshot of      *)
(* Subscribe or from Publish.                                              *)
THEOREM NoneToldBackwards == Spec => NeverToldBackwards
<1>1. IInv /\ [Next]_vars => ToldForwards
  <2> SUFFICES ASSUME IInv, [Next]_vars, NEW s \in Streams
               PROVE  Told[s].version <= Told'[s].version
    BY DEF ToldForwards
  <2>1. Told \in [Streams -> [version : Nat, eps : SUBSET Endpoints]]
    BY DEF IInv, TypeOK, Told, Subscription
  <2>2. Told[s].version \in Nat
    BY <2>1
  <2>3. [Promise!Next]_(Promise!vars)
    BY StepRefines
  <2>4. CASE Told' = Told
    BY <2>2, <2>4
  <2>5. ASSUME NEW c \in Streams, Promise!Tell(c)
        PROVE  Told[s].version <= Told'[s].version
    <3>1. PICK v \in DOMAIN history[ServiceOf[c]] :
             /\ v >= Told[c].version
             /\ Told' = [Told EXCEPT ![c] = [version |-> v, eps |-> history[ServiceOf[c]][v]]]
      BY <2>5 DEF Promise!Tell
    <3>2. CASE s = c
      BY <2>1, <3>1, <3>2
    <3>3. CASE s # c
      BY <2>1, <2>2, <3>1, <3>3
    <3>4. QED
      BY <3>2, <3>3
  <2>6. QED
    BY <2>3, <2>4, <2>5 DEF Promise!Next, Promise!Change, Promise!vars
<1>2. QED
  BY <1>1, Invariance, PTL DEF Spec, NeverToldBackwards

(* What holds in addition where no cancel comes during the start. *)
LateInv ==
    /\ cancelled => main \in {"serving", "returned"}
    /\ stopper # "waiting" => cancelled /\ ~ready
    /\ NoLateSidecar

LEMMA LateStep ==
    ASSUME EarlyCancel = FALSE, IInv, LateInv, [Next]_vars
    PROVE  LateInv'
<1>0. /\ stream \in [Streams -> Subscription] /\ Range(sidecars) \subseteq Streams
      /\ main \in {"listening", "ready", "serving", "returned"}
      /\ stopper \in {"waiting", "closing", "closed", "stopping"}
  BY DEF IInv, TypeOK
<1>1. ASSUME UNCHANGED server, Range(sidecars') \subseteq Range(sidecars),
             SameClosed
      PROVE  LateInv'
  BY <1>0, <1>1 DEF LateInv, NoLateSidecar, AllClosed, server, SameClosed
<1>2. ASSUME NEW n \in Slices, NEW es \in EndpointSlice(n) \cup {None}, Report(n, es)
      PROVE  LateInv'
  BY <1>1, <1>2 DEF Report, SameClosed
<1>3. ASSUME NEW s \in Streams,
             Call(s) \/ Check(s) \/ ListFn(s) \/ Greet(s) \/ Send(s) \/ EndOfChannel(s) \/ Disconnect(s)
      PROVE  LateInv'
  <2>1. UNCHANGED <<server, sidecars>>
    BY <1>3 DEF Call, Check, ListFn, Greet, Send, EndOfChannel, Disconnect
  <2>2. SameClosed
    BY <1>3, CallStepsKeep, ListFnKeeps, GreetKeeps, SendKeeps
  <2>3. QED
    BY <1>1, <2>1, <2>2
<1>4. ASSUME NEW s \in Streams, Leave(s)
      PROVE  LateInv'
  <2>1. UNCHANGED server /\ SameClosed
    BY <1>4, CallStepsKeep DEF Leave
  <2>2. QED
    BY <1>1, <1>4, <2>1, LeaveRange
<1>5. ASSUME NEW s \in Streams, Enter(s)
      PROVE  LateInv'
  <2>1. UNCHANGED server /\ SameClosed
    BY <1>5, CallStepsKeep DEF Enter
  <2>2. CASE ready
    BY <2>1, <2>2 DEF LateInv, NoLateSidecar, AllClosed, server
  <2>3. CASE ~ready
    BY <1>1, <1>5, <2>1, <2>3 DEF Enter
  <2>4. QED
    BY <2>2, <2>3
<1>6. CASE InformerStep
  <2>1. UNCHANGED <<server, sidecars>>
    BY <1>6 DEF InformerStep, GetSidecar, Informer, Offer
  <2>2. SameClosed
    BY <1>6, InformerKeeps
  <2>3. QED
    BY <1>1, <2>1, <2>2
<1>7. CASE MainStep \/ StopTaking \/ GracefulStop \/ Cancel
  BY <1>0, <1>7 DEF MainStep, StoreReady, Serve, Return, StopTaking, GracefulStop, Cancel, MayCancel,
                    LateInv, NoLateSidecar, AllClosed
<1>8. CASE CloseReceivers
  <2>1. \A s \in Range(sidecars) : s \in Streams /\ stream[s] \in Subscription
    BY <1>0
  <2>2. \A s \in Range(sidecars') : stream'[s].closed
    BY <1>8, <2>1 DEF CloseReceivers, Closed, Subscription
  <2>3. QED
    BY <1>8, <2>2 DEF CloseReceivers, LateInv, NoLateSidecar
<1>9. CASE UNCHANGED vars
  BY <1>9 DEF vars, LateInv, NoLateSidecar, AllClosed
<1>10. QED
  BY <1>2, <1>3, <1>4, <1>5, <1>6, <1>7, <1>8, <1>9 DEF Next, Step, SubscribeStep, StopperStep

(* No sidecar gets into the map after the receivers were closed (Subscribe *)
(* looks at ready again under the lock), if the context is not cancelled   *)
(* while the server starts.                                                *)
THEOREM NoneRegistersLate ==
    ASSUME EarlyCancel = FALSE
    PROVE  Spec => []NoLateSidecar
<1>1. Init => LateInv
  BY DEF Init, LateInv, NoLateSidecar, AllClosed
<1>2. IInv /\ LateInv /\ [Next]_vars => LateInv'
  BY LateStep
<1>3. LateInv => NoLateSidecar
  BY DEF LateInv
<1>4. QED
  BY <1>1, <1>2, <1>3, Invariance, PTL DEF Spec

-----------------------------------------------------------------------------
(* The end of the calls, where the sidecars have ids of their own: what    *)
(* StopCompletes needs besides the fairness of the goroutines.             *)

OwnIds == \A s, t \in Streams : IdOf[s] = IdOf[t] => s = t

(* Who is sent to is in the map. *)
SeatInv ==
    \A s \in Streams : stream[s].at = "receiving" =>
        IdOf[s] \in DOMAIN sidecars /\ sidecars[IdOf[s]] = s

(* When the server stops it waits for no call that was not told to end:    *)
(* the channel of every sidecar that is still sent to was closed, also of  *)
(* one that subscribed while the receivers were being closed.              *)
StopReachesEveryone ==
    AllClosed => \A s \in Streams : stream[s].at = "receiving" => stream[s].closed

StopInv == LateInv /\ SeatInv /\ StopReachesEveryone

(* What each step of a call does to it; it touches no other. *)
Goes(s, from, to) == stream[s].at = from /\ stream'[s].at = to

LEMMA CallEffects ==
    ASSUME stream \in [Streams -> Subscription], NEW s \in Streams
    PROVE  /\ Call(s) \/ SubscribeStep(s) \/ Disconnect(s) =>
                 \A t \in Streams \ {s} : stream'[t] = stream[t]
           /\ Call(s) => Goes(s, "none", "called")
           /\ Check(s) => Goes(s, "called", "accepted") \/ Goes(s, "called", "done")
           /\ ListFn(s) => \/ Goes(s, "accepted", "listed")
                           \/ panicked' = "nil listFn" /\ stream' = stream
           /\ Greet(s) => Goes(s, "listed", "greeted")
           /\ Enter(s) => \/ ready /\ Goes(s, "greeted", "receiving")
                          \/ ~ready /\ Goes(s, "greeted", "done")
           /\ Send(s) => \/ Goes(s, "receiving", "leaving")
                         \/ /\ Goes(s, "receiving", "receiving")
                            /\ stream[s].chan # <<>> /\ stream'[s].chan = Tail(stream[s].chan)
           /\ EndOfChannel(s) => Goes(s, "receiving", "leaving")
           /\ Leave(s) => Goes(s, "leaving", "done")
           /\ Disconnect(s) => stream'[s].at = stream[s].at /\ stream'[s].chan = stream[s].chan
<1> DEFINE old == stream[s]
<1>1. old \in Subscription
  OBVIOUS
<1>2. ASSUME NEW r, stream' = [stream EXCEPT ![s] = r]
      PROVE  stream'[s] = r /\ \A t \in Streams \ {s} : stream'[t] = stream[t]
  BY <1>2
<1>3. ASSUME NEW from, NEW to, Move(s, from, to)
      PROVE  Goes(s, from, to) /\ \A t \in Streams \ {s} : stream'[t] = stream[t]
  <2> DEFINE r == [old EXCEPT !.at = to]
  <2>1. stream' = [stream EXCEPT ![s] = r] /\ old.at = from
    BY <1>3 DEF Move
  <2>2. r.at = to
    BY <1>1 DEF Subscription
  <2> HIDE DEF r
  <2>3. QED
    BY <1>2, <2>1, <2>2 DEF Goes
<1> DEFINE Others == \A t \in Streams \ {s} : stream'[t] = stream[t]
<1>4. /\ Call(s) => Goes(s, "none", "called") /\ Others
      /\ Check(s) => (Goes(s, "called", "accepted") \/ Goes(s, "called", "done")) /\ Others
      /\ EndOfChannel(s) => Goes(s, "receiving", "leaving") /\ Others
      /\ Leave(s) => Goes(s, "leaving", "done") /\ Others
  BY <1>3 DEF Call, Check, EndOfChannel, Leave
<1>5. Enter(s) => \/ ready /\ Goes(s, "greeted", "receiving") /\ Others
                  \/ ~ready /\ Goes(s, "greeted", "done") /\ Others
  BY <1>3 DEF Enter
<1>6. ASSUME ListFn(s)
      PROVE  /\ Others
             /\ \/ Goes(s, "accepted", "listed")
                \/ panicked' = "nil listFn" /\ stream' = stream
  <2> DEFINE r(snap) == [old EXCEPT !.at = "listed", !.snapshot = snap]
  <2>1. \/ stream' = stream /\ panicked' = "nil listFn"
        \/ \E snap : stream' = [stream EXCEPT ![s] = r(snap)] /\ old.at = "accepted"
    BY <1>6 DEF ListFn
  <2>2. \A snap : r(snap).at = "listed"
    BY <1>1 DEF Subscription
  <2> HIDE DEF r
  <2>3. QED
    BY <1>2, <2>1, <2>2 DEF Goes
<1>7. ASSUME Greet(s)
      PROVE  Others /\ Goes(s, "listed", "greeted")
  <2> DEFINE r(c) == [old EXCEPT !.at = "greeted", !.snapshot = <<>>, !.chan = c]
  <2>1. (\E c : stream' = [stream EXCEPT ![s] = r(c)]) /\ old.at = "listed"
    BY <1>7 DEF Greet
  <2>2. \A c : r(c).at = "greeted"
    BY <1>1 DEF Subscription
  <2> HIDE DEF r
  <2>3. QED
    BY <1>2, <1>7, <2>1, <2>2 DEF Goes
<1>8. ASSUME Send(s)
      PROVE  /\ Others
             /\ \/ Goes(s, "receiving", "leaving")
                \/ /\ Goes(s, "receiving", "receiving")
                   /\ stream[s].chan # <<>> /\ stream'[s].chan = Tail(stream[s].chan)
  <2> DEFINE ends == [old EXCEPT !.at = "leaving"]
             sent == [old EXCEPT !.chan = Tail(old.chan), !.told = ToldOf(Head(old.chan))]
  <2>1. /\ old.at = "receiving" /\ old.chan # <<>>
        /\ stream' = [stream EXCEPT ![s] = ends] \/ stream' = [stream EXCEPT ![s] = sent]
    BY <1>8 DEF Send
  <2>2. ends.at = "leaving" /\ sent.at = old.at /\ sent.chan = Tail(old.chan)
    BY <1>1 DEF Subscription
  <2> HIDE DEF ends, sent
  <2>3. QED
    BY <1>2, <1>8, <2>1, <2>2 DEF Goes
<1>9. ASSUME Disconnect(s)
      PROVE  Others /\ stream'[s].at = stream[s].at /\ stream'[s].chan = stream[s].chan
  <2> DEFINE r == [old EXCEPT !.broken = TRUE]
  <2>1. stream' = [stream EXCEPT ![s] = r]
    BY <1>9 DEF Disconnect
  <2>2. r.at = old.at /\ r.chan = old.chan
    BY <1>1 DEF Subscription
  <2> HIDE DEF r
  <2>3. QED
    BY <1>2, <1>9, <2>1, <2>2
<1>10. Call(s) \/ SubscribeStep(s) \/ Disconnect(s) => Others
  BY <1>4, <1>5, <1>6, <1>7, <1>8, <1>9 DEF SubscribeStep
<1>11. QED
  BY <1>4, <1>5, <1>6, <1>7, <1>8, <1>9, <1>10

(* Only Enter makes a sidecar one that is sent to, ... *)
LEMMA CallMoves ==
    ASSUME stream \in [Streams -> Subscription], NEW s \in Streams,
           Call(s) \/ Check(s) \/ ListFn(s) \/ Greet(s) \/ Send(s) \/ EndOfChannel(s) \/ Disconnect(s)
    PROVE  \A t \in Streams : stream'[t].at = "receiving" => stream[t].at = "receiving"
<1>1. Call(s) \/ SubscribeStep(s) \/ Disconnect(s)
  BY DEF SubscribeStep
<1>2. \A t \in Streams \ {s} : stream'[t] = stream[t]
  BY <1>1, CallEffects
<1>3. stream'[s].at = "receiving" => stream[s].at = "receiving"
  BY CallEffects DEF Goes
<1>4. QED
  BY <1>2, <1>3

(* ... the informer moves none.                                            *)
LEMMA InformMoves ==
    ASSUME stream \in [Streams -> Subscription], InformerStep
    PROVE  \A t \in Streams : stream'[t].at = stream[t].at
<1> DEFINE s == task.target
           r == [stream[s] EXCEPT !.chan = Offered(@, task.message)]
<1>1. stream' = stream \/ stream' = [stream EXCEPT ![s] = r]
  BY DEF InformerStep, GetSidecar, Informer, Offer
<1>2. s \in Streams => r.at = stream[s].at
  BY DEF Subscription
<1> HIDE DEF s, r
<1>3. QED
  BY <1>1, <1>2

LEMMA StopStep ==
    ASSUME EarlyCancel = FALSE, OwnIds, IInv, StopInv, [Next]_vars
    PROVE  StopInv'
<1>0. /\ stream \in [Streams -> Subscription] /\ LateInv'
      /\ stopper \in {"waiting", "closing", "closed", "stopping"}
  BY LateStep DEF StopInv, IInv, TypeOK
<1>1. ASSUME UNCHANGED sidecars, SameClosed, AllClosed' = AllClosed,
             \A s \in Streams : stream'[s].at = "receiving" => stream[s].at = "receiving"
      PROVE  StopInv'
  BY <1>0, <1>1 DEF StopInv, SeatInv, StopReachesEveryone, SameClosed
<1>2. ASSUME NEW n \in Slices, NEW es \in EndpointSlice(n) \cup {None}, Report(n, es)
      PROVE  StopInv'
  BY <1>1, <1>2 DEF Report, server, SameClosed, AllClosed
<1>3. ASSUME NEW s \in Streams,
             Call(s) \/ Check(s) \/ ListFn(s) \/ Greet(s) \/ Send(s) \/ EndOfChannel(s) \/ Disconnect(s)
      PROVE  StopInv'
  <2>1. UNCHANGED <<sidecars, stopper>> /\ AllClosed' = AllClosed
    BY <1>3 DEF Call, Check, ListFn, Greet, Send, EndOfChannel, Disconnect, server, AllClosed
  <2>2. SameClosed
    BY <1>3, CallStepsKeep, ListFnKeeps, GreetKeeps, SendKeeps DEF StopInv
  <2>3. \A t \in Streams : stream'[t].at = "receiving" => stream[t].at = "receiving"
    BY <1>0, <1>3, CallMoves
  <2>4. QED
    BY <1>1, <2>1, <2>2, <2>3
<1>4. ASSUME NEW s \in Streams, Enter(s)
      PROVE  StopInv'
  <2>1. SameClosed /\ UNCHANGED <<ready, stopper>> /\ AllClosed' = AllClosed
    BY <1>4, CallStepsKeep DEF Enter, server, AllClosed
  <2>2. CASE ~ready
    <3>1. \A t \in Streams : stream'[t].at = "receiving" => stream[t].at = "receiving"
      BY <1>0, <1>4, <2>2 DEF Enter, Move, Subscription
    <3>2. QED
      BY <1>1, <1>4, <2>1, <2>2, <3>1 DEF Enter
  <2>3. CASE ready
    <3>1. stopper = "waiting"
      BY <2>3 DEF StopInv, LateInv
    <3>2. /\ sidecars' = [i \in DOMAIN sidecars \cup {IdOf[s]} |->
                            IF i = IdOf[s] THEN s ELSE sidecars[i]]
          /\ \A t \in Streams : stream'[t].at = "receiving" => t = s \/ stream[t].at = "receiving"
      BY <1>0, <1>4, <2>3 DEF Enter, Move, Register
    <3>3. SeatInv'
      BY <3>2 DEF OwnIds, StopInv, SeatInv
    <3>4. QED
      BY <1>0, <2>1, <3>1, <3>3 DEF StopInv, StopReachesEveryone, AllClosed
  <2>4. QED
    BY <2>2, <2>3
<1>5. ASSUME NEW s \in Streams, Leave(s)
      PROVE  StopInv'
  <2>1. SameClosed /\ AllClosed' = AllClosed
    BY <1>5, CallStepsKeep DEF Leave, server, AllClosed
  <2>2. /\ \A t \in Streams : stream'[t].at = "receiving" => t # s /\ stream[t].at = "receiving"
        /\ \A i \in DOMAIN sidecars : i # IdOf[s] => i \in DOMAIN sidecars' /\ sidecars'[i] = sidecars[i]
    BY <1>0, <1>5 DEF Leave, Move, Restrict
  <2>3. SeatInv'
    BY <2>2 DEF OwnIds, StopInv, SeatInv
  <2>4. QED
    BY <1>0, <2>1, <2>2, <2>3 DEF StopInv, StopReachesEveryone, SameClosed
<1>6. CASE InformerStep
  <2>1. UNCHANGED sidecars /\ AllClosed' = AllClosed /\ SameClosed
    BY <1>6, InformerKeeps DEF InformerStep, GetSidecar, Informer, Offer, server, AllClosed
  <2>2. \A t \in Streams : stream'[t].at = stream[t].at
    BY <1>0, <1>6, InformMoves
  <2>3. QED
    BY <1>1, <2>1, <2>2
<1>7. CASE MainStep \/ StopTaking \/ GracefulStop \/ Cancel
  BY <1>1, <1>7 DEF MainStep, StoreReady, Serve, Return, StopTaking, GracefulStop, Cancel, SameClosed,
                    AllClosed
<1>8. CASE CloseReceivers
  <2>1. \A s \in Streams : /\ stream'[s].at = stream[s].at
                           /\ s \in Range(sidecars) => stream'[s].closed
    BY <1>0, <1>8 DEF CloseReceivers, Closed, Subscription
  <2>2. SeatInv' /\ UNCHANGED sidecars
    BY <1>8, <2>1 DEF CloseReceivers, StopInv, SeatInv
  <2>3. \A s \in Streams : stream[s].at = "receiving" => s \in Range(sidecars)
    BY DEF StopInv, SeatInv, Range
  <2>4. QED
    BY <1>0, <2>1, <2>2, <2>3 DEF StopInv, StopReachesEveryone
<1>9. CASE UNCHANGED vars
  BY <1>1, <1>9 DEF vars, SameClosed, AllClosed
<1>10. QED
  BY <1>2, <1>3, <1>4, <1>5, <1>6, <1>7, <1>8, <1>9 DEF Next, Step, SubscribeStep, StopperStep

LEMMA StopInitial == Init => StopInv
BY DEF Init, StopInv, LateInv, NoLateSidecar, AllClosed, SeatInv, StopReachesEveryone

LEMMA StopInvariance ==
    ASSUME EarlyCancel = FALSE, OwnIds
    PROVE  Spec => []StopInv
<1>1. IInv /\ StopInv /\ [Next]_vars => StopInv'
  BY StopStep
<1>2. QED
  BY <1>1, StopInitial, Invariance, PTL DEF Spec

(* GracefulStop waits for no call that was not told to end: closing the    *)
(* receivers and the second look at ready leave no gap between them, for   *)
(* any number of sidecars with ids of their own.                           *)
THEOREM EveryoneReached ==
    ASSUME EarlyCancel = FALSE, OwnIds
    PROVE  Spec => []StopReachesEveryone
<1>1. StopInv => StopReachesEveryone
  BY DEF StopInv
<1>2. QED
  BY <1>1, StopInvariance, PTL

Rank == [none |-> 0, called |-> 6, accepted |-> 5, listed |-> 4, greeted |-> 3,
         leaving |-> 1, done |-> 0]

(* How many steps a call has still to take when the server stops. *)
StepsLeft(s) ==
    IF stream[s].at = "receiving" THEN 2 + Len(stream[s].chan) ELSE Rank[stream[s].at]

LEMMA StepCounts ==
    ASSUME IInv, ~ready, NEW s \in Streams, SubscribeStep(s), panicked' = "no"
    PROVE  StepsLeft(s)' < StepsLeft(s)
<1>1. stream \in [Streams -> Subscription] /\ stream[s].chan \in Seq(MessageSet)
  BY StreamFacts DEF Subscription
<1>2. Len(stream[s].chan) \in Nat
  BY <1>1, LenProperties
<1>3. CASE Send(s)
  <2>1. CASE Goes(s, "receiving", "leaving")
    BY <1>2, <2>1 DEF Goes, StepsLeft, Rank
  <2>2. CASE /\ Goes(s, "receiving", "receiving")
             /\ stream[s].chan # <<>> /\ stream'[s].chan = Tail(stream[s].chan)
    <3>1. Len(stream'[s].chan) = Len(stream[s].chan) - 1
      BY <1>1, <2>2, HeadTailProperties
    <3>2. QED
      BY <1>2, <2>2, <3>1 DEF Goes, StepsLeft
  <2>3. QED
    BY <1>1, <1>3, <2>1, <2>2, CallEffects
<1>4. CASE Check(s) \/ ListFn(s) \/ Greet(s)
  BY <1>1, <1>4, CallEffects DEF Goes, StepsLeft, Rank
<1>5. CASE Enter(s)
  BY <1>1, <1>5, CallEffects DEF Goes, StepsLeft, Rank
<1>6. CASE EndOfChannel(s) \/ Leave(s)
  BY <1>1, <1>2, <1>6, CallEffects DEF Goes, StepsLeft, Rank
<1>7. QED
  BY <1>3, <1>4, <1>5, <1>6 DEF SubscribeStep

LEMMA StopProceeds ==
    ASSUME EarlyCancel = FALSE, IInv, StopInv, [Next]_vars, stopper = "stopping",
           NEW s \in Streams
    PROVE  StepsLeft(s)' <= StepsLeft(s)
<1>1. stream \in [Streams -> Subscription] /\ stream[s].chan \in Seq(MessageSet) /\ ~ready
  BY StreamFacts DEF Subscription, StopInv, LateInv
<1>2. StepsLeft(s) \in Nat
  <2>1. Len(stream[s].chan) \in Nat
    BY <1>1, LenProperties
  <2>2. stream[s].at \in {"none", "called", "accepted", "listed", "greeted", "receiving", "leaving", "done"}
    BY <1>1 DEF Subscription
  <2>3. QED
    BY <2>1, <2>2 DEF StepsLeft, Rank
<1>3. ASSUME stream'[s].at = stream[s].at,
             stream[s].at = "receiving" => stream'[s].chan = stream[s].chan
      PROVE  StepsLeft(s)' <= StepsLeft(s)
  <2>1. StepsLeft(s)' = StepsLeft(s)
    BY <1>3 DEF StepsLeft
  <2>2. QED
    BY <1>2, <2>1
<1>4. ASSUME NEW t \in Streams, SubscribeStep(t)
      PROVE  StepsLeft(s)' <= StepsLeft(s)
  <2>1. CASE t # s
    BY <1>1, <1>3, <1>4, <2>1, CallEffects
  <2>2. CASE t = s /\ panicked' = "no"
    <3>1. StepsLeft(s)' < StepsLeft(s)
      BY <1>1, <1>4, <2>2, StepCounts
    <3>2. StepsLeft(s)' \in Int
      <4>1. IInv'
        BY InvStep
      <4>2. stream'[s] \in Subscription
        BY <4>1 DEF IInv, TypeOK
      <4>3. /\ Len(stream'[s].chan) \in Nat
            /\ stream'[s].at \in {"none", "called", "accepted", "listed", "greeted", "receiving",
                                  "leaving", "done"}
        BY <4>2, LenProperties DEF Subscription
      <4>4. QED
        BY <4>3 DEF StepsLeft, Rank
    <3>3. QED
      BY <1>2, <3>1, <3>2
  <2>3. CASE t = s /\ panicked' # "no"
    <3>1. panicked = "no" \/ UNCHANGED vars
      BY DEF Next
    <3>2. UNCHANGED stream
      <4>1. CASE ListFn(s)
        BY <2>3, <3>1, <4>1 DEF ListFn, vars
      <4>2. CASE ~ListFn(s)
        BY <1>4, <2>3, <3>1, <4>2
           DEF SubscribeStep, Check, Greet, Enter, Send, EndOfChannel, Leave, vars
      <4>3. QED
        BY <4>1, <4>2
    <3>3. QED
      BY <1>3, <3>2
  <2>4. QED
    BY <2>1, <2>2, <2>3
<1>5. ASSUME NEW t \in Streams, Disconnect(t)
      PROVE  StepsLeft(s)' <= StepsLeft(s)
  BY <1>1, <1>3, <1>5, CallEffects
<1>6. CASE InformerStep
  <2>1. stream'[s].at = stream[s].at
    BY <1>1, <1>6, InformMoves
  <2>2. ASSUME stream[s].at = "receiving"
        PROVE  stream'[s] = stream[s]
    <3>1. stream[s].closed
      BY <2>2 DEF StopInv, StopReachesEveryone, AllClosed
    <3>2. task.at = "sending" => task.target # s
      BY <3>1 DEF IInv, SendSafe
    <3>3. QED
      BY <1>1, <1>6, <3>2 DEF InformerStep, GetSidecar, Informer, Offer
  <2>3. QED
    BY <1>3, <2>1, <2>2
<1>7. ASSUME NEW n \in Slices, NEW es, Report(n, es)
      PROVE  StepsLeft(s)' <= StepsLeft(s)
  BY <1>3, <1>7 DEF Report
<1>8. CASE MainStep \/ StopperStep \/ Cancel
  BY <1>3, <1>8 DEF MainStep, StopperStep, StoreReady, Serve, Return, StopTaking, CloseReceivers,
                    GracefulStop, Cancel
<1>9. CASE UNCHANGED vars
  BY <1>3, <1>9 DEF vars
<1>10. ASSUME NEW t \in Streams
       PROVE  ~Call(t)
  BY DEF Call
<1>11. QED
  BY <1>4, <1>5, <1>6, <1>7, <1>8, <1>9, <1>10 DEF Next, Step

(* Once the server stops, nothing that happens prolongs a call under way,  *)
(* and each step of the call itself brings it nearer to its end: messages  *)
(* that are still published, clients that go away and the other calls      *)
(* included.                                                               *)
THEOREM CallsRunOut ==
    ASSUME EarlyCancel = FALSE, OwnIds
    PROVE  Spec => [][stopper = "stopping" =>
                        \A s \in Streams :
                           /\ StepsLeft(s)' <= StepsLeft(s)
                           /\ SubscribeStep(s) /\ panicked' = "no" =>
                                 StepsLeft(s)' < StepsLeft(s)]_vars
<1> DEFINE RunOut == stopper = "stopping" =>
                        \A s \in Streams :
                           /\ StepsLeft(s)' <= StepsLeft(s)
                           /\ SubscribeStep(s) /\ panicked' = "no" =>
                                 StepsLeft(s)' < StepsLeft(s)
<1>1. ASSUME IInv, StopInv, [Next]_vars, stopper = "stopping", NEW s \in Streams
      PROVE  /\ StepsLeft(s)' <= StepsLeft(s)
             /\ SubscribeStep(s) /\ panicked' = "no" => StepsLeft(s)' < StepsLeft(s)
  <2>1. ~ready
    BY <1>1 DEF StopInv, LateInv
  <2>2. QED
    BY <1>1, <2>1, StepCounts, StopProceeds
<1>2. IInv /\ StopInv /\ [Next]_vars => [RunOut]_vars
  BY <1>1
<1>3. QED
  BY <1>2, Invariance, StopInvariance, PTL DEF Spec

(* A call that has steps left can take one: it waits for nobody. *)
MayStep(s) ==
    \/ stream[s].at \in {"called", "accepted", "listed"}
    \/ stream[s].at \in {"greeted", "leaving"} /\ MtxFree
    \/ stream[s].at = "receiving" /\ (stream[s].chan # <<>> \/ stream[s].closed)

(* While the server stops no call waits: each that is not over has a       *)
(* message to send, a closed channel to leave, or need not look at its     *)
(* channel.                                                                *)
THEOREM NoCallWaits ==
    ASSUME EarlyCancel = FALSE, OwnIds
    PROVE  Spec => [](stopper = "stopping" =>
                        \A s \in Streams : StepsLeft(s) > 0 => MayStep(s))
<1>1. IInv /\ StopInv =>
         (stopper = "stopping" => \A s \in Streams : StepsLeft(s) > 0 => MayStep(s))
  <2> SUFFICES ASSUME IInv, StopInv, stopper = "stopping", NEW s \in Streams, StepsLeft(s) > 0
               PROVE  MayStep(s)
    OBVIOUS
  <2>1. stream[s].at \in {"none", "called", "accepted", "listed", "greeted", "receiving", "leaving", "done"}
    BY StreamFacts DEF Subscription
  <2>2. stream[s].at # "none" /\ stream[s].at # "done"
    BY DEF StepsLeft, Rank
  <2>3. QED
    BY <2>1, <2>2 DEF MayStep, MtxFree, AllClosed, StopInv, StopReachesEveryone
<1>2. QED
  BY <1>1, Invariance, StopInvariance, PTL

(* The merged slice of a service is made of all the slices that name it,   *)
(* whatever the order in which they came, changed and went.                *)
MergedIsWhole ==
    \A svc \in Services :
        panicked = "no" =>
            GetMerged(cache, svc) =
                UNION {slices[n].eps : n \in {m \in Slices : slices[m] # None /\ slices[m].svc = svc}}

(* The cache holds the slices that name a service, for every service.      *)
Named(svc) ==
    [n \in {m \in Slices : slices[m] # None /\ slices[m].svc = svc} |-> slices[n].eps]

WholeInv ==
    /\ \A n \in Slices : slices[n] # None => slices[n].svc \in LabelsOf[n]
    /\ panicked = "no" => \A svc \in Services : Of(cache, svc) = Named(svc)

LEMMA OfPut ==
    ASSUME NEW c, NEW svc, NEW m, NEW x
    PROVE  Of(Put(c, svc, m), x) = IF x = svc THEN m ELSE Of(c, x)
BY DEF Of, Put

LEMMA WholeReport ==
    ASSUME \A n \in Slices : \A x, y \in LabelsOf[n] : x = y,
           IInv, WholeInv, panicked = "no",
           NEW n \in Slices, NEW es \in EndpointSlice(n) \cup {None}, Report(n, es)
    PROVE  WholeInv'
<1>0. slices \in [Slices -> Slice \cup {None}] /\ es \in Slice \cup {None}
  BY ServerAssumption DEF IInv, TypeOK, EndpointSlice, Slice
<1>1. slices' = [slices EXCEPT ![n] = es] /\ slices'[n] = es
      /\ \A m \in Slices \ {n} : slices'[m] = slices[m]
  BY <1>0 DEF Report
<1>2. \A m \in Slices : slices'[m] # None => slices'[m].svc \in LabelsOf[m]
  BY <1>1 DEF WholeInv, EndpointSlice
<1>3. \A svc \in Services : Of(cache, svc) = Named(svc)
  BY DEF WholeInv
<1>4. ASSUME NEW svc \in Services, NEW f, \A x \in Services : Of(cache', x) = IF x = svc THEN f ELSE Of(cache, x),
             f = Named(svc)',
             es # None => es.svc = svc, slices[n] # None => slices[n].svc = svc
      PROVE  WholeInv'
  <2>1. ASSUME NEW x \in Services
        PROVE  Of(cache', x) = Named(x)'
    <3>1. CASE x = svc
      BY <1>4, <3>1
    <3>2. CASE x # svc
      <4>1. Named(x)' = Named(x)
        BY <1>1, <1>4, <3>2 DEF Named
      <4>2. QED
        BY <1>3, <1>4, <3>2, <4>1
    <3>3. QED
      BY <3>1, <3>2
  <2>2. QED
    BY <1>2, <2>1 DEF WholeInv
<1>5. CASE es # None
  <2> DEFINE svc == es.svc
             old == Of(cache, svc)
             f == [m \in DOMAIN old \cup {n} |-> IF m = n THEN es.eps ELSE old[m]]
  <2>1. svc \in Services /\ (slices[n] # None => slices[n].svc = svc)
    <3>1. es \in EndpointSlice(n) /\ es.svc \in LabelsOf[n]
      BY <1>5 DEF EndpointSlice
    <3>2. QED
      BY <1>5, <3>1, ServerAssumption DEF WholeInv
  <2>2. cache' = SliceAdded(cache, n, es)
    <3>1. CASE OnAdded(n, es)
      BY <3>1 DEF OnAdded
    <3>2. CASE OnUpdated(n, es)
      BY <2>1, <3>2 DEF OnUpdated, SliceUpdated
    <3>3. QED
      BY <1>5, <3>1, <3>2 DEF Report
  <2>3. cache' = Put(cache, svc, f)
    BY <2>2 DEF SliceAdded
  <2>4. \A x \in Services : Of(cache', x) = IF x = svc THEN f ELSE Of(cache, x)
    <3> HIDE DEF f
    <3>1. QED
      BY <2>3, OfPut
  <2>5. f = Named(svc)'
    <3> DEFINE D == {m \in Slices : slices'[m] # None /\ slices'[m].svc = svc}
    <3>1. old = Named(svc) /\ DOMAIN old = {m \in Slices : slices[m] # None /\ slices[m].svc = svc}
          /\ \A m \in DOMAIN old : old[m] = slices[m].eps
      BY <1>3, <2>1 DEF Named
    <3> HIDE DEF old
    <3>2. D = DOMAIN old \cup {n}
      BY <1>1, <1>5, <2>1, <3>1
    <3>3. \A m \in D : (IF m = n THEN es.eps ELSE old[m]) = slices'[m].eps
      BY <1>1, <3>1, <3>2
    <3>4. f = [m \in D |-> slices'[m].eps]
      BY <3>2, <3>3
    <3>5. QED
      BY <3>4 DEF Named
  <2> HIDE DEF f
  <2>6. QED
    BY <1>4, <2>1, <2>4, <2>5
<1>6. CASE es = None
  <2>0. slices[n] # None /\ slices[n].svc \in Services
    BY <1>0, <1>6 DEF Report, OnDeleted, Slice
  <2>1. PICK svc \in Services : svc = slices[n].svc
    BY <2>0
  <2> DEFINE old == Of(cache, svc)
             left == Restrict(old, DOMAIN old \ {n})
  <2>2. n \in DOMAIN Named(svc) /\ old = Named(svc)
    BY <1>3, <2>0, <2>1 DEF Named
  <2>3. svc \in DOMAIN cache
    <3>1. Of(cache, svc) # NoSlices
      BY <2>2 DEF NoSlices
    <3>2. QED
      BY <3>1 DEF Of
  <2>4. CASE ReadsNil(cache, n, slices[n])
    <3>1. panicked' = "nil service"
      BY <1>6, <2>1, <2>3, <2>4 DEF Report, OnDeleted
    <3>2. QED
      BY <1>2, <3>1 DEF WholeInv
  <2>5. CASE ~ReadsNil(cache, n, slices[n])
    <3>1. cache' = SliceDeleted(cache, n, slices[n]) /\ svc \in DOMAIN SliceDeleted(cache, n, slices[n])
      BY <1>6, <2>1, <2>3, <2>5 DEF Report, OnDeleted, ReadsNil
    <3>2. svc \notin DOMAIN Restrict(cache, DOMAIN cache \ {svc})
      BY DEF Restrict
    <3>3. cache' = Put(cache, svc, left)
      BY <2>1, <3>1, <3>2 DEF SliceDeleted
    <3>4. left = Named(svc)'
      <4> DEFINE D == {m \in Slices : slices[m] # None /\ slices[m].svc = svc}
                 E == {m \in Slices : slices'[m] # None /\ slices'[m].svc = svc}
      <4>1. DOMAIN old = D /\ \A m \in D : old[m] = slices[m].eps
        BY <2>2 DEF Named
      <4>2. E = D \ {n} /\ \A m \in E : slices'[m] = slices[m]
        BY <1>1, <1>6
      <4> HIDE DEF old
      <4>3. left = [m \in E |-> slices'[m].eps]
        BY <4>1, <4>2 DEF Restrict
      <4>4. QED
        BY <4>3 DEF Named
    <3> HIDE DEF left
    <3>5. \A x \in Services : Of(cache', x) = IF x = svc THEN left ELSE Of(cache, x)
      BY <3>3, OfPut
    <3>6. QED
      BY <1>4, <1>6, <2>1, <3>4, <3>5
  <2>6. QED
    BY <2>4, <2>5
<1>7. QED
  BY <1>5, <1>6

(* The merged slice of a service is made of all slices that name it, until *)
(* the process panics (EndpointSliceCache), if labels do not change.       *)
THEOREM MergedWhole ==
    ASSUME \A n \in Slices : \A x, y \in LabelsOf[n] : x = y
    PROVE  Spec => []MergedIsWhole
<1>1. Init => WholeInv
  <2> SUFFICES ASSUME Init PROVE WholeInv
    OBVIOUS
  <2>1. (\A n \in Slices : slices[n] = None) /\ DOMAIN cache = {}
    BY DEF Init, NoSlices
  <2>2. ASSUME NEW svc \in Services PROVE Of(cache, svc) = Named(svc)
    <3>1. {m \in Slices : slices[m] # None /\ slices[m].svc = svc} = {}
      BY <2>1
    <3>2. Of(cache, svc) = NoSlices
      BY <2>1 DEF Of
    <3>3. QED
      BY <3>1, <3>2 DEF Named, NoSlices
  <2>3. QED
    BY <2>1, <2>2 DEF WholeInv
<1>2. IInv /\ WholeInv /\ [Next]_vars => WholeInv'
  <2> SUFFICES ASSUME IInv, WholeInv, [Next]_vars
               PROVE  WholeInv'
    OBVIOUS
  <2>1. ASSUME UNCHANGED <<slices, cache>>, panicked' = "no" => panicked = "no"
        PROVE  WholeInv'
    <3>1. \A svc \in Services : Named(svc)' = Named(svc)
      BY <2>1 DEF Named
    <3>2. QED
      BY <2>1, <3>1 DEF WholeInv
  <2>2. ASSUME NEW n \in Slices, NEW es \in EndpointSlice(n) \cup {None}, Report(n, es), panicked = "no"
        PROVE  WholeInv'
    BY <2>2, WholeReport
  <2>3. ASSUME NEW s \in Streams, Call(s) \/ SubscribeStep(s) \/ Disconnect(s), panicked = "no"
        PROVE  WholeInv'
    BY <2>1, <2>3 DEF Call, SubscribeStep, Check, ListFn, Greet, Enter, Send, EndOfChannel, Leave,
                      Disconnect, known
  <2>4. CASE panicked = "no" /\ (InformerStep \/ MainStep \/ StopperStep \/ Cancel)
    BY <2>1, <2>4 DEF InformerStep, GetSidecar, Informer, Offer, MainStep, StoreReady, Serve, Return,
                      StopperStep, StopTaking, CloseReceivers, GracefulStop, Cancel, known
  <2>5. CASE UNCHANGED vars
    BY <2>1, <2>5 DEF vars
  <2>6. QED
    BY <2>2, <2>3, <2>4, <2>5 DEF Next, Step
<1>3. IInv /\ WholeInv => MergedIsWhole
  <2> SUFFICES ASSUME IInv, WholeInv, NEW svc \in Services, panicked = "no"
               PROVE  GetMerged(cache, svc) =
                        UNION {slices[n].eps : n \in {m \in Slices : slices[m] # None /\ slices[m].svc = svc}}
    BY DEF MergedIsWhole
  <2>1. Of(cache, svc) = Named(svc)
    BY DEF WholeInv
  <2>2. Range(Named(svc)) =
          {slices[n].eps : n \in {m \in Slices : slices[m] # None /\ slices[m].svc = svc}}
    BY DEF Range, Named
  <2>3. QED
    BY <2>1, <2>2 DEF GetMerged
<1>4. QED
  BY <1>1, <1>2, <1>3, Invariance, PTL DEF Spec
=============================================================================
