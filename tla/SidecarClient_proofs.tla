------------------------ MODULE SidecarClient_proofs ------------------------
(***************************************************************************)
(* Proofs about SidecarClient: types; and, for clients that await the      *)
(* answer to a POST before they make another for the same service, that    *)
(* every stream can be cancelled and that the cache never goes back.       *)
(***************************************************************************)
EXTENDS SidecarClient, SequenceTheorems, TLAPS

RequestSet ==
    [at    : {"none", "post", "checked", "subscribing", "delete", "cancelling",
              "removing", "refused", "failed", "ok"},
     svc   : Services \cup {None},
     found : Requests \cup {None}]

StreamSet ==
    [at     : {"none", "receiving", "applying", "ended"},
     chan   : Seq(EventSet),
     event  : EventSet \cup {None},
     sent   : 0 .. MaxChanges,
     broken : BOOLEAN]

(* What the place of a handler says of its record. *)
Placed(r) ==
    /\ request[r].at # "none" => Svc(r) \in Services
    /\ request[r].at \in {"cancelling", "removing"} => request[r].found \in Requests
    /\ stream[r].at # "none" => request[r].at = "ok"
    /\ stream[r].at = "applying" => stream[r].event \in EventSet
    /\ stream[r].at = "none" => stream[r].sent = 0 /\ stream[r].chan = <<>>

TypeInv == TypeOK /\ \A r \in Requests : Placed(r)

-----------------------------------------------------------------------------
(* Types *)

LEMMA TypesInitially == Init => TypeInv
<1> SUFFICES ASSUME Init
             PROVE  TypeInv
  OBVIOUS
<1>1. NoRequest \in RequestSet /\ NoStream \in StreamSet
  BY SubscriptionAssumption DEF NoRequest, NoStream, RequestSet, StreamSet
<1>2. TypeOK
  BY <1>1, SubscriptionAssumption DEF Init, TypeOK, RequestSet, StreamSet, Range, Event
<1>3. QED
  BY <1>2 DEF TypeInv, Init, Placed, NoRequest, NoStream, Live

(* A handler changes its own record, and nothing of the streams. *)
LEMMA PostTypes ==
    ASSUME TypeInv, NEW r \in Requests, NEW svc \in Services, Post(r, svc) \/ Delete(r, svc)
    PROVE  TypeInv'
<1>1. PICK at \in {"post", "delete"} : request' = [request EXCEPT ![r].at = at, ![r].svc = svc]
  BY DEF Post, Delete
<1>2. /\ UNCHANGED <<ctxMap, cancelled, stream, Rest>>
      /\ request \in [Requests -> RequestSet] /\ request[r].at = "none" /\ ~Live(r)
  BY DEF Post, Delete, TypeInv, TypeOK, RequestSet, Placed, Live
<1>3. request' \in [Requests -> RequestSet]
  BY <1>1, <1>2 DEF RequestSet
<1>4. TypeOK'
  BY <1>2, <1>3 DEF TypeInv, TypeOK, RequestSet, Rest
<1>5. \A t \in Requests : Placed(t)'
  BY <1>1, <1>2 DEF TypeInv, Placed, Svc, Live, RequestSet
<1>6. QED
  BY <1>4, <1>5 DEF TypeInv

LEMMA HandlerTypes ==
    ASSUME TypeInv, NEW r \in Requests, HandlerStep(r)
    PROVE  TypeInv'
<1>0. /\ request \in [Requests -> RequestSet] /\ stream \in [Requests -> StreamSet]
      /\ Placed(r) /\ TypeOK
  BY DEF TypeInv, TypeOK, RequestSet, StreamSet
<1>1. CASE Check(r)
  <2>1. request' \in [Requests -> RequestSet]
    BY <1>0, <1>1 DEF Check, Goto, RequestSet
  <2>2. TypeOK'
    BY <1>1, <2>1 DEF TypeInv, TypeOK, RequestSet, Check, Rest
  <2>3. \A t \in Requests : Placed(t)'
    BY <1>0, <1>1 DEF TypeInv, Placed, Svc, Live, Check, Goto, RequestSet
  <2>4. QED
    BY <2>2, <2>3 DEF TypeInv
<1>2. CASE NewServiceContext(r)
  <2>1. request' \in [Requests -> RequestSet] /\ Svc(r) \in Services
    BY <1>0, <1>2 DEF NewServiceContext, Goto, RequestSet, Placed
  <2>2. DOMAIN ctxMap' \subseteq Services /\ Range(ctxMap') \subseteq Requests
    <3>1. \A s \in DOMAIN ctxMap : ctxMap[s] \in Requests
      BY <1>0 DEF TypeOK, Range
    <3>2. DOMAIN ctxMap' = DOMAIN ctxMap \cup {Svc(r)} /\ \A s \in DOMAIN ctxMap' : ctxMap'[s] \in Requests
      BY <1>2, <3>1 DEF NewServiceContext
    <3>3. QED
      BY <1>0, <2>1, <3>2 DEF TypeOK, Range
  <2>3. TypeOK'
    BY <1>2, <2>1, <2>2 DEF TypeInv, TypeOK, RequestSet, NewServiceContext, Rest
  <2>4. \A t \in Requests : Placed(t)'
    BY <1>0, <1>2 DEF TypeInv, Placed, Svc, Live, NewServiceContext, Goto, RequestSet
  <2>5. QED
    BY <2>3, <2>4 DEF TypeInv
<1>3. CASE Subscribe(r)
  <2>1. request' \in [Requests -> RequestSet]
    BY <1>0, <1>3 DEF Subscribe, Goto, RequestSet
  <2>2. stream' \in [Requests -> StreamSet]
    <3>1. [stream[r] EXCEPT !.at = "receiving"] \in StreamSet
      BY <1>0 DEF StreamSet
    <3>2. stream' = stream \/ stream' = [stream EXCEPT ![r] = [stream[r] EXCEPT !.at = "receiving"]]
      BY <1>0, <1>3 DEF Subscribe
    <3>3. QED
      BY <1>0, <3>1, <3>2
  <2>3. TypeOK'
    BY <1>3, <2>1, <2>2 DEF TypeInv, TypeOK, RequestSet, StreamSet, Subscribe, Rest
  <2>4. ASSUME NEW t \in Requests
        PROVE  Placed(t)'
    <3>1. Placed(t) /\ request[t] \in RequestSet /\ stream[t] \in StreamSet
      BY <1>0 DEF TypeInv
    <3>2. CASE t # r
      <4>1. request'[t] = request[t] /\ stream'[t] = stream[t]
        BY <1>0, <1>3, <3>2 DEF Subscribe, Goto
      <4>2. QED
        BY <3>1, <4>1 DEF Placed, Svc, Live
    <3>3. CASE t = r /\ request' = [request EXCEPT ![r].at = "failed"] /\ stream' = stream
      BY <1>0, <1>3, <3>1, <3>3 DEF Placed, Svc, Live, RequestSet, Subscribe, Goto
    <3>4. CASE t = r /\ request' = [request EXCEPT ![r].at = "ok"]
               /\ stream' = [stream EXCEPT ![r].at = "receiving"]
      BY <1>0, <1>3, <3>1, <3>4 DEF Placed, Svc, Live, RequestSet, StreamSet, Subscribe, Goto
    <3>5. QED
      BY <1>3, <3>2, <3>3, <3>4 DEF Subscribe, Goto
  <2>5. QED
    BY <2>3, <2>4 DEF TypeInv
<1>4. CASE GetCancel(r)
  <2>1. Existed(r) => ctxMap[Svc(r)] \in Requests
    BY <1>0 DEF TypeOK, Existed, Range
  <2>2. request' \in [Requests -> RequestSet]
    <3>1. CASE Existed(r)
      <4>1. [request[r] EXCEPT !.at = "cancelling", !.found = ctxMap[Svc(r)]] \in RequestSet
        BY <1>0, <2>1, <3>1 DEF RequestSet
      <4>2. request' = [request EXCEPT ![r] =
                           [request[r] EXCEPT !.at = "cancelling", !.found = ctxMap[Svc(r)]]]
        BY <1>0, <1>4, <3>1 DEF GetCancel
      <4>3. QED
        BY <1>0, <4>1, <4>2
    <3>2. CASE ~Existed(r)
      <4>1. [request[r] EXCEPT !.at = "failed"] \in RequestSet
        BY <1>0 DEF RequestSet
      <4>2. request' = [request EXCEPT ![r] = [request[r] EXCEPT !.at = "failed"]]
        BY <1>0, <1>4, <3>2 DEF GetCancel
      <4>3. QED
        BY <1>0, <4>1, <4>2
    <3>3. QED
      BY <3>1, <3>2
  <2>3. TypeOK'
    BY <1>4, <2>2 DEF TypeInv, TypeOK, RequestSet, GetCancel, Rest
  <2>4. \A t \in Requests : Placed(t)'
    BY <1>0, <1>4, <2>1 DEF TypeInv, Placed, Svc, Live, GetCancel, RequestSet
  <2>5. QED
    BY <2>3, <2>4 DEF TypeInv
<1>5. CASE CallCancel(r)
  <2>1. request' \in [Requests -> RequestSet]
    BY <1>0, <1>5 DEF CallCancel, Goto, RequestSet
  <2>2. cancelled' \subseteq Requests
    BY <1>0, <1>5 DEF CallCancel, Goto, TypeOK, Placed
  <2>3. TypeOK'
    BY <1>5, <2>1, <2>2 DEF TypeInv, TypeOK, RequestSet, CallCancel, Rest
  <2>4. \A t \in Requests : Placed(t)'
    BY <1>0, <1>5 DEF TypeInv, Placed, Svc, Live, CallCancel, Goto, RequestSet
  <2>5. QED
    BY <2>3, <2>4 DEF TypeInv
<1>6. CASE Unsubscribe(r)
  <2>1. request' \in [Requests -> RequestSet]
    BY <1>0, <1>6 DEF Unsubscribe, Goto, RequestSet
  <2>2. DOMAIN cache' \subseteq Services /\ Range(cache') \subseteq 1 .. MaxChanges
    BY <1>0, <1>6 DEF Unsubscribe, TypeOK, Restrict, Range
  <2>3. TypeOK'
    BY <1>6, <2>1, <2>2 DEF TypeInv, TypeOK, RequestSet, Unsubscribe
  <2>4. \A t \in Requests : Placed(t)'
    BY <1>0, <1>6 DEF TypeInv, Placed, Svc, Live, Unsubscribe, Goto, RequestSet
  <2>5. QED
    BY <2>3, <2>4 DEF TypeInv
<1>7. QED
  BY <1>1, <1>2, <1>3, <1>4, <1>5, <1>6 DEF HandlerStep
(* A step that changes stream r only, to a record x. *)
LEMMA StreamChange ==
    ASSUME TypeInv, NEW r \in Requests, NEW x \in StreamSet,
           stream' = [stream EXCEPT ![r] = x],
           UNCHANGED <<request, ctxMap, cancelled, latest>>,
           x.at = "applying" => x.event \in EventSet,
           stream[r].at # "none", x.at # "none",
           DOMAIN cache' \subseteq Services, Range(cache') \subseteq 1 .. MaxChanges,
           applied' \in [Services -> 0 .. MaxChanges],
           x.at \in {"receiving", "applying"} => Live(r)
    PROVE  TypeInv'
<1>0. TypeOK /\ stream \in [Requests -> StreamSet]
  BY DEF TypeInv, TypeOK, StreamSet
<1>1. stream' \in [Requests -> StreamSet] /\ stream'[r] = x
      /\ \A t \in Requests \ {r} : stream'[t] = stream[t]
  BY <1>0
<1>2. TypeOK'
  BY <1>0, <1>1 DEF TypeOK, StreamSet
<1>3. \A t \in Requests : Placed(t)'
  BY <1>1 DEF TypeInv, Placed, Svc, Live
<1>4. QED
  BY <1>2, <1>3 DEF TypeInv

LEMMA StreamTypes ==
    ASSUME TypeInv, NEW r \in Requests, ReceiverStep(r) \/ Send(r) \/ Break(r)
    PROVE  TypeInv'
<1>0. /\ stream \in [Requests -> StreamSet] /\ stream[r] \in StreamSet /\ Placed(r) /\ TypeOK
      /\ stream[r].at # "none" /\ Svc(r) \in Services
  <2>1. stream \in [Requests -> StreamSet] /\ stream[r] \in StreamSet /\ Placed(r) /\ TypeOK
    BY DEF TypeInv, TypeOK, StreamSet
  <2>2. Live(r)
    BY DEF ReceiverStep, Recv, RecvError, Apply, Send, Break, Live
  <2>3. QED
    BY <2>1, <2>2 DEF Placed, Live
<1>7. Live(r)
  BY DEF ReceiverStep, Recv, RecvError, Apply, Send, Break, Live
<1>8. DOMAIN cache \subseteq Services /\ Range(cache) \subseteq 1 .. MaxChanges
      /\ applied \in [Services -> 0 .. MaxChanges]
  BY <1>0 DEF TypeOK
<1>1. CASE Recv(r)
  <2> DEFINE x == [stream[r] EXCEPT !.at = "applying", !.chan = Tail(@), !.event = Head(stream[r].chan)]
  <2>1. Head(stream[r].chan) \in EventSet /\ Tail(stream[r].chan) \in Seq(EventSet)
    BY <1>0, <1>1, HeadTailProperties DEF Recv, StreamSet
  <2>2. x \in StreamSet /\ x.at = "applying" /\ x.event \in EventSet
    BY <1>0, <2>1 DEF StreamSet
  <2>3. stream' = [stream EXCEPT ![r] = x] /\ UNCHANGED <<request, ctxMap, cancelled, Rest>>
    BY <1>0, <1>1 DEF Recv
  <2> HIDE DEF x
  <2>4. QED
    BY <1>0, <1>7, <1>8, <2>2, <2>3, StreamChange DEF Rest
<1>2. CASE RecvError(r)
  <2> DEFINE x == [stream[r] EXCEPT !.at = "ended", !.chan = <<>>]
  <2>0. <<>> \in Seq(EventSet)
    OBVIOUS
  <2>1. x \in StreamSet /\ x.at = "ended"
    BY <1>0, <2>0 DEF StreamSet
  <2>2. stream' = [stream EXCEPT ![r] = x] /\ UNCHANGED <<request, ctxMap, cancelled, Rest>>
    BY <1>0, <1>2 DEF RecvError
  <2> HIDE DEF x
  <2>3. QED
    BY <1>0, <1>7, <1>8, <2>1, <2>2, StreamChange DEF Rest
<1>3. CASE Apply(r)
  <2> DEFINE x == [stream[r] EXCEPT !.at = "receiving", !.event = None]
  <2>1. x \in StreamSet /\ x.at = "receiving"
    BY <1>0 DEF StreamSet
  <2>2. stream' = [stream EXCEPT ![r] = x] /\ UNCHANGED <<request, ctxMap, cancelled, latest>>
    BY <1>0, <1>3 DEF Apply
  <2> HIDE DEF x
  <2>3. stream[r].event \in EventSet /\ stream[r].event.version \in 1 .. MaxChanges
    BY <1>0, <1>3 DEF Apply, Placed, EventSet
  <2>4. DOMAIN cache' \subseteq Services /\ Range(cache') \subseteq 1 .. MaxChanges
    <3>1. \A s \in DOMAIN cache : cache[s] \in 1 .. MaxChanges
      BY <1>8 DEF Range
    <3>2. DOMAIN cache' \subseteq Services /\ \A s \in DOMAIN cache' : cache'[s] \in 1 .. MaxChanges
      <4>1. CASE stream[r].event.op = "ADDED"
        BY <1>0, <1>3, <1>8, <2>3, <3>1, <4>1 DEF Apply, Store
      <4>2. CASE stream[r].event.op # "ADDED"
        BY <1>0, <1>3, <1>8, <2>3, <3>1, <4>2 DEF Apply, Store, Restrict
      <4>3. QED
        BY <4>1, <4>2
    <3>3. QED
      BY <3>2 DEF Range
  <2>5. applied' \in [Services -> 0 .. MaxChanges]
    BY <1>0, <1>3, <1>8, <2>3 DEF Apply
  <2>6. QED
    BY <1>0, <1>7, <2>1, <2>2, <2>4, <2>5, StreamChange
<1>4. CASE Send(r)
  <2> DEFINE e == latest[Svc(r)]
             x == [stream[r] EXCEPT !.chan = Append(@, e), !.sent = e.version]
  <2>1. e \in EventSet
    <3>1. latest[Svc(r)] \in EventSet \cup {Event(0, "DELETED")}
      BY <1>0 DEF TypeOK
    <3>2. latest[Svc(r)].version > stream[r].sent /\ stream[r].sent \in Nat
      BY <1>0, <1>4, SubscriptionAssumption DEF Send, StreamSet
    <3>3. latest[Svc(r)].version # 0
      BY <3>2, <3>1, SubscriptionAssumption DEF EventSet, Event
    <3>4. QED
      BY <3>1, <3>3 DEF Event
  <2>2. Append(stream[r].chan, e) \in Seq(EventSet) /\ e.version \in 0 .. MaxChanges
    BY <1>0, <2>1, AppendProperties, SubscriptionAssumption DEF StreamSet, EventSet
  <2>3. x \in StreamSet /\ x.at = stream[r].at /\ x.event = stream[r].event
    BY <1>0, <2>2 DEF StreamSet
  <2>4. stream' = [stream EXCEPT ![r] = x] /\ UNCHANGED <<request, ctxMap, cancelled, Rest>>
    BY <1>0, <1>4 DEF Send
  <2> HIDE DEF x
  <2>5. QED
    BY <1>0, <1>7, <1>8, <2>3, <2>4, StreamChange DEF Rest, Placed
<1>5. CASE Break(r)
  <2> DEFINE x == [stream[r] EXCEPT !.broken = TRUE]
  <2>1. x \in StreamSet /\ x.at = stream[r].at /\ x.event = stream[r].event
    BY <1>0 DEF StreamSet
  <2>2. stream' = [stream EXCEPT ![r] = x] /\ UNCHANGED <<request, ctxMap, cancelled, Rest>>
    BY <1>0, <1>5 DEF Break
  <2> HIDE DEF x
  <2>3. QED
    BY <1>0, <1>7, <1>8, <2>1, <2>2, StreamChange DEF Rest, Placed
<1>6. QED
  BY <1>1, <1>2, <1>3, <1>4, <1>5 DEF ReceiverStep

LEMMA ChangeTypes ==
    ASSUME TypeInv, NEW svc \in Services, NEW op \in {"ADDED", "DELETED"}, Change(svc, op)
    PROVE  TypeInv'
<1>1. latest[svc].version + 1 \in 1 .. MaxChanges
  <2>1. latest[svc] \in EventSet \cup {Event(0, "DELETED")} /\ latest[svc].version < MaxChanges
    BY DEF TypeInv, TypeOK, Change
  <2>2. latest[svc].version \in Nat
    BY <2>1, SubscriptionAssumption DEF EventSet, Event
  <2>3. QED
    BY <2>1, <2>2, SubscriptionAssumption
<1>2. latest' \in [Services -> EventSet \cup {Event(0, "DELETED")}]
  BY <1>1 DEF TypeInv, TypeOK, Change, Event, EventSet
<1>3. TypeOK'
  BY <1>2 DEF TypeInv, TypeOK, Change
<1>4. QED
  BY <1>3 DEF TypeInv, Placed, Change, Svc, Live

LEMMA TypesKept == TypeInv /\ [Next]_vars => TypeInv'
<1> SUFFICES ASSUME TypeInv, [Next]_vars
             PROVE  TypeInv'
  OBVIOUS
<1>1. CASE UNCHANGED vars
  BY <1>1 DEF vars, TypeInv, TypeOK, Placed, Svc, Live
<1>2. CASE Next
  BY <1>2, PostTypes, HandlerTypes, StreamTypes, ChangeTypes DEF Next
<1>3. QED
  BY <1>1, <1>2

LEMMA Types == Spec => []TypeInv
BY TypesInitially, TypesKept, PTL DEF Spec

(* Types of the handlers, streams and maps; the cache holds states that    *)
(* were sent, of known services (cache.go).                                *)
THEOREM TypeCorrect == Spec => []TypeOK
<1>1. TypeInv => TypeOK
  BY DEF TypeInv
<1>2. QED
  BY <1>1, Types, PTL

-----------------------------------------------------------------------------
(* Every stream can be cancelled *)

Early(r) == request[r].at \in {"post", "checked", "subscribing"}

Owns(r) == Svc(r) \in DOMAIN ctxMap /\ ctxMap[Svc(r)] = r

(* At most one POST of a service is under way; one that passed the check   *)
(* finds no context; one that made a context, and a live stream, have the  *)
(* one in the map, which nothing overwrites.                               *)
OwnInv ==
    /\ \A r, t \in Requests : Early(r) /\ Early(t) /\ Svc(r) = Svc(t) => r = t
    /\ \A r \in Requests :
          /\ request[r].at = "checked" => Svc(r) \notin DOMAIN ctxMap
          /\ request[r].at = "subscribing" => Owns(r)
          /\ Live(r) => Owns(r)

LEMMA OwnKept ==
    ASSUME SerialPosts = TRUE, TypeInv, OwnInv, [Next]_vars
    PROVE  OwnInv'
<1>0. request \in [Requests -> RequestSet] /\ stream \in [Requests -> StreamSet]
  BY DEF TypeInv, TypeOK, RequestSet, StreamSet
<1>1. ASSUME NEW r \in Requests, NEW svc \in Services, Post(r, svc)
      PROVE  OwnInv'
  <2>1. /\ request[r].at = "none" /\ Posting(svc) = {} /\ ~Live(r)
        /\ request' = [request EXCEPT ![r].at = "post", ![r].svc = svc]
        /\ UNCHANGED <<ctxMap, stream>>
    BY <1>1 DEF Post, TypeInv, Placed, Live
  <2>2. /\ request'[r].at = "post" /\ request'[r].svc = svc
        /\ \A t \in Requests \ {r} : request'[t] = request[t]
    BY <1>0, <2>1 DEF RequestSet
  <2>3. \A t \in Requests : ~(Early(t) /\ Svc(t) = svc)
    BY <2>1 DEF Posting, Early, Svc
  <2>4. \A t \in Requests \ {r} : Early(t)' = Early(t) /\ Svc(t)' = Svc(t) /\ Owns(t)' = Owns(t)
    BY <2>1, <2>2 DEF Early, Svc, Owns
  <2>5. \A t \in Requests : Live(t)' = Live(t)
    BY <2>1 DEF Live
  <2>6. Svc(r)' = svc /\ \A t \in Requests \ {r} : ~(Early(t)' /\ Svc(t)' = svc)
    BY <2>2, <2>3, <2>4 DEF Svc
  <2>7. \A t, u \in Requests : Early(t)' /\ Early(u)' /\ Svc(t)' = Svc(u)' => t = u
    BY <2>4, <2>6 DEF OwnInv
  <2>8. \A t \in Requests :
            /\ request'[t].at = "checked" => Svc(t)' \notin DOMAIN ctxMap'
            /\ request'[t].at = "subscribing" => Owns(t)'
            /\ Live(t)' => Owns(t)'
    BY <2>1, <2>2, <2>4, <2>5 DEF OwnInv
  <2>9. QED
    BY <2>7, <2>8 DEF OwnInv
<1>2. ASSUME NEW r \in Requests, NEW svc \in Services, Delete(r, svc)
      PROVE  OwnInv'
  <2>1. /\ request[r].at = "none" /\ ~Live(r)
        /\ request' = [request EXCEPT ![r].at = "delete", ![r].svc = svc]
        /\ UNCHANGED <<ctxMap, stream>>
    BY <1>2 DEF Delete, TypeInv, Placed, Live
  <2>2. /\ request'[r].at = "delete"
        /\ \A t \in Requests \ {r} : request'[t] = request[t]
    BY <1>0, <2>1 DEF RequestSet
  <2>3. \A t \in Requests \ {r} : Early(t)' = Early(t) /\ Svc(t)' = Svc(t) /\ Owns(t)' = Owns(t)
    BY <2>1, <2>2 DEF Early, Svc, Owns
  <2>4. ~Early(r)' /\ \A t \in Requests : Live(t)' = Live(t)
    BY <2>1, <2>2 DEF Early, Live
  <2>5. \A t, u \in Requests : Early(t)' /\ Early(u)' /\ Svc(t)' = Svc(u)' => t = u
    BY <2>3, <2>4 DEF OwnInv
  <2>6. \A t \in Requests :
            /\ request'[t].at = "checked" => Svc(t)' \notin DOMAIN ctxMap'
            /\ request'[t].at = "subscribing" => Owns(t)'
            /\ Live(t)' => Owns(t)'
    BY <2>1, <2>2, <2>3, <2>4 DEF OwnInv
  <2>7. QED
    BY <2>5, <2>6 DEF OwnInv
<1>3. ASSUME NEW r \in Requests, HandlerStep(r)
      PROVE  OwnInv'
  <2>0. /\ request'[r].svc = request[r].svc
        /\ \A t \in Requests \ {r} : request'[t] = request[t]
    BY <1>0, <1>3 DEF HandlerStep, Check, NewServiceContext, Subscribe, GetCancel, CallCancel,
                      Unsubscribe, Goto, RequestSet
  <2>1. CASE Check(r)
    <3>1. /\ request[r].at = "post" /\ request'[r].at \in {"refused", "checked"}
          /\ request'[r].at = "checked" => Svc(r) \notin DOMAIN ctxMap
          /\ UNCHANGED <<ctxMap, stream>>
      BY <1>0, <2>1 DEF Check, Goto, Existed, RequestSet
    <3>2. QED
      BY <2>0, <3>1 DEF OwnInv, Early, Owns, Svc, Live
  <2>2. CASE NewServiceContext(r)
    <3>1. /\ request[r].at = "checked" /\ request'[r].at = "subscribing" /\ stream' = stream
          /\ Svc(r) \notin DOMAIN ctxMap /\ DOMAIN ctxMap' = DOMAIN ctxMap \cup {Svc(r)}
          /\ ctxMap'[Svc(r)] = r
          /\ \A s \in DOMAIN ctxMap : ctxMap'[s] = ctxMap[s]
      BY <1>0, <2>2 DEF NewServiceContext, Goto, RequestSet, OwnInv
    <3>2. \A t \in Requests : request'[t].at = "checked" => Svc(t)' \notin DOMAIN ctxMap'
      BY <2>0, <3>1 DEF OwnInv, Early, Svc
    <3>3. \A t \in Requests \ {r} : Owns(t) => Owns(t)'
      BY <2>0, <3>1 DEF Owns, Svc
    <3>4. Owns(r)'
      BY <2>0, <3>1 DEF Owns, Svc
    <3>5. \A t \in Requests : Early(t)' => Early(t) /\ Svc(t)' = Svc(t)
      BY <2>0, <3>1 DEF Early, Svc
    <3>6. QED
      BY <2>0, <3>1, <3>2, <3>3, <3>4, <3>5 DEF OwnInv, Live
  <2>3. CASE Subscribe(r)
    <3>1. /\ request[r].at = "subscribing" /\ request'[r].at \in {"ok", "failed"}
          /\ ctxMap' = ctxMap /\ \A t \in Requests \ {r} : stream'[t] = stream[t]
      BY <1>0, <2>3 DEF Subscribe, Goto, RequestSet
    <3>2. Owns(r) /\ \A t \in Requests : Owns(t)' = Owns(t)
      BY <2>0, <3>1 DEF OwnInv, Owns, Svc
    <3>3. QED
      BY <2>0, <3>1, <3>2 DEF OwnInv, Early, Svc, Live
  <2>4. CASE GetCancel(r) \/ CallCancel(r) \/ Unsubscribe(r)
    <3>1. /\ ~Early(r)' /\ UNCHANGED <<ctxMap, stream>>
      BY <1>0, <2>4 DEF GetCancel, CallCancel, Unsubscribe, Goto, RequestSet, Early, Rest
    <3>2. QED
      BY <2>0, <3>1 DEF OwnInv, Early, Owns, Svc, Live
  <2>5. QED
    BY <1>3, <2>1, <2>2, <2>3, <2>4 DEF HandlerStep
<1>4. ASSUME NEW r \in Requests, ReceiverStep(r) \/ Send(r) \/ Break(r)
      PROVE  OwnInv'
  <2>1. UNCHANGED <<request, ctxMap>> /\ Live(r) /\ \A t \in Requests \ {r} : stream'[t] = stream[t]
    BY <1>0, <1>4 DEF ReceiverStep, Recv, RecvError, Apply, Send, Break, Live
  <2>2. QED
    BY <2>1 DEF OwnInv, Early, Owns, Svc, Live
<1>5. CASE (\E svc \in Services, op \in {"ADDED", "DELETED"} : Change(svc, op)) \/ UNCHANGED vars
  BY <1>5 DEF Change, vars, OwnInv, Early, Owns, Svc, Live
<1>6. QED
  BY <1>1, <1>2, <1>3, <1>4, <1>5 DEF Next

(* If POSTs of a service are awaited, every stream that can still change   *)
(* the cache can be reached by DELETE, whatever other requests come        *)
(* together (subscribeChain, unsubscribe).                                 *)
THEOREM Cancellable ==
    ASSUME SerialPosts = TRUE
    PROVE  Spec => []StreamsCancellable
<1>1. Init => OwnInv
  BY DEF Init, OwnInv, Early, Owns, Live, NoRequest, NoStream
<1>2. TypeInv /\ OwnInv /\ [Next]_vars => OwnInv'
  BY OwnKept
<1>3. OwnInv => StreamsCancellable
  BY DEF OwnInv, Owns, StreamsCancellable
<1>4. QED
  BY <1>1, <1>2, <1>3, Types, PTL DEF Spec

-----------------------------------------------------------------------------
(* The cache never goes back *)

(* The events of a live stream, the one being applied first, rise from     *)
(* what was applied to what was sent.                                      *)
Rising(r) ==
    LET s == stream[r]
    IN  /\ s.sent <= latest[Svc(r)].version
        /\ \A i \in 1 .. Len(s.chan) :
              s.chan[i].version \in applied[Svc(r)] .. s.sent
        /\ \A i, j \in 1 .. Len(s.chan) : i <= j => s.chan[i].version <= s.chan[j].version
        /\ s.at = "applying" =>
              /\ s.event.version \in applied[Svc(r)] .. s.sent
              /\ \A i \in 1 .. Len(s.chan) : s.event.version <= s.chan[i].version

OrderInv ==
    /\ \A svc \in Services : applied[svc] <= latest[svc].version
    /\ \A r \in Requests : Live(r) => Rising(r)

LEMMA Numbers ==
    ASSUME TypeInv
    PROVE  /\ \A svc \in Services : applied[svc] \in Nat /\ latest[svc].version \in Nat
           /\ stream \in [Requests -> StreamSet]
           /\ \A r \in Requests : /\ stream[r] \in StreamSet /\ stream[r].sent \in Nat
                                  /\ stream[r].chan \in Seq(EventSet)
                                  /\ Live(r) => Svc(r) \in Services
           /\ \A e \in EventSet : e.version \in Nat
<1>1. \A svc \in Services : applied[svc] \in Nat /\ latest[svc].version \in Nat
  BY SubscriptionAssumption DEF TypeInv, TypeOK, EventSet, Event
<1>2. stream \in [Requests -> StreamSet] /\ \A r \in Requests : stream[r] \in StreamSet
  BY DEF TypeInv, TypeOK, StreamSet
<1>3. \A r \in Requests : stream[r].sent \in Nat /\ stream[r].chan \in Seq(EventSet)
  BY <1>2, SubscriptionAssumption DEF StreamSet
<1>4. \A r \in Requests : Live(r) => Svc(r) \in Services
  BY DEF TypeInv, Placed, Live
<1>5. \A e \in EventSet : e.version \in Nat
  BY SubscriptionAssumption DEF EventSet
<1>6. QED
  BY <1>1, <1>2, <1>3, <1>4, <1>5

(* Of a step of stream r alone, only r need be looked at. *)
LEMMA RisingAlone ==
    ASSUME TypeInv, OrderInv, NEW r \in Requests, Live(r),
           UNCHANGED <<request, latest>>,
           \A t \in Requests \ {r} : stream'[t] = stream[t],
           \A svc \in Services \ {Svc(r)} : applied'[svc] = applied[svc],
           applied' = applied \/ (\A t \in Requests \ {r} : Live(t) => Svc(t) # Svc(r)),
           applied'[Svc(r)] <= latest[Svc(r)].version,
           Live(r)' => Rising(r)'
    PROVE  OrderInv'
<1>1. \A svc \in Services : applied'[svc] <= latest'[svc].version
  BY Numbers DEF OrderInv
<1>2. ASSUME NEW t \in Requests \ {r}, Live(t)'
      PROVE  Rising(t)'
  <2>1. Live(t) /\ Rising(t) /\ stream'[t] = stream[t] /\ Svc(t)' = Svc(t) /\ Svc(t) \in Services
    BY <1>2, Numbers DEF OrderInv, Live, Svc
  <2>2. applied'[Svc(t)] = applied[Svc(t)]
    BY <2>1
  <2>3. QED
    BY <2>1, <2>2 DEF Rising
<1>3. QED
  BY <1>1, <1>2 DEF OrderInv

LEMMA RecvRising ==
    ASSUME TypeInv, OrderInv, NEW r \in Requests, Recv(r)
    PROVE  OrderInv' /\ applied' = applied
<1> DEFINE chan == stream[r].chan
<1>1. /\ Live(r) /\ Rising(r) /\ chan \in Seq(EventSet) /\ chan # <<>> /\ Svc(r) \in Services
      /\ applied[Svc(r)] \in Nat /\ stream[r].sent \in Nat
      /\ \A i \in 1 .. Len(chan) : chan[i].version \in Nat
  BY Numbers DEF Recv, Live, OrderInv
<1>2. /\ UNCHANGED <<request, latest, applied>> /\ \A t \in Requests \ {r} : stream'[t] = stream[t]
      /\ stream'[r].chan = Tail(chan) /\ stream'[r].event = chan[1]
      /\ stream'[r].sent = stream[r].sent /\ stream'[r].at = "applying"
  BY Numbers DEF Recv, Rest, StreamSet
<1>3. /\ Len(Tail(chan)) = Len(chan) - 1 /\ Len(chan) \in Nat /\ Len(chan) > 0
      /\ \A i \in 1 .. Len(chan) - 1 : Tail(chan)[i] = chan[i + 1]
  BY <1>1, HeadTailProperties, EmptySeq
<1>4. Rising(r)'
  <2>1. Svc(r)' = Svc(r)
    BY <1>2 DEF Svc
  <2>2. \A i \in 1 .. Len(chan) - 1 : i + 1 \in 1 .. Len(chan)
    BY <1>3
  <2> HIDE DEF chan
  <2>3. QED
    BY <1>1, <1>2, <1>3, <2>1, <2>2 DEF Rising, chan
<1>5. QED
  BY <1>1, <1>2, <1>4, RisingAlone DEF OrderInv

LEMMA SendRising ==
    ASSUME TypeInv, OrderInv, NEW r \in Requests, Send(r)
    PROVE  OrderInv' /\ applied' = applied
<1> DEFINE chan == stream[r].chan
           e == latest[Svc(r)]
<1>1. /\ Live(r) /\ Rising(r) /\ chan \in Seq(EventSet) /\ Svc(r) \in Services
      /\ applied[Svc(r)] \in Nat /\ stream[r].sent \in Nat /\ e.version \in Nat
      /\ stream[r].sent < e.version /\ applied[Svc(r)] <= e.version
      /\ \A i \in 1 .. Len(chan) : chan[i].version \in Nat
  BY Numbers DEF Send, Live, OrderInv
<1>2. /\ UNCHANGED <<request, latest, applied>> /\ \A t \in Requests \ {r} : stream'[t] = stream[t]
      /\ stream'[r].chan = Append(chan, e) /\ stream'[r].sent = e.version
      /\ stream'[r].at = stream[r].at /\ stream'[r].event = stream[r].event
  BY Numbers DEF Send, Rest, StreamSet
<1>3. /\ Len(Append(chan, e)) = Len(chan) + 1 /\ Len(chan) \in Nat
      /\ \A i \in 1 .. Len(chan) : Append(chan, e)[i] = chan[i]
      /\ Append(chan, e)[Len(chan) + 1] = e
  BY <1>1
<1>4. Rising(r)'
  <2>1. Svc(r)' = Svc(r)
    BY <1>2 DEF Svc
  <2>2. \A i \in 1 .. Len(chan) + 1 : i \in 1 .. Len(chan) \/ i = Len(chan) + 1
    BY <1>3
  <2>3. stream[r].at = "applying" => stream[r].event.version \in Nat
    BY <1>1 DEF Rising
  <2>4. \A i \in 1 .. Len(chan) : chan[i].version <= e.version /\ applied[Svc(r)] <= chan[i].version
    BY <1>1 DEF Rising
  <2>5. stream[r].at = "applying" =>
            /\ stream[r].event.version \in applied[Svc(r)] .. stream[r].sent
            /\ \A i \in 1 .. Len(chan) : stream[r].event.version <= chan[i].version
    BY <1>1 DEF Rising
  <2>6. \A i, j \in 1 .. Len(chan) : i <= j => chan[i].version <= chan[j].version
    BY <1>1 DEF Rising
  <2> HIDE DEF chan, e
  <2>7. \A i \in 1 .. Len(chan) + 1 : Append(chan, e)[i].version \in applied[Svc(r)] .. e.version
    BY <1>1, <1>3, <2>2, <2>4
  <2>8. \A i, j \in 1 .. Len(chan) + 1 :
            i <= j => Append(chan, e)[i].version <= Append(chan, e)[j].version
    BY <1>1, <1>3, <2>2, <2>4, <2>6
  <2>9. stream[r].at = "applying" =>
            /\ stream[r].event.version \in applied[Svc(r)] .. e.version
            /\ \A i \in 1 .. Len(chan) + 1 : stream[r].event.version <= Append(chan, e)[i].version
    BY <1>1, <1>3, <2>2, <2>3, <2>5
  <2>10. QED
    BY <1>1, <1>2, <1>3, <2>1, <2>7, <2>8, <2>9 DEF Rising, e
<1>5. QED
  BY <1>1, <1>2, <1>4, RisingAlone DEF OrderInv

LEMMA ApplyRising ==
    ASSUME TypeInv, OwnInv, OrderInv, NEW r \in Requests, Apply(r)
    PROVE  OrderInv' /\ \A svc \in Services : applied'[svc] >= applied[svc]
<1>1. /\ Live(r) /\ Rising(r) /\ Svc(r) \in Services /\ stream[r].at = "applying"
      /\ stream[r].sent \in Nat /\ latest[Svc(r)].version \in Nat /\ stream[r].chan \in Seq(EventSet)
      /\ \A svc \in Services : applied[svc] \in Nat
      /\ \A i \in 1 .. Len(stream[r].chan) : stream[r].chan[i].version \in Nat
  BY Numbers DEF Apply, Live, OrderInv
<1>2. /\ UNCHANGED <<request, latest>> /\ \A t \in Requests \ {r} : stream'[t] = stream[t]
      /\ stream'[r].chan = stream[r].chan /\ stream'[r].sent = stream[r].sent
      /\ stream'[r].at = "receiving"
      /\ applied'[Svc(r)] = stream[r].event.version
      /\ \A svc \in Services \ {Svc(r)} : applied'[svc] = applied[svc]
  BY <1>1, Numbers DEF Apply, StreamSet, TypeInv, TypeOK
<1>3. \A t \in Requests \ {r} : Live(t) => Svc(t) # Svc(r)
  BY <1>1 DEF OwnInv, Owns
<1>4. Rising(r)' /\ applied'[Svc(r)] >= applied[Svc(r)] /\ applied'[Svc(r)] <= latest[Svc(r)].version
  BY <1>1, <1>2 DEF Rising, Svc
<1>5. OrderInv'
  BY <1>1, <1>2, <1>3, <1>4, RisingAlone
<1>6. QED
  BY <1>1, <1>2, <1>4, <1>5

LEMMA OrderKept ==
    ASSUME TypeInv, OwnInv, OrderInv, [Next]_vars
    PROVE  OrderInv' /\ \A svc \in Services : applied'[svc] >= applied[svc]
<1>0. \A svc \in Services : applied[svc] \in Nat
  BY Numbers
<1>1. ASSUME NEW r \in Requests, NEW svc \in Services, Post(r, svc) \/ Delete(r, svc)
      PROVE  OrderInv' /\ applied' = applied
  <2>1. UNCHANGED <<stream, latest, applied>> /\ ~Live(r)
        /\ \A t \in Requests \ {r} : request'[t] = request[t]
    BY <1>1 DEF Post, Delete, Rest, TypeInv, TypeOK, Placed, Live
  <2>2. QED
    BY <2>1 DEF OrderInv, Rising, Live, Svc
<1>2. ASSUME NEW r \in Requests, HandlerStep(r)
      PROVE  OrderInv' /\ applied' = applied
  <2>1. UNCHANGED <<latest, applied>> /\ \A t \in Requests : Svc(t)' = Svc(t)
    <3>1. request \in [Requests -> RequestSet]
      BY DEF TypeInv, TypeOK, RequestSet
    <3>2. /\ request'[r].svc = request[r].svc
          /\ \A t \in Requests \ {r} : request'[t] = request[t]
      BY <1>2, <3>1 DEF HandlerStep, Check, NewServiceContext, Subscribe, GetCancel, CallCancel,
                        Unsubscribe, Goto, RequestSet
    <3>3. UNCHANGED <<latest, applied>>
      BY <1>2 DEF HandlerStep, Check, NewServiceContext, Subscribe, GetCancel, CallCancel,
                  Unsubscribe, Rest
    <3>4. QED
      BY <3>2, <3>3 DEF Svc
  <2>2. ASSUME NEW t \in Requests, Live(t)'
        PROVE  Rising(t)'
    <3>1. CASE stream'[t] = stream[t]
      BY <2>1, <2>2, <3>1 DEF OrderInv, Rising, Live
    <3>2. CASE stream'[t] # stream[t]
      <4>1. t = r /\ Subscribe(r) /\ stream' = [stream EXCEPT ![r].at = "receiving"]
            /\ request[r].at = "subscribing"
        BY <1>2, <3>2, Numbers DEF HandlerStep, Check, NewServiceContext, Subscribe, GetCancel,
                  CallCancel, Unsubscribe, Goto, StreamSet, TypeInv, TypeOK
      <4>2. stream[r].at = "none" /\ Svc(r) \in Services
        BY <4>1, Numbers DEF TypeInv, Placed, Live, StreamSet
      <4>3. stream[r].sent = 0 /\ stream[r].chan = <<>>
        BY <4>1, <4>2 DEF TypeInv, Placed
      <4>4. stream'[r].sent = 0 /\ stream'[r].chan = <<>> /\ stream'[r].at = "receiving"
        BY <4>1, <4>3, Numbers DEF StreamSet
      <4>5. Len(stream'[r].chan) = 0 /\ latest[Svc(r)].version \in Nat
        BY <4>2, <4>4, Numbers
      <4>6. QED
        BY <2>1, <4>1, <4>4, <4>5 DEF Rising
    <3>3. QED
      BY <3>1, <3>2
  <2>3. QED
    BY <2>1, <2>2 DEF OrderInv
<1>3. ASSUME NEW r \in Requests, RecvError(r) \/ Break(r)
      PROVE  OrderInv' /\ applied' = applied
  <2>1. /\ Live(r) /\ UNCHANGED <<request, latest, applied>>
        /\ \A t \in Requests \ {r} : stream'[t] = stream[t]
        /\ \/ ~Live(r)'
           \/ /\ stream'[r].chan = stream[r].chan /\ stream'[r].sent = stream[r].sent
              /\ stream'[r].at = stream[r].at /\ stream'[r].event = stream[r].event
    BY <1>3, Numbers DEF RecvError, Break, Live, Rest, StreamSet
  <2>2. Live(r)' => Rising(r)'
    BY <2>1 DEF OrderInv, Rising, Svc
  <2>3. applied[Svc(r)] <= latest[Svc(r)].version
    BY <2>1, Numbers DEF OrderInv
  <2>4. QED
    BY <2>1, <2>2, <2>3, RisingAlone
<1>4. ASSUME NEW svc \in Services, NEW op \in {"ADDED", "DELETED"}, Change(svc, op)
      PROVE  OrderInv' /\ applied' = applied
  <2>1. /\ UNCHANGED <<request, stream, applied>>
        /\ latest'[svc].version = latest[svc].version + 1
        /\ \A s \in Services \ {svc} : latest'[s] = latest[s]
    BY <1>4 DEF Change, Event, TypeInv, TypeOK
  <2>2. \A s \in Services : latest'[s].version \in Nat /\ latest[s].version <= latest'[s].version
    BY <2>1, Numbers
  <2>3. \A s \in Services : applied'[s] <= latest'[s].version
    BY <2>1, <2>2, Numbers DEF OrderInv
  <2>4. ASSUME NEW r \in Requests, Live(r)'
        PROVE  Rising(r)'
    <3>1. Live(r) /\ Rising(r) /\ Svc(r) \in Services /\ Svc(r)' = Svc(r) /\ stream[r].sent \in Nat
      BY <2>1, <2>4, Numbers DEF OrderInv, Live, Svc
    <3>2. stream[r].sent <= latest'[Svc(r)].version
      BY <2>2, <3>1, Numbers DEF Rising
    <3>3. QED
      BY <2>1, <3>1, <3>2 DEF Rising
  <2>5. QED
    BY <2>1, <2>3, <2>4 DEF OrderInv
<1>5. CASE UNCHANGED vars
  BY <1>0, <1>5 DEF vars, OrderInv, Rising, Live, Svc
<1>6. QED
  BY <1>0, <1>1, <1>2, <1>3, <1>4, <1>5, RecvRising, SendRising, ApplyRising DEF Next, ReceiverStep

(* The endpoints of a service never go back to an older state, if POSTs of *)
(* a service are awaited: no two goroutines ever apply events to one entry *)
(* of the cache (MeshClient.Subscribe).                                    *)
THEOREM CacheNeverBackwards ==
    ASSUME SerialPosts = TRUE
    PROVE  Spec => NeverBackwards
<1>1. Init => OwnInv /\ OrderInv
  <2>1. Init => OwnInv
    BY DEF Init, OwnInv, Early, Owns, Live, NoRequest, NoStream
  <2>2. Init => OrderInv
    BY DEF Init, OrderInv, Live, NoStream, Event
  <2>3. QED
    BY <2>1, <2>2
<1>2. TypeInv /\ OwnInv /\ [Next]_vars => OwnInv'
  BY OwnKept
<1>3. TypeInv /\ OwnInv /\ OrderInv /\ [Next]_vars => OrderInv'
  BY OrderKept
<1>4. TypeInv /\ OwnInv /\ OrderInv /\ [Next]_vars
        => [\A svc \in Services : applied'[svc] >= applied[svc]]_vars
  BY OrderKept
<1>5. QED
  BY <1>1, <1>2, <1>3, <1>4, Types, PTL DEF Spec, NeverBackwards

-----------------------------------------------------------------------------
(* What a DELETE reaches *)

(* A DELETE that found a cancel function, and has called it. *)
CancelCalled(d) == request[d].at \in {"removing", "ok"} /\ request[d].found # None

(* What a DELETE found is what the map has for good, for nothing is taken  *)
(* out of the map and only a service without a context is given one.       *)
FoundInv ==
    \A d \in Requests : request[d].found # None =>
        /\ request[d].at \in {"cancelling", "removing", "ok"}
        /\ Svc(d) \in DOMAIN ctxMap /\ ctxMap[Svc(d)] = request[d].found
        /\ CancelCalled(d) => request[d].found \in cancelled

EveryStreamCancelled ==
    \A d, r \in Requests :
        CancelCalled(d) /\ Svc(d) = Svc(r) /\ Live(r) => r \in cancelled

NoneStarts ==
    \A d, r \in Requests :
        CancelCalled(d) /\ Svc(d) = Svc(r) /\ ~Live(r) => ~Live(r)'

NoStreamAfterDelete == [][NoneStarts]_vars

(* Of a step that touches one request's record. *)
LEMMA FoundAlone ==
    ASSUME FoundInv, NEW r \in Requests,
           \A d \in Requests \ {r} : request'[d] = request[d],
           \A s \in DOMAIN ctxMap : s \in DOMAIN ctxMap' /\ ctxMap'[s] = ctxMap[s],
           cancelled \subseteq cancelled',
           request'[r].found # None =>
               /\ request'[r].at \in {"cancelling", "removing", "ok"}
               /\ Svc(r)' \in DOMAIN ctxMap' /\ ctxMap'[Svc(r)'] = request'[r].found
               /\ CancelCalled(r)' => request'[r].found \in cancelled'
    PROVE  FoundInv'
<1>1. ASSUME NEW d \in Requests \ {r}, request'[d].found # None
      PROVE  /\ request'[d].at \in {"cancelling", "removing", "ok"}
             /\ Svc(d)' \in DOMAIN ctxMap' /\ ctxMap'[Svc(d)'] = request'[d].found
             /\ CancelCalled(d)' => request'[d].found \in cancelled'
  BY <1>1 DEF FoundInv, Svc, CancelCalled
<1>2. QED
  BY <1>1 DEF FoundInv, Svc

LEMMA FoundKept ==
    ASSUME TypeInv, OwnInv, FoundInv, [Next]_vars
    PROVE  FoundInv'
<1>0. request \in [Requests -> RequestSet] /\ None \notin Requests
  BY SubscriptionAssumption DEF TypeInv, TypeOK, RequestSet
<1>1. ASSUME NEW r \in Requests, NEW svc \in Services, Post(r, svc) \/ Delete(r, svc)
      PROVE  FoundInv'
  <2>1. PICK at \in {"post", "delete"} : request' = [request EXCEPT ![r].at = at, ![r].svc = svc]
    BY <1>1 DEF Post, Delete
  <2>2. /\ request[r].found = None /\ UNCHANGED <<ctxMap, cancelled>>
        /\ request'[r].found = request[r].found
        /\ \A d \in Requests \ {r} : request'[d] = request[d]
    BY <1>0, <1>1, <2>1 DEF Post, Delete, FoundInv, RequestSet
  <2>3. QED
    BY <2>2, FoundAlone
<1>2. ASSUME NEW r \in Requests, HandlerStep(r)
      PROVE  FoundInv'
  <2>0. /\ request'[r].svc = request[r].svc
        /\ \A d \in Requests \ {r} : request'[d] = request[d]
    BY <1>0, <1>2 DEF HandlerStep, Check, NewServiceContext, Subscribe, GetCancel, CallCancel,
                      Unsubscribe, Goto, RequestSet
  <2>1. CASE Check(r) \/ Subscribe(r)
    <3>1. /\ request[r].at \in {"post", "subscribing"} /\ request'[r].found = request[r].found
          /\ UNCHANGED <<ctxMap, cancelled>>
      BY <1>0, <2>1 DEF Check, Subscribe, Goto, RequestSet
    <3>2. request'[r].found = None
      BY <3>1 DEF FoundInv
    <3>3. QED
      BY <2>0, <3>1, <3>2, FoundAlone
  <2>2. CASE NewServiceContext(r)
    <3>1. /\ request[r].at = "checked" /\ request'[r].found = request[r].found
          /\ Svc(r) \notin DOMAIN ctxMap /\ UNCHANGED cancelled
          /\ DOMAIN ctxMap' = DOMAIN ctxMap \cup {Svc(r)}
          /\ \A s \in DOMAIN ctxMap : ctxMap'[s] = ctxMap[s]
      BY <1>0, <2>2 DEF NewServiceContext, Goto, RequestSet, OwnInv
    <3>2. request'[r].found = None
      BY <3>1 DEF FoundInv
    <3>3. QED
      BY <2>0, <3>1, <3>2, FoundAlone
  <2>3. CASE GetCancel(r)
    <3>1. /\ request[r].at = "delete" /\ UNCHANGED <<ctxMap, cancelled>>
          /\ \/ /\ request'[r].at = "cancelling" /\ request'[r].found = ctxMap[Svc(r)]
                /\ Svc(r) \in DOMAIN ctxMap
             \/ request'[r].found = request[r].found
      BY <1>0, <2>3 DEF GetCancel, Existed, RequestSet
    <3>2. request[r].found = None
      BY <3>1 DEF FoundInv
    <3>3. QED
      BY <2>0, <3>1, <3>2, FoundAlone DEF CancelCalled, Svc
  <2>4. CASE CallCancel(r)
    <3>1. /\ request[r].at = "cancelling" /\ request'[r].at = "removing"
          /\ request'[r].found = request[r].found /\ UNCHANGED ctxMap
          /\ cancelled' = cancelled \cup {request[r].found}
      BY <1>0, <2>4 DEF CallCancel, Goto, RequestSet
    <3>2. request[r].found # None
      BY <1>0, <3>1 DEF TypeInv, Placed
    <3>3. Svc(r)' = Svc(r) /\ Svc(r) \in DOMAIN ctxMap /\ ctxMap[Svc(r)] = request[r].found
      BY <2>0, <3>2 DEF FoundInv, Svc
    <3>4. QED
      BY <2>0, <3>1, <3>3, FoundAlone
  <2>5. CASE Unsubscribe(r)
    <3>1. /\ request[r].at = "removing" /\ request'[r].at = "ok"
          /\ request'[r].found = request[r].found /\ UNCHANGED <<ctxMap, cancelled>>
      BY <1>0, <2>5 DEF Unsubscribe, Goto, RequestSet
    <3>2. Svc(r)' = Svc(r)
      BY <2>0 DEF Svc
    <3>3. request[r].found # None => Svc(r) \in DOMAIN ctxMap /\ ctxMap[Svc(r)] = request[r].found
                                       /\ request[r].found \in cancelled
      BY <3>1 DEF FoundInv, CancelCalled
    <3>4. QED
      BY <2>0, <3>1, <3>2, <3>3, FoundAlone
  <2>6. QED
    BY <1>2, <2>1, <2>2, <2>3, <2>4, <2>5 DEF HandlerStep
<1>3. CASE UNCHANGED <<request, ctxMap, cancelled>>
  BY <1>3 DEF FoundInv, Svc, CancelCalled
<1>4. ASSUME NEW r \in Requests, ReceiverStep(r) \/ Send(r) \/ Break(r)
      PROVE  UNCHANGED <<request, ctxMap, cancelled>>
  BY <1>4 DEF ReceiverStep, Recv, RecvError, Apply, Send, Break
<1>5. ASSUME NEW svc \in Services, NEW op \in {"ADDED", "DELETED"}, Change(svc, op)
      PROVE  UNCHANGED <<request, ctxMap, cancelled>>
  BY <1>5 DEF Change
<1>6. QED
  BY <1>1, <1>2, <1>3, <1>4, <1>5 DEF Next, vars

LEMMA Reached ==
    ASSUME OwnInv, FoundInv
    PROVE  EveryStreamCancelled
BY DEF OwnInv, Owns, FoundInv, CancelCalled, EveryStreamCancelled

(* A stream starts for the request that owns the context, which is the     *)
(* cancelled one.                                                          *)
LEMMA NoneStartsStep ==
    ASSUME TypeInv, OwnInv, FoundInv, [Next]_vars
    PROVE  NoneStarts
<1> SUFFICES ASSUME NEW d \in Requests, NEW r \in Requests,
                    CancelCalled(d), Svc(d) = Svc(r), ~Live(r), Live(r)'
             PROVE  FALSE
  BY DEF NoneStarts
<1>0. request \in [Requests -> RequestSet] /\ stream \in [Requests -> StreamSet]
  BY DEF TypeInv, TypeOK, RequestSet, StreamSet
<1>1. stream'[r] # stream[r]
  BY DEF Live
<1>2. PICK t \in Requests : HandlerStep(t) \/ ReceiverStep(t) \/ Send(t) \/ Break(t)
  BY <1>1 DEF Next, vars, Post, Delete, Change
<1>3. t = r
  BY <1>0, <1>1, <1>2 DEF HandlerStep, Check, NewServiceContext, Subscribe, GetCancel, CallCancel,
                          Unsubscribe, Rest, ReceiverStep, Recv, RecvError, Apply, Send, Break
<1>4. HandlerStep(r)
  BY <1>2, <1>3 DEF ReceiverStep, Recv, RecvError, Apply, Send, Break, Live
<1>5. Subscribe(r)
  BY <1>1, <1>4 DEF HandlerStep, Check, NewServiceContext, GetCancel, CallCancel, Unsubscribe, Rest
<1>6. r \notin cancelled /\ request[r].at = "subscribing"
  BY <1>1, <1>5 DEF Subscribe, Goto
<1>7. ctxMap[Svc(r)] = r
  BY <1>6 DEF OwnInv, Owns
<1>8. ctxMap[Svc(d)] \in cancelled
  BY DEF FoundInv, CancelCalled
<1>9. QED
  BY <1>6, <1>7, <1>8

LEMMA DeleteInvariant ==
    ASSUME SerialPosts = TRUE
    PROVE  Spec => [](OwnInv /\ FoundInv)
<1>1. Init => OwnInv /\ FoundInv
  BY DEF Init, OwnInv, FoundInv, Early, Owns, Live, NoRequest, NoStream
<1>2. TypeInv /\ OwnInv /\ FoundInv /\ [Next]_vars => OwnInv' /\ FoundInv'
  BY OwnKept, FoundKept
<1>3. QED
  BY <1>1, <1>2, Types, PTL DEF Spec

(* What UnsubscribeEnds rests on: once a DELETE has called the cancel      *)
(* function it found, every stream of the service that still lives is      *)
(* cancelled, the one of a POST that came between its steps included       *)
(* (unsubscribe, handlers.go:71).                                          *)
THEOREM DeleteReachesEveryStream ==
    ASSUME SerialPosts = TRUE
    PROVE  Spec => []EveryStreamCancelled
<1>1. OwnInv /\ FoundInv => EveryStreamCancelled
  BY Reached
<1>2. QED
  BY <1>1, DeleteInvariant, PTL

(* And no stream of that service starts any more: a POST that made its     *)
(* context before fails, and a later one is refused (MeshClient.Subscribe, *)
(* subscribeChain).                                                        *)
THEOREM DeleteIsFinal ==
    ASSUME SerialPosts = TRUE
    PROVE  Spec => NoStreamAfterDelete
<1>1. TypeInv /\ OwnInv /\ FoundInv /\ [Next]_vars => [NoneStarts]_vars
  BY NoneStartsStep
<1>2. QED
  BY <1>1, DeleteInvariant, Types, PTL DEF Spec, NoStreamAfterDelete
=============================================================================
