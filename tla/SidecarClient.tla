---------------------------- MODULE SidecarClient ----------------------------
(***************************************************************************)
(* The subscriptions of a sidecar: internal/cli/stgsvr answers POST and    *)
(* DELETE /service/:svc-name, each request in a goroutine of its own, and  *)
(* keeps the cancel function of each service's context; MeshClient of      *)
(* internal/cli/rpcclient opens a stream to the control plane, and a       *)
(* goroutine of the stream applies the events to the service cache from    *)
(* which the proxy reads endpoints.                                        *)
(*                                                                         *)
(* The map of cancel functions and the cache have a lock each: a call of   *)
(* either is a step.  The context, the stream and the goroutine a POST     *)
(* makes are known by the request.                                         *)
(***************************************************************************)
EXTENDS Naturals, Sequences, Functions

CONSTANTS
    Services,
    Requests,      (* HTTP requests, each is made at most once              *)
    SerialPosts,   (* does the client await the answer to a POST before it  *)
                   (* makes another for the same service?                   *)
    MaxChanges,    (* bound: changes of a service in the control plane      *)
    None

ASSUME SubscriptionAssumption ==
    /\ SerialPosts \in BOOLEAN
    /\ MaxChanges \in Nat
    /\ None \notin Services \cup Requests

VARIABLES
    request,    (* request -> where its handler is                          *)
    ctxMap,     (* ServiceContext: service -> request that made its context *)
    cancelled,  (* the requests whose contexts were cancelled               *)
    stream,     (* request -> its stream and the goroutine that reads it    *)
    cache,      (* ServiceCache: service -> version of its endpoints        *)
    latest,     (* service -> what the control plane knows: its latest      *)
                (* event, numbered                                          *)
    applied     (* service -> number of the event last applied to the cache *)
                (* (an observer)                                            *)

vars == <<request, ctxMap, cancelled, stream, cache, latest, applied>>

(* onAdd and onUpdate overwrite the entry alike: "ADDED" stands for both.  *)
Event(v, op) == [version |-> v, op |-> op]

Goto(r, from, to) ==
    /\ request[r].at = from
    /\ request' = [request EXCEPT ![r].at = to]

Svc(r) == request[r].svc

Rest == <<cache, latest, applied>>

-----------------------------------------------------------------------------
(* handlers.go *)

Posting(svc) ==
    {r \in Requests : Svc(r) = svc /\ request[r].at \in {"post", "checked", "subscribing"}}

Post(r, svc) ==
    /\ request[r].at = "none"
    /\ SerialPosts => Posting(svc) = {}
    /\ request' = [request EXCEPT ![r].at = "post", ![r].svc = svc]
    /\ UNCHANGED <<ctxMap, cancelled, stream, Rest>>

Delete(r, svc) ==
    /\ request[r].at = "none"
    /\ request' = [request EXCEPT ![r].at = "delete", ![r].svc = svc]
    /\ UNCHANGED <<ctxMap, cancelled, stream, Rest>>

(* Mutated form of Existed: the map is not looked at. *)
ExistedNever(r) == FALSE

(* GetCancel: is there a context of the service? *)
Existed(r) == Svc(r) \in DOMAIN ctxMap

(* subscribeChain answers 400 to a service that has a context already.     *)
Check(r) ==
    /\ Goto(r, "post", IF Existed(r) THEN "refused" ELSE "checked")
    /\ UNCHANGED <<ctxMap, cancelled, stream, Rest>>

NewServiceContext(r) ==
    /\ Goto(r, "checked", "subscribing")
    /\ ctxMap' = [s \in DOMAIN ctxMap \cup {Svc(r)} |-> IF s = Svc(r) THEN r ELSE ctxMap[s]]
    /\ UNCHANGED <<cancelled, stream, Rest>>

(* MeshClient.Subscribe: the stream is opened and its goroutine started;   *)
(* or an error, as when the control plane cannot be reached or the context *)
(* was cancelled meanwhile.  The context stays in the map.                 *)
Subscribe(r) ==
    /\ \/ /\ r \notin cancelled
          /\ Goto(r, "subscribing", "ok")
          /\ stream' = [stream EXCEPT ![r].at = "receiving"]
       \/ Goto(r, "subscribing", "failed") /\ UNCHANGED stream
    /\ UNCHANGED <<ctxMap, cancelled, Rest>>

(* unsubscribe looks the cancel function up and, in further steps, calls   *)
(* it and removes the service from the cache.                              *)
GetCancel(r) ==
    /\ request[r].at = "delete"
    /\ request' = IF Existed(r)
                  THEN [request EXCEPT ![r].at = "cancelling", ![r].found = ctxMap[Svc(r)]]
                  ELSE [request EXCEPT ![r].at = "failed"]
    /\ UNCHANGED <<ctxMap, cancelled, stream, Rest>>

(* Mutated form of CallCancel: the entry is removed from the map, as       *)
(* CancelServiceContext, which nothing calls, would.                       *)
CallCancelAndForget(r) ==
    /\ Goto(r, "cancelling", "removing")
    /\ cancelled' = cancelled \cup {request[r].found}
    /\ ctxMap' = Restrict(ctxMap, DOMAIN ctxMap \ {Svc(r)})
    /\ UNCHANGED <<stream, Rest>>

CallCancel(r) ==
    /\ Goto(r, "cancelling", "removing")
    /\ cancelled' = cancelled \cup {request[r].found}
    /\ UNCHANGED <<ctxMap, stream, Rest>>

Unsubscribe(r) ==
    /\ Goto(r, "removing", "ok")
    /\ cache' = Restrict(cache, DOMAIN cache \ {Svc(r)})
    /\ UNCHANGED <<ctxMap, cancelled, stream, latest, applied>>

-----------------------------------------------------------------------------
(* client.go: the goroutine of a stream *)

(* Recv may return what had arrived before the context was cancelled or    *)
(* the stream broke.                                                       *)
Recv(r) ==
    /\ stream[r].at = "receiving"
    /\ stream[r].chan # <<>>
    /\ stream' = [stream EXCEPT ![r].at = "applying", ![r].chan = Tail(@),
                                ![r].event = Head(stream[r].chan)]
    /\ UNCHANGED <<request, ctxMap, cancelled, Rest>>

(* Mutated form of RecvError: the cancelled context is not looked at. *)
RecvErrorBroken(r) ==
    /\ stream[r].at = "receiving"
    /\ stream[r].broken
    /\ stream' = [stream EXCEPT ![r].at = "ended", ![r].chan = <<>>]
    /\ UNCHANGED <<request, ctxMap, cancelled, Rest>>

(* Recv fails and the goroutine ends; nothing opens the stream again. *)
RecvError(r) ==
    /\ stream[r].at = "receiving"
    /\ stream[r].broken \/ r \in cancelled
    /\ stream' = [stream EXCEPT ![r].at = "ended", ![r].chan = <<>>]
    /\ UNCHANGED <<request, ctxMap, cancelled, Rest>>

(* Mutated form of Store: DELETED leaves an entry with no endpoints.       *)
StoreEmpty(svc, e) ==
    cache' = [s \in DOMAIN cache \cup {svc} |->
                IF s # svc THEN cache[s] ELSE IF e.op = "ADDED" THEN e.version ELSE 0]

(* onAdd, onUpdate or onDelete of the service cache. *)
Store(svc, e) ==
    cache' = IF e.op = "ADDED"
             THEN [s \in DOMAIN cache \cup {svc} |-> IF s = svc THEN e.version ELSE cache[s]]
             ELSE Restrict(cache, DOMAIN cache \ {svc})

Apply(r) ==
    /\ stream[r].at = "applying"
    /\ Store(Svc(r), stream[r].event)
    /\ applied' = [applied EXCEPT ![Svc(r)] = stream[r].event.version]
    /\ stream' = [stream EXCEPT ![r].at = "receiving", ![r].event = None]
    /\ UNCHANGED <<request, ctxMap, cancelled, latest>>

-----------------------------------------------------------------------------
(* The control plane and the network. *)

(* The service changes, or loses its last endpoints. *)
Change(svc, op) ==
    /\ latest[svc].version < MaxChanges
    /\ latest' = [latest EXCEPT ![svc] = Event(@.version + 1, op)]
    /\ UNCHANGED <<request, ctxMap, cancelled, stream, cache, applied>>

(* Events are sent to a stream in order, and some never (Distribution); a  *)
(* repeated one would change nothing and is left out.                      *)
Send(r) ==
    /\ stream[r].at \in {"receiving", "applying"}
    /\ ~stream[r].broken
    /\ stream[r].sent < latest[Svc(r)].version
    /\ stream' = [stream EXCEPT ![r].chan = Append(@, latest[Svc(r)]),
                                ![r].sent = latest[Svc(r)].version]
    /\ UNCHANGED <<request, ctxMap, cancelled, Rest>>

(* The control plane goes away or ends the call. *)
Break(r) ==
    /\ stream[r].at \in {"receiving", "applying"}
    /\ ~stream[r].broken
    /\ stream' = [stream EXCEPT ![r].broken = TRUE]
    /\ UNCHANGED <<request, ctxMap, cancelled, Rest>>

NoRequest == [at |-> "none", svc |-> None, found |-> None]
NoStream  == [at |-> "none", chan |-> <<>>, event |-> None, sent |-> 0, broken |-> FALSE]

Init ==
    /\ request = [r \in Requests |-> NoRequest]
    /\ ctxMap = [s \in {} |-> None]
    /\ cancelled = {}
    /\ stream = [r \in Requests |-> NoStream]
    /\ cache = [s \in {} |-> None]
    /\ latest = [s \in Services |-> Event(0, "DELETED")]
    /\ applied = [s \in Services |-> 0]

HandlerStep(r) ==
    \/ Check(r)
    \/ NewServiceContext(r)
    \/ Subscribe(r)
    \/ GetCancel(r)
    \/ CallCancel(r)
    \/ Unsubscribe(r)

ReceiverStep(r) == Recv(r) \/ RecvError(r) \/ Apply(r)

Next ==
    \/ \E r \in Requests, svc \in Services : Post(r, svc) \/ Delete(r, svc)
    \/ \E r \in Requests : HandlerStep(r) \/ ReceiverStep(r)
    \/ \E svc \in Services, op \in {"ADDED", "DELETED"} : Change(svc, op)
    \/ \E r \in Requests : Send(r) \/ Break(r)

(* Goroutines run.  Nobody need make a request or send an event. *)
Fairness == \A r \in Requests : WF_vars(HandlerStep(r)) /\ WF_vars(ReceiverStep(r))

Spec     == Init /\ [][Next]_vars
FairSpec == Spec /\ Fairness

-----------------------------------------------------------------------------
(* Properties *)

EventSet == [version : 1 .. MaxChanges, op : {"ADDED", "DELETED"}]

TypeOK ==
    /\ request \in [Requests ->
          [at    : {"none", "post", "checked", "subscribing", "delete", "cancelling",
                    "removing", "refused", "failed", "ok"},
           svc   : Services \cup {None},
           found : Requests \cup {None}]]
    /\ DOMAIN ctxMap \subseteq Services /\ Range(ctxMap) \subseteq Requests
    /\ cancelled \subseteq Requests
    /\ stream \in [Requests ->
          [at     : {"none", "receiving", "applying", "ended"},
           chan   : Seq(EventSet),
           event  : EventSet \cup {None},
           sent   : 0 .. MaxChanges,
           broken : BOOLEAN]]
    /\ DOMAIN cache \subseteq Services /\ Range(cache) \subseteq 1 .. MaxChanges
    /\ latest \in [Services -> EventSet \cup {Event(0, "DELETED")}]
    /\ applied \in [Services -> 0 .. MaxChanges]

Live(r) == stream[r].at \in {"receiving", "applying"}

(* A stream that can still change the cache belongs to the context that    *)
(* the map has for its service, or that context was cancelled: if the      *)
(* POSTs of a service are awaited (SerialPosts), DELETE can reach every    *)
(* stream it should end, whatever other requests come together.  POSTs     *)
(* that overlap both pass the check of handlers.go:32 and the second       *)
(* overwrites the entry of the first: MCSidecarClientRace has them.        *)
StreamsCancellable ==
    SerialPosts => \A r \in Requests :
        Live(r) /\ r \notin cancelled => Svc(r) \in DOMAIN ctxMap /\ ctxMap[Svc(r)] = r

(* The endpoints of a service never go back to an older state, though a    *)
(* goroutine whose context was cancelled may still have an event to apply  *)
(* while requests subscribe and unsubscribe.                               *)
NeverBackwards == [][\A svc \in Services : applied'[svc] >= applied[svc]]_vars

(* Unsubscribing cancels the context of the subscription (comment at       *)
(* service_context.go:5): once a DELETE has called the cancel function it  *)
(* found, every stream of the service comes to an end.                     *)
UnsubscribeEnds ==
    \A r \in Requests :
        Live(r) /\ (\E d \in Requests : request[d].at = "removing" /\ Svc(d) = Svc(r))
            ~> stream[r].at = "ended"
=============================================================================
