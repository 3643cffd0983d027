----------------------------- MODULE GrpcServer -----------------------------
(***************************************************************************)
(* The distribution of endpoints by the control plane: the informer of     *)
(* EndpointSlices calls EndpointSliceReconciler, which updates the cache   *)
(* and publishes the merged slice of the service; GrpcServer hands it to a *)
(* subscribed sidecar through a bounded channel, which the goroutine of    *)
(* the sidecar's Subscribe call sends to the client.  ListenAndServe marks *)
(* the server ready and serves; a goroutine of its own closes all channels *)
(* when the context is cancelled, and waits for the calls to end.          *)
(*                                                                         *)
(* GrpcServer.mtx guards the map of sidecars and Sidecar.informerMtx a     *)
(* channel and its closed flag.  A section under a lock is one step, but   *)
(* for the two that meet at informerMtx: Informer looks at the flag in one *)
(* step and sends in another, and the shutdown goroutine, which has mtx    *)
(* meanwhile, closes no channel that is being sent to.  ready is read with *)
(* and without the lock.                                                   *)
(*                                                                         *)
(* An endpoint has a TargetRef: newClientSubscriptionEvent (sidecar.go:79) *)
(* would panic at one that has none, which endpoints of pods never lack.   *)
(***************************************************************************)
EXTENDS EndpointSlices, Sequences

CONSTANTS
    Slices, Services, Endpoints,
    LabelsOf,      (* slice -> the services its label may name              *)
    Streams,       (* Subscribe calls                                       *)
    IdOf,          (* stream -> SidecarId, --uid of the sidecar             *)
    ServiceOf,     (* stream -> the service it subscribes to                *)
    Capacity,      (* channelCapacity, 100 in the code                      *)
    ListFnSet,     (* is GrpcServer.listFn set?  Nothing in src/ sets it    *)
    EarlyCancel,   (* may the context be cancelled before the server serves *)
    MaxChanges,    (* bound: changes of slices                              *)
    None

ASSUME ServerAssumption ==
    /\ LabelsOf \in [Slices -> SUBSET Services]
    /\ ServiceOf \in [Streams -> Services]
    /\ DOMAIN IdOf = Streams
    /\ Capacity \in Nat \ {0}
    /\ ListFnSet \in BOOLEAN /\ EarlyCancel \in BOOLEAN
    /\ MaxChanges \in Nat
    /\ None \notin Streams

VARIABLES
    slices,     (* slice -> [svc, eps] as last reported, or None            *)
    cache,      (* EndpointSliceCache                                       *)
    history,    (* service -> the endpoints it had, oldest first, for the   *)
                (* properties and the bound                                 *)
    task,       (* the event the informer's goroutine publishes             *)
    sidecars,   (* GrpcServer.sidecars: id -> stream                        *)
    stream,     (* stream -> its Subscribe call and its Sidecar             *)
    ready,      (* GrpcServer.ready                                         *)
    main,       (* where ListenAndServe is                                  *)
    stopper,    (* where its shutdown goroutine is                          *)
    cancelled,  (* the context                                              *)
    panicked    (* why the process ended, or "no"                           *)

vars == <<slices, cache, history, task, sidecars, stream, ready, main, stopper,
          cancelled, panicked>>

known  == <<slices, cache, history>>
server == <<ready, main, stopper, cancelled>>

(* A message has the number of the state it tells of. *)
Message(op, svc) ==
    [op |-> op, eps |-> GetMerged(cache', svc), version |-> Len(history'[svc])]

Snapshot(svc) ==
    [op |-> "ADDED", eps |-> GetMerged(cache, svc), version |-> Len(history[svc])]

ToldOf(m) == [version |-> m.version, eps |-> m.eps]

-----------------------------------------------------------------------------
(* internal/ctrl/utils/sidecar.go *)

(* Mutated form of Offered: the channel has no bound. *)
OfferedUnbounded(chan, m) == Append(chan, m)

(* A full channel skips the message. *)
Offered(chan, m) == IF Len(chan) < Capacity THEN Append(chan, m) ELSE chan

(* The goroutine that publishes is in Informer and has informerMtx of s. *)
Sending(s) == task.at = "sending" /\ task.target = s

-----------------------------------------------------------------------------
(* endpointslice_reconciler.go, called by the informer's goroutine, one    *)
(* report at a time.                                                       *)

NoTask == [at |-> "idle", svc |-> None, message |-> None, target |-> None]

Publish(svc, m) == task' = [at |-> "publish", svc |-> svc, message |-> m, target |-> None]

Noted(svc) ==
    /\ Len(history[svc]) < MaxChanges
    /\ history' = [history EXCEPT ![svc] = Append(@, GetMerged(cache', svc))]

OnAdded(n, es) ==
    /\ slices[n] = None
    /\ cache' = SliceAdded(cache, n, es)
    /\ Noted(es.svc)
    /\ Publish(es.svc, Message("ADDED", es.svc))
    /\ UNCHANGED panicked

OnUpdated(n, es) ==
    LET svc == slices[n].svc
    IN  /\ slices[n] # None
        /\ cache' = SliceUpdated(cache, n, slices[n], es)
        /\ Noted(svc)
        /\ Publish(svc, Message("MODIFIED", svc))
        /\ UNCHANGED panicked

(* The cache panics at the last slice of a service, so deleteAll is never  *)
(* reported and DELETED never published; a service that is not cached is   *)
(* not published.                                                          *)
OnDeleted(n) ==
    LET old == slices[n]
    IN  /\ old # None
        /\ \/ /\ ReadsNil(cache, n, old)
              /\ panicked' = "nil service"
              /\ UNCHANGED <<cache, history, task>>
           \/ /\ old.svc \in DOMAIN cache
              /\ ~ReadsNil(cache, n, old)
              /\ cache' = SliceDeleted(cache, n, old)
              /\ Noted(old.svc)
              /\ Publish(old.svc, Message("MODIFIED", old.svc))
              /\ UNCHANGED panicked
           \/ /\ old.svc \notin DOMAIN cache
              /\ UNCHANGED <<cache, history, task, panicked>>

(* The informer reports slice n as es, or gone. *)
Report(n, es) ==
    /\ task = NoTask
    /\ slices' = [slices EXCEPT ![n] = es]
    /\ \/ es # None /\ OnAdded(n, es)
       \/ es # None /\ OnUpdated(n, es)
       \/ es = None /\ OnDeleted(n)
    /\ UNCHANGED <<sidecars, stream, server>>

(* The shutdown goroutine has mtx while it closes the receivers. *)
MtxFree == stopper # "closing"

(* GetSidecar: any one of the sidecars that subscribed to the service.     *)
GetSidecar ==
    LET matching == {s \in Range(sidecars) : ServiceOf[s] = task.svc}
    IN  /\ task.at = "publish"
        /\ MtxFree
        /\ \/ \E s \in matching : task' = [task EXCEPT !.at = "inform", !.target = s]
           \/ matching = {} /\ task' = NoTask
        /\ UNCHANGED <<known, sidecars, stream, server, panicked>>

(* Sidecar.Informer locks informerMtx and looks at the closed flag ...     *)
Informer ==
    /\ task.at = "inform"
    /\ task' = IF stream[task.target].closed THEN NoTask ELSE [task EXCEPT !.at = "sending"]
    /\ UNCHANGED <<known, sidecars, stream, server, panicked>>

(* ... and sends; the send panics if the channel was closed since.         *)
Offer ==
    /\ task.at = "sending"
    /\ IF stream[task.target].closed
       THEN panicked' = "send on closed channel" /\ UNCHANGED stream
       ELSE /\ stream' = [stream EXCEPT ![task.target].chan = Offered(@, task.message)]
            /\ UNCHANGED panicked
    /\ task' = NoTask
    /\ UNCHANGED <<known, sidecars, server>>

-----------------------------------------------------------------------------
(* server.go: Subscribe *)

Move(s, from, to) ==
    /\ stream[s].at = from
    /\ stream' = [stream EXCEPT ![s].at = to]

Register(s) == sidecars' = [i \in DOMAIN sidecars \cup {IdOf[s]} |->
                              IF i = IdOf[s] THEN s ELSE sidecars[i]]

(* A client calls; a stopping server takes no new calls. *)
Call(s) ==
    /\ main = "serving"
    /\ stopper # "stopping"
    /\ Move(s, "none", "called")
    /\ UNCHANGED <<known, task, sidecars, server, panicked>>

(* Mutated form of Check: the sidecar is registered before it is greeted.  *)
CheckAndRegister(s) ==
    /\ Move(s, "called", IF ready THEN "accepted" ELSE "done")
    /\ IF ready THEN Register(s) ELSE UNCHANGED sidecars
    /\ UNCHANGED <<known, task, server, panicked>>

Check(s) ==
    /\ Move(s, "called", IF ready THEN "accepted" ELSE "done")
    /\ UNCHANGED <<known, task, sidecars, server, panicked>>

(* listFn: its type says what it returns, the slice of the service if      *)
(* there is one; a nil function panics.                                    *)
ListFn(s) ==
    /\ stream[s].at = "accepted"
    /\ IF ListFnSet
       THEN /\ stream' = [stream EXCEPT ![s].at = "listed",
                             ![s].snapshot = IF ServiceOf[s] \in DOMAIN cache
                                             THEN <<Snapshot(ServiceOf[s])>> ELSE <<>>]
            /\ UNCHANGED panicked
       ELSE panicked' = "nil listFn" /\ UNCHANGED stream
    /\ UNCHANGED <<known, task, sidecars, server>>

(* Nobody else has the sidecar yet, so Informer is one step here. *)
Greet(s) ==
    /\ stream[s].at = "listed"
    /\ stream' = [stream EXCEPT ![s].at = "greeted", ![s].snapshot = <<>>,
                     ![s].chan = IF stream[s].snapshot = <<>> THEN @
                                 ELSE Offered(@, Head(stream[s].snapshot))]
    /\ UNCHANGED <<known, task, sidecars, server, panicked>>

(* Mutated form of Enter: ready is not looked at again. *)
EnterUnchecked(s) ==
    /\ MtxFree
    /\ Move(s, "greeted", "receiving")
    /\ Register(s)
    /\ UNCHANGED <<known, task, server, panicked>>

(* The section under mtx: ready is looked at again, and the sidecar takes  *)
(* the place of any other with its id.                                     *)
Enter(s) ==
    /\ MtxFree
    /\ \/ ready /\ Move(s, "greeted", "receiving") /\ Register(s)
       \/ ~ready /\ Move(s, "greeted", "done") /\ UNCHANGED sidecars
    /\ UNCHANGED <<known, task, server, panicked>>

(* A message is sent, or the connection is found broken. *)
Send(s) ==
    LET chan == stream[s].chan
    IN  /\ stream[s].at = "receiving"
        /\ chan # <<>>
        /\ stream' = IF stream[s].broken THEN [stream EXCEPT ![s].at = "leaving"]
                     ELSE [stream EXCEPT ![s].chan = Tail(chan),
                                         ![s].told = ToldOf(Head(chan))]
        /\ UNCHANGED <<known, task, sidecars, server, panicked>>

(* The closed channel is empty: the loop ends. *)
EndOfChannel(s) ==
    /\ stream[s].closed /\ stream[s].chan = <<>>
    /\ Move(s, "receiving", "leaving")
    /\ UNCHANGED <<known, task, sidecars, server, panicked>>

(* The deferred delete of whatever has the id now. *)
Leave(s) ==
    /\ MtxFree
    /\ Move(s, "leaving", "done")
    /\ sidecars' = Restrict(sidecars, DOMAIN sidecars \ {IdOf[s]})
    /\ UNCHANGED <<known, task, server, panicked>>

(* The client goes away; the server finds out when it sends.               *)
Disconnect(s) ==
    /\ stream[s].at # "none" /\ ~stream[s].broken
    /\ stream' = [stream EXCEPT ![s].broken = TRUE]
    /\ UNCHANGED <<known, task, sidecars, server, panicked>>

-----------------------------------------------------------------------------
(* server.go: ListenAndServe *)

StoreReady ==
    /\ main = "listening"
    /\ main' = "ready"
    /\ ready' = TRUE
    /\ UNCHANGED <<known, task, sidecars, stream, stopper, cancelled, panicked>>

(* Serve returns at once when GracefulStop was called before it. *)
Serve ==
    /\ main = "ready"
    /\ IF stopper = "stopping" THEN main' = "returned" /\ ready' = FALSE
       ELSE main' = "serving" /\ UNCHANGED ready
    /\ UNCHANGED <<known, task, sidecars, stream, stopper, cancelled, panicked>>

MayCancel == EarlyCancel \/ main \in {"serving", "returned"}

Cancel ==
    /\ ~cancelled
    /\ MayCancel
    /\ cancelled' = TRUE
    /\ UNCHANGED <<known, task, sidecars, stream, ready, main, stopper, panicked>>

(* Mutated form of StopTaking: ready stays TRUE. *)
StopTakingReady ==
    /\ cancelled
    /\ stopper = "waiting"
    /\ stopper' = "closing"
    /\ UNCHANGED <<known, task, sidecars, stream, ready, main, cancelled, panicked>>

(* The shutdown goroutine takes mtx and stores FALSE in ready ...          *)
StopTaking ==
    /\ cancelled
    /\ stopper = "waiting"
    /\ stopper' = "closing"
    /\ ready' = FALSE
    /\ UNCHANGED <<known, task, sidecars, stream, main, cancelled, panicked>>

(* Mutated form of CloseReceivers: the channels are left open. *)
CloseNoReceivers ==
    /\ stopper = "closing"
    /\ stopper' = "closed"
    /\ UNCHANGED <<known, task, sidecars, stream, ready, main, cancelled, panicked>>

Closed(who) ==
    [s \in Streams |-> IF s \in who THEN [stream[s] EXCEPT !.closed = TRUE] ELSE stream[s]]

(* Mutated form of CloseReceivers: Close does not take informerMtx. *)
CloseUnlocked ==
    /\ stopper = "closing"
    /\ stopper' = "closed"
    /\ stream' = Closed(Range(sidecars))
    /\ UNCHANGED <<known, task, sidecars, ready, main, cancelled, panicked>>

(* ... and closes what is in the map: Close of a sidecar waits for a send  *)
(* to it.                                                                  *)
CloseReceivers ==
    /\ stopper = "closing"
    /\ ~\E s \in Range(sidecars) : Sending(s)
    /\ stopper' = "closed"
    /\ stream' = Closed(Range(sidecars))
    /\ UNCHANGED <<known, task, sidecars, ready, main, cancelled, panicked>>

GracefulStop ==
    /\ stopper = "closed"
    /\ stopper' = "stopping"
    /\ UNCHANGED <<known, task, sidecars, stream, ready, main, cancelled, panicked>>

(* GracefulStop has waited for every call, and Serve returns. *)
Return ==
    /\ main = "serving"
    /\ stopper = "stopping"
    /\ \A s \in Streams : stream[s].at \in {"none", "done"}
    /\ main' = "returned"
    /\ ready' = FALSE
    /\ UNCHANGED <<known, task, sidecars, stream, stopper, cancelled, panicked>>

Nothing == [version |-> 0, eps |-> {}]

Init ==
    /\ slices = [n \in Slices |-> None]
    /\ cache = [svc \in {} |-> NoSlices]
    /\ history = [svc \in Services |-> <<>>]
    /\ task = NoTask
    /\ sidecars = [i \in {} |-> None]
    /\ stream = [s \in Streams |-> [at |-> "none", chan |-> <<>>, snapshot |-> <<>>,
                                    closed |-> FALSE, broken |-> FALSE, told |-> Nothing]]
    /\ ready = FALSE
    /\ main = "listening"
    /\ stopper = "waiting"
    /\ cancelled = FALSE
    /\ panicked = "no"

SubscribeStep(s) ==
    \/ Check(s)
    \/ ListFn(s)
    \/ Greet(s)
    \/ Enter(s)
    \/ Send(s)
    \/ EndOfChannel(s)
    \/ Leave(s)

InformerStep == GetSidecar \/ Informer \/ Offer

MainStep == StoreReady \/ Serve \/ Return

StopperStep == StopTaking \/ CloseReceivers \/ GracefulStop

EndpointSlice(n) == [svc : LabelsOf[n], eps : SUBSET Endpoints]

Step ==
    \/ \E n \in Slices : \E es \in EndpointSlice(n) \cup {None} : Report(n, es)
    \/ \E s \in Streams : Call(s) \/ SubscribeStep(s) \/ Disconnect(s)
    \/ InformerStep
    \/ MainStep
    \/ StopperStep

(* A panic ends the process. *)
Next == panicked = "no" /\ (Step \/ Cancel)

Running(A) == panicked = "no" /\ A

(* Goroutines run, and a client that stays connected reads what it is      *)
(* sent: Send waits for it when the transport's window is full.            *)
Fairness ==
    /\ \A s \in Streams : WF_vars(Running(SubscribeStep(s)))
    /\ WF_vars(Running(InformerStep))
    /\ WF_vars(Running(MainStep))
    /\ WF_vars(Running(StopperStep))

Spec     == Init /\ [][Next]_vars
FairSpec == Spec /\ Fairness

-----------------------------------------------------------------------------
(* Properties *)

MessageSet == [op : {"ADDED", "MODIFIED"}, eps : SUBSET Endpoints, version : Nat]

Subscription ==
    [at : {"none", "called", "accepted", "listed", "greeted", "receiving", "leaving", "done"},
     chan : Seq(MessageSet), snapshot : Seq(MessageSet),
     closed : BOOLEAN, broken : BOOLEAN, told : [version : Nat, eps : SUBSET Endpoints]]

TaskOK ==
    \/ task = NoTask
    \/ task \in [at : {"publish"}, svc : Services, message : MessageSet, target : {None}]
    \/ task \in [at : {"inform", "sending"}, svc : Services, message : MessageSet, target : Streams]

CacheOK(c) ==
    /\ DOMAIN c \subseteq Services
    /\ \A svc \in DOMAIN c : c[svc] \in [DOMAIN c[svc] -> SUBSET Endpoints]

TypeOK ==
    /\ slices \in [Slices -> [svc : Services, eps : SUBSET Endpoints] \cup {None}]
    /\ CacheOK(cache)
    /\ history \in [Services -> Seq(SUBSET Endpoints)]
    /\ TaskOK
    /\ Range(sidecars) \subseteq Streams
    /\ stream \in [Streams -> Subscription]
    /\ \A s \in Streams : Len(stream[s].chan) <= Capacity
    /\ ready \in BOOLEAN
    /\ cancelled \in BOOLEAN
    /\ main \in {"listening", "ready", "serving", "returned"}
    /\ stopper \in {"waiting", "closing", "closed", "stopping"}

(* The receivers were closed. *)
AllClosed == stopper \in {"closed", "stopping"}

(* No sidecar gets into the map after the receivers were closed: its       *)
(* channel would never be closed (comment at server.go:58).                *)
NoLateSidecar ==
    AllClosed => \A s \in Range(sidecars) : stream[s].closed

(* A publication that looked its sidecar up, or its closed flag, before    *)
(* the receivers were closed does not send on the closed channel.          *)
NoSendOnClosed == panicked # "send on closed channel"

(* A client is told states its service went through, in that order, though *)
(* the snapshot and the publications come from two goroutines, a full      *)
(* channel drops messages and sidecars replace each other.                 *)
Told == [s \in Streams |-> stream[s].told]

Promise == INSTANCE Distribution WITH Clients <- Streams, told <- Told

ImplementsDistribution == Promise!Spec

(* Once the context is cancelled the goroutines of StartUp clean up and    *)
(* exit (comment at startup.go:69): every call ends, so GracefulStop does  *)
(* not wait for ever.                                                      *)
StopCompletes == cancelled ~> main = "returned" \/ panicked # "no"

(* "The current EndpointSlice is sent to the sidecar first, so that it has *)
(* data as soon as possible" (comment at server.go:52): an accepted client *)
(* of a known service hears of it, unless it goes away, the server stops   *)
(* or the cache ends the process.                                          *)
SnapshotFirst ==
    \A s \in Streams :
        stream[s].at = "accepted" /\ ServiceOf[s] \in DOMAIN cache
            ~> stream[s].told # Nothing \/ stream[s].broken \/ cancelled \/ panicked = "nil service"
=============================================================================
