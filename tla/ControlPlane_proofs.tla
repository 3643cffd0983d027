------------------------- MODULE ControlPlane_proofs -------------------------
(***************************************************************************)
(* Proofs about ControlPlane, for any number of requests, subscriptions    *)
(* and services, with and without EarlyCancel: a stop takes the control    *)
(* plane out of traffic first, and readiness tells of a server that takes  *)
(* subscriptions; the distribution goes on as in GrpcServer under the      *)
(* process's signals; and a process told to stop never waits for itself    *)
(* and runs out of steps.                                                  *)
(***************************************************************************)
EXTENDS ControlPlane, GrpcServer_proofs, TLAPS

(* The context is cancelled by a signal or after the HTTPS server ended,   *)
(* and what waits for it goes on when it is cancelled only.                *)
TrafficInv ==
    /\ signals \in Nat
    /\ cancelled => signals > 0 \/ https = "gone"
    /\ stopper # "waiting" => cancelled
    /\ "Run" \notin others => cancelled

Request ==
    [what : {"none", "preStop", "readyz", "mutate"},
     at   : {"none", "handling", "checking", "replying", "answered", "cut"},
     ok   : BOOLEAN]

(* ready is TRUE between Listen and the return of Serve only. *)
ReadyInv ==
    /\ ready \in BOOLEAN
    /\ ready => main \in {"ready", "serving"}
    /\ request \in [Requests -> Request]

LEMMA InitControl == ControlInit => TrafficInv /\ ReadyInv
<1> SUFFICES ASSUME ControlInit PROVE TrafficInv /\ ReadyInv
  OBVIOUS
<1>1. TrafficInv
  BY DEF ControlInit, Init, TrafficInv
<1>2. \A r \in Requests : request[r] = [what |-> "none", at |-> "none", ok |-> TRUE]
  BY DEF ControlInit
<1>3. ReadyInv
  BY <1>2 DEF ControlInit, Init, ReadyInv, Request
<1>4. QED
  BY <1>1, <1>3

(* What a step of the gRPC server does to the goroutines of ListenAndServe. *)
LEMMA StepServer ==
    ASSUME Step
    PROVE  /\ UNCHANGED cancelled
           /\ stopper' = stopper \/ cancelled \/ stopper # "waiting"
           /\ ready' \in BOOLEAN \/ ready' = ready
           /\ ready' => main' \in {"ready", "serving"} \/ (ready /\ main' = main)
<1>1. ASSUME UNCHANGED server
      PROVE  UNCHANGED <<ready, main, stopper, cancelled>>
  BY <1>1 DEF server
<1>2. ASSUME NEW n \in Slices, NEW es, Report(n, es)
      PROVE  UNCHANGED server
  BY <1>2 DEF Report
<1>3. ASSUME NEW s \in Streams, Call(s) \/ SubscribeStep(s) \/ Disconnect(s)
      PROVE  UNCHANGED server
  BY <1>3 DEF Call, SubscribeStep, Check, ListFn, Greet, Enter, Send, EndOfChannel, Leave,
              Disconnect
<1>4. ASSUME InformerStep
      PROVE  UNCHANGED server
  BY <1>4 DEF InformerStep, GetSidecar, Informer, Offer
<1>5. CASE MainStep
  BY <1>5 DEF MainStep, StoreReady, Serve, Return
<1>6. CASE StopperStep
  <2>1. CASE StopTaking
    <3>1. cancelled /\ ready' = FALSE /\ UNCHANGED <<main, cancelled>>
      BY <2>1 DEF StopTaking
    <3>2. QED
      BY <3>1
  <2>2. CASE CloseReceivers \/ GracefulStop
    <3>1. stopper # "waiting" /\ UNCHANGED <<ready, main, cancelled>>
      BY <2>2 DEF CloseReceivers, GracefulStop
    <3>2. QED
      BY <3>1
  <2>3. QED
    BY <1>6, <2>1, <2>2 DEF StopperStep
<1>7. QED
  BY <1>1, <1>2, <1>3, <1>4, <1>5, <1>6 DEF Step

LEMMA TrafficStep == TrafficInv /\ [ControlNext]_everything => TrafficInv'
<1> SUFFICES ASSUME TrafficInv, [ControlNext]_everything PROVE TrafficInv'
  OBVIOUS
<1>1. CASE Step /\ UNCHANGED control
  BY <1>1, StepServer DEF TrafficInv, control
<1>2. ASSUME NEW r \in Requests, NEW what, Accept(r, what) \/ HandlerStep(r)
      PROVE  UNCHANGED <<vars, https, signals, others>>
  BY <1>2 DEF Accept, HandlerStep, PreStop, Readyz, Handle, Reply
<1>3. CASE ShutdownStep
  BY <1>3 DEF ShutdownStep, Shutdown, Drained, TrafficInv, vars
<1>4. CASE HttpsStep \/ ServeFails
  BY <1>4 DEF HttpsStep, ServeReturns, CancelAfterServing, ServeFails, TrafficInv, vars, grpc
<1>5. CASE OtherStep
  BY <1>5 DEF OtherStep, Ends, TrafficInv, vars
<1>6. CASE Signal
  <2> signals \in Nat /\ signals' = signals + 1
    BY <1>6 DEF Signal, TrafficInv
  <2>1. signals' \in Nat /\ signals' > 0
    OBVIOUS
  <2>2. UNCHANGED <<stopper, others>> /\ (cancelled' = TRUE \/ cancelled' = cancelled)
    BY <1>6 DEF Signal
  <2>3. QED
    BY <2>1, <2>2 DEF TrafficInv
<1>7. CASE Exit
  BY <1>7 DEF Exit, TrafficInv, vars
<1>8. CASE UNCHANGED everything
  BY <1>8 DEF everything, vars, control, TrafficInv
<1>9. UNCHANGED <<vars, https, signals, others>> => TrafficInv'
  BY DEF vars, TrafficInv
<1>10. QED
  BY <1>1, <1>2, <1>3, <1>4, <1>5, <1>6, <1>7, <1>8, <1>9 DEF ControlNext

(* Requests that are cut off say nothing any more. *)
LEMMA CutOffKeeps ==
    ASSUME request \in [Requests -> Request], NEW cut, cut = CutOff
    PROVE  /\ cut \in [Requests -> Request]
           /\ \A r \in Requests : cut[r] = request[r] \/ cut[r].at = "cut"
<1>1. ASSUME NEW r \in Requests
      PROVE  cut[r] \in Request /\ (cut[r] = request[r] \/ cut[r].at = "cut")
  <2>1. cut[r] = request[r] \/ cut[r] = [request[r] EXCEPT !.at = "cut"]
    BY DEF CutOff
  <2>2. request[r] \in Request
    OBVIOUS
  <2>3. QED
    BY <2>1, <2>2 DEF Request
<1>2. QED
  BY <1>1 DEF CutOff

LEMMA ReadyStep == ReadyInv /\ [ControlNext]_everything => ReadyInv'
<1> SUFFICES ASSUME ReadyInv, [ControlNext]_everything PROVE ReadyInv'
  OBVIOUS
<1>1. request \in [Requests -> Request] /\ \A r \in Requests : request[r] \in Request
  BY DEF ReadyInv
<1>2. CASE Step /\ UNCHANGED control
  BY <1>2, StepServer DEF ReadyInv, control
<1>3. ASSUME NEW r \in Requests, UNCHANGED <<ready, main>>, NEW q \in Request,
             request' = [request EXCEPT ![r] = q]
      PROVE  ReadyInv'
  BY <1>3 DEF ReadyInv
<1>4. ASSUME NEW r \in Requests, NEW what \in {"preStop", "readyz", "mutate"}, Accept(r, what)
      PROVE  ReadyInv'
  <2> DEFINE q == [what |-> what, at |-> "handling", ok |-> TRUE]
  <2>1. q \in Request
    BY DEF Request
  <2>2. request' = [request EXCEPT ![r] = q] /\ UNCHANGED <<ready, main>>
    BY <1>4 DEF Accept, vars
  <2> HIDE DEF q
  <2>3. QED
    BY <1>3, <2>1, <2>2
<1>5. ASSUME NEW r \in Requests, Readyz(r)
      PROVE  ReadyInv'
  <2>1. UNCHANGED <<ready, main>>
    BY <1>5 DEF Readyz, vars
  <2>2. CASE Asked(r, "readyz") /\ request' = [request EXCEPT ![r].at = "checking", ![r].ok = CheckGrpc]
    <3>1. PICK q : q = [request[r] EXCEPT !.at = "checking", !.ok = CheckGrpc]
      OBVIOUS
    <3>2. request' = [request EXCEPT ![r] = q]
      BY <1>1, <2>2, <3>1
    <3>3. CheckGrpc \in BOOLEAN
      BY DEF CheckGrpc, ReadyInv
    <3>4. QED
      BY <1>1, <1>3, <2>1, <3>1, <3>2, <3>3 DEF Request
  <2>3. ASSUME NEW answers \in BOOLEAN, request[r].at = "checking",
               request' = [request EXCEPT ![r].at = "replying", ![r].ok = @ /\ answers]
        PROVE  ReadyInv'
    <3>1. PICK q : q = [request[r] EXCEPT !.at = "replying", !.ok = @ /\ answers]
      OBVIOUS
    <3>2. request' = [request EXCEPT ![r] = q]
      BY <1>1, <2>3, <3>1
    <3>3. QED
      BY <1>1, <1>3, <2>1, <2>3, <3>1, <3>2 DEF Request, ReadyInv
  <2>4. QED
    BY <1>5, <2>2, <2>3 DEF Readyz
<1>6. ASSUME NEW r \in Requests, PreStop(r) \/ Handle(r) \/ Reply(r)
      PROVE  ReadyInv'
  <2>1. UNCHANGED <<ready, main>>
    BY <1>6 DEF PreStop, Handle, Reply, vars
  <2> DEFINE set(step) == [request[r] EXCEPT !.at = step]
             refused   == [request[r] EXCEPT !.at = "replying", !.ok = FALSE]
  <2>2. \E q \in {set("replying"), set("answered"), refused} : request' = [request EXCEPT ![r] = q]
    BY <1>1, <1>6 DEF PreStop, Handle, Reply, Set
  <2>3. set("replying") \in Request /\ set("answered") \in Request /\ refused \in Request
    BY <1>1 DEF Request
  <2> HIDE DEF set, refused
  <2>4. QED
    BY <1>3, <2>1, <2>2, <2>3
<1>7. ASSUME UNCHANGED <<ready, main>>, request' = request \/ request' = CutOff
      PROVE  ReadyInv'
  BY <1>1, <1>7, CutOffKeeps DEF ReadyInv
<1>8. CASE ShutdownStep \/ HttpsStep \/ ServeFails
  BY <1>7, <1>8 DEF ShutdownStep, Shutdown, Drained, HttpsStep, ServeReturns, CancelAfterServing,
                    ServeFails, vars, grpc
<1>9. CASE OtherStep \/ Signal \/ Exit
  BY <1>7, <1>9 DEF OtherStep, Ends, Signal, Exit, vars
<1>10. CASE UNCHANGED everything
  BY <1>7, <1>10 DEF everything, vars, control
<1>11. QED
  BY <1>2, <1>4, <1>5, <1>6, <1>8, <1>9, <1>10 DEF ControlNext, HandlerStep

(* /preStop takes the control plane out of traffic before anything else is *)
(* ended, in any order of the goroutines of StartUp and with EarlyCancel.  *)
THEOREM TrafficEndsFirst == ControlSpec => []TrafficFirst
<1>1. TrafficInv => TrafficFirst
  BY DEF TrafficInv, TrafficFirst
<1>2. QED
  BY <1>1, InitControl, TrafficStep, PTL DEF ControlSpec

-----------------------------------------------------------------------------
(* The gRPC server under StartUp: what was proved of it alone, where the   *)
(* context is cancelled by nobody in particular, holds when signals and    *)
(* the HTTPS server cancel it and a second signal may end the process.     *)

(* Whatever leads to the end of the context comes no earlier than Cancel   *)
(* of GrpcServer may.                                                      *)
StartedInv ==
    /\ stopCh \/ cancelled \/ shutdown # "waiting" \/ https # "serving" => MayCancel
    /\ \A r \in Requests : request[r].what = "preStop" => MayCancel

LEMMA ServingGoesOn ==
    ASSUME Step
    PROVE  main \in {"serving", "returned"} => main' \in {"serving", "returned"}
<1>1. CASE MainStep
  BY <1>1 DEF MainStep, StoreReady, Serve, Return
<1>2. CASE StopperStep
  BY <1>2 DEF StopperStep, StopTaking, CloseReceivers, GracefulStop
<1>3. ASSUME NEW s \in Streams, Call(s) \/ SubscribeStep(s) \/ Disconnect(s)
      PROVE  UNCHANGED main
  BY <1>3 DEF Call, SubscribeStep, Check, ListFn, Greet, Enter, Send, EndOfChannel, Leave,
              Disconnect, server
<1>4. CASE InformerStep
  BY <1>4 DEF InformerStep, GetSidecar, Informer, Offer, server
<1>5. QED
  BY <1>1, <1>2, <1>3, <1>4 DEF Step, Report, server

LEMMA StartedStep == StartedInv /\ ReadyInv /\ [ControlNext]_everything => StartedInv'
<1> SUFFICES ASSUME StartedInv, ReadyInv, [ControlNext]_everything PROVE StartedInv'
  OBVIOUS
<1>1. request \in [Requests -> Request]
  BY DEF ReadyInv
<1>2. CASE Step /\ UNCHANGED control
  BY <1>2, ServingGoesOn, StepServer DEF StartedInv, MayCancel, control
<1>3. ASSUME UNCHANGED vars,
             \A r \in Requests : request'[r].what \in {request[r].what, "readyz", "mutate"},
             stopCh' \/ shutdown' # "waiting" \/ https' # "serving" => MayCancel
      PROVE  StartedInv'
  BY <1>3 DEF StartedInv, MayCancel, vars
<1>4. ASSUME NEW r \in Requests, NEW what \in {"preStop", "readyz", "mutate"}, Accept(r, what)
      PROVE  StartedInv'
  <2>1. UNCHANGED <<vars, stopCh, shutdown, https>>
    BY <1>4 DEF Accept
  <2>2. \A q \in Requests : request'[q].what = IF q = r THEN what ELSE request[q].what
    BY <1>1, <1>4 DEF Accept
  <2>3. what = "preStop" => MayCancel
    BY <1>4 DEF Accept
  <2>4. QED
    BY <2>1, <2>2, <2>3 DEF StartedInv, MayCancel, vars
<1>5. ASSUME NEW r \in Requests, HandlerStep(r)
      PROVE  StartedInv'
  <2>1. UNCHANGED <<vars, shutdown, https>> /\ (stopCh' => stopCh \/ request[r].what = "preStop")
    BY <1>5 DEF HandlerStep, PreStop, Readyz, Handle, Reply, Asked
  <2>2. \A q \in Requests : request'[q].what = request[q].what
    BY <1>1, <1>5 DEF HandlerStep, PreStop, Readyz, Handle, Reply, Set, Request
  <2>3. QED
    BY <1>3, <2>1, <2>2 DEF StartedInv
<1>6. ASSUME NEW r \in Requests
      PROVE  CutOff[r].what = request[r].what
  BY <1>1 DEF CutOff, Request
<1>7. CASE ShutdownStep
  BY <1>3, <1>6, <1>7 DEF ShutdownStep, Shutdown, Drained, StartedInv
<1>8. CASE ServeReturns \/ ServeFails \/ OtherStep \/ Exit
  BY <1>3, <1>6, <1>8 DEF ServeReturns, ServeFails, OtherStep, Ends, Exit, StartedInv
<1>9. CASE CancelAfterServing \/ Signal
  <2>1. MayCancel /\ UNCHANGED <<main, stopCh, shutdown>>
    BY <1>9 DEF CancelAfterServing, Signal, StartedInv, grpc
  <2>2. \A r \in Requests : request'[r].what = request[r].what
    BY <1>6, <1>9 DEF CancelAfterServing, Signal
  <2>3. QED
    BY <2>1 DEF StartedInv, MayCancel
<1>10. CASE UNCHANGED everything
  BY <1>10 DEF everything, vars, control, StartedInv, MayCancel
<1>11. QED
  BY <1>2, <1>4, <1>5, <1>7, <1>8, <1>9, <1>10 DEF ControlNext, HttpsStep

(* The end of the process by a second signal; the server does nothing.     *)
Killed == panicked' = "second signal" /\ UNCHANGED <<known, task, sidecars, stream, server>>

LEMMA ServerSide ==
    ASSUME StartedInv, ControlNext
    PROVE  Next \/ UNCHANGED vars \/ Killed
<1>1. panicked = "no"
  BY DEF ControlNext
<1>2. CASE Step
  BY <1>1, <1>2 DEF Next
<1>3. CASE CancelAfterServing
  <2>1. MayCancel /\ cancelled' = TRUE /\ UNCHANGED grpc
    BY <1>3 DEF CancelAfterServing, StartedInv
  <2>2. CASE cancelled = TRUE
    BY <2>1, <2>2 DEF grpc, vars, known
  <2>3. CASE cancelled # TRUE
    BY <1>1, <2>1, <2>3 DEF grpc, Next, Cancel
  <2>4. QED
    BY <2>2, <2>3
<1>4. CASE Signal /\ signals = 0
  <2>1. /\ MayCancel /\ cancelled' = TRUE
        /\ UNCHANGED <<known, task, sidecars, stream, ready, main, stopper, panicked>>
    BY <1>4 DEF Signal
  <2>2. CASE cancelled = TRUE
    BY <2>1, <2>2 DEF vars, known
  <2>3. CASE cancelled # TRUE
    BY <1>1, <2>1, <2>3 DEF Next, Cancel
  <2>4. QED
    BY <2>2, <2>3
<1>5. CASE Signal /\ signals # 0
  BY <1>5 DEF Signal, Killed, server
<1>6. QED
  BY <1>2, <1>3, <1>4, <1>5
     DEF ControlNext, Accept, HandlerStep, PreStop, Readyz, Handle, Reply, HttpsStep, ServeReturns,
         ServeFails, ShutdownStep, Shutdown, Drained, OtherStep, Ends, Exit

(* The invariant of the server, until the process is ended. *)
ServerInv ==
    /\ StartedInv /\ ReadyInv
    /\ TypeOK
    /\ panicked \in Reasons \cup {"second signal"}
    /\ panicked = "no" => IInv

LEMMA KilledKeeps == TypeOK /\ Killed => TypeOK' /\ UNCHANGED Promise!vars
BY DEF Killed, TypeOK, TaskOK, CacheOK, known, server, Promise!vars, Told

LEMMA ServerInitial == ControlInit => ServerInv
<1> SUFFICES ASSUME ControlInit PROVE ServerInv
  OBVIOUS
<1>1. IInv
  BY InvInitial DEF ControlInit
<1>2. StartedInv
  BY DEF ControlInit, Init, StartedInv
<1>3. QED
  BY <1>1, <1>2, InitControl DEF ServerInv, IInv

LEMMA ServerStep == ServerInv /\ [ControlNext]_everything => ServerInv'
<1> SUFFICES ASSUME ServerInv, [ControlNext]_everything PROVE ServerInv'
  OBVIOUS
<1>1. StartedInv' /\ ReadyInv'
  BY StartedStep, ReadyStep DEF ServerInv
<1>2. CASE ControlNext /\ ~Killed
  <2>1. IInv
    BY <1>2 DEF ControlNext, ServerInv
  <2>2. IInv'
    BY <1>2, <2>1, ServerSide, InvStep DEF ServerInv
  <2>3. QED
    BY <1>1, <2>2 DEF ServerInv, IInv
<1>3. CASE Killed
  BY <1>1, <1>3, KilledKeeps DEF ServerInv, Killed
<1>4. CASE UNCHANGED everything
  <2>1. [Next]_vars /\ panicked' = panicked
    BY <1>4 DEF everything, vars
  <2>2. TypeOK'
    BY <1>4 DEF everything, vars, ServerInv, TypeOK, TaskOK, CacheOK
  <2>3. QED
    BY <1>1, <2>1, <2>2, InvStep DEF ServerInv
<1>5. QED
  BY <1>2, <1>3, <1>4

LEMMA ServerInvariance == ControlSpec => []ServerInv
BY ServerInitial, ServerStep, PTL DEF ControlSpec

(* Nothing is sent on a closed channel, in whatever order the goroutines   *)
(* of StartUp, signals and requests end the context.                       *)
THEOREM ClosedIsSafeInControl == ControlSpec => []NoSendOnClosed
<1>1. ServerInv => NoSendOnClosed
  BY DEF ServerInv, Reasons, NoSendOnClosed
<1>2. QED
  BY <1>1, ServerInvariance, PTL

(* The whole control plane keeps the promise of Distribution: starting,    *)
(* stopping and signals included.                                          *)
THEOREM ControlRefinesDistribution == ControlSpec => ImplementsDistribution
<1>1. ControlInit => Promise!Init
  BY DEF ControlInit, Init, Promise!Init, Told, Nothing, Promise!Nothing
<1>2. ServerInv /\ [ControlNext]_everything => [Promise!Next]_(Promise!vars)
  <2> SUFFICES ASSUME ServerInv, [ControlNext]_everything
               PROVE  [Promise!Next]_(Promise!vars)
    OBVIOUS
  <2>1. CASE ControlNext /\ ~Killed
    <3>1. IInv
      BY <2>1 DEF ControlNext, ServerInv
    <3>2. QED
      BY <2>1, <3>1, ServerSide, StepRefines DEF ServerInv
  <2>2. CASE Killed
    BY <2>2, KilledKeeps DEF ServerInv
  <2>3. CASE UNCHANGED everything
    BY <2>3 DEF everything, vars, Promise!vars, Told
  <2>4. QED
    BY <2>1, <2>2, <2>3
<1>3. QED
  BY <1>1, <1>2, ServerInvariance, PTL DEF ControlSpec, ImplementsDistribution, Promise!Spec

LEMMA LateInControl ==
    ASSUME EarlyCancel = FALSE
    PROVE  ControlSpec => []LateInv
<1>1. ControlInit => LateInv
  BY DEF ControlInit, Init, LateInv, NoLateSidecar, AllClosed
<1>2. ServerInv /\ LateInv /\ [ControlNext]_everything => LateInv'
  <2> SUFFICES ASSUME ServerInv, LateInv, [ControlNext]_everything
               PROVE  LateInv'
    OBVIOUS
  <2>1. CASE ControlNext /\ ~Killed
    <3>1. IInv
      BY <2>1 DEF ControlNext, ServerInv
    <3>2. QED
      BY <2>1, <3>1, ServerSide, LateStep DEF ServerInv
  <2>2. CASE Killed
    BY <2>2 DEF Killed, server, LateInv, NoLateSidecar, AllClosed
  <2>3. CASE UNCHANGED everything
    BY <2>3 DEF everything, vars, LateInv, NoLateSidecar, AllClosed
  <2>4. QED
    BY <2>1, <2>2, <2>3
<1>3. QED
  BY <1>1, <1>2, ServerInvariance, PTL DEF ControlSpec

(* No sidecar gets into the map after the receivers were closed, if no     *)
(* stop comes while the server starts.                                     *)
THEOREM NoneRegistersLateInControl ==
    ASSUME EarlyCancel = FALSE
    PROVE  ControlSpec => []NoLateSidecar
<1>1. LateInv => NoLateSidecar
  BY DEF LateInv
<1>2. QED
  BY <1>1, LateInControl, PTL

(* A check of /readyz reports the gRPC server ready only while it takes    *)
(* subscriptions, whatever ends the context and however many ask, if no    *)
(* stop comes while the server starts.                                     *)
THEOREM ReadyIsTaking ==
    ASSUME EarlyCancel = FALSE
    PROVE  ControlSpec => ReadyWhileTaking
<1> DEFINE Taking == main \in {"ready", "serving"} /\ stopper = "waiting"
           Yes(r) == request[r].at = "handling" /\ request'[r].at = "checking" /\ request'[r].ok
<1>1. ASSUME ServerInv, LateInv, ControlNext, NEW r \in Requests, Yes(r)
      PROVE  Taking
  <2>1. request \in [Requests -> Request] /\ request[r] \in Request
    BY <1>1 DEF ServerInv, ReadyInv
  <2>2. request' # request /\ request' # CutOff
    BY <1>1, <2>1, CutOffKeeps
  <2>3. ASSUME NEW q \in Requests, NEW what, Accept(q, what)
        PROVE  FALSE
    BY <1>1, <2>1, <2>3 DEF Accept
  <2>4. ASSUME NEW q \in Requests, PreStop(q) \/ Handle(q) \/ Reply(q)
        PROVE  FALSE
    BY <1>1, <2>1, <2>4 DEF PreStop, Handle, Reply, Set, Request
  <2>5. ASSUME NEW q \in Requests, Readyz(q)
        PROVE  ready
    <3>1. CASE request' = [request EXCEPT ![q].at = "checking", ![q].ok = CheckGrpc]
      BY <1>1, <2>1, <3>1 DEF CheckGrpc, Request
    <3>2. CASE \E answers \in BOOLEAN :
                  request' = [request EXCEPT ![q].at = "replying", ![q].ok = @ /\ answers]
      BY <1>1, <2>1, <3>2 DEF Request
    <3>3. QED
      BY <2>5, <3>1, <3>2 DEF Readyz
  <2>6. ready => Taking
    BY <1>1 DEF ServerInv, ReadyInv, LateInv, TypeOK
  <2>7. QED
    BY <1>1, <2>2, <2>3, <2>4, <2>5, <2>6
       DEF ControlNext, control, HandlerStep, HttpsStep, ServeReturns, CancelAfterServing, ServeFails,
           ShutdownStep, Shutdown, Drained, OtherStep, Ends, Signal, Exit
<1>2. ServerInv /\ LateInv /\ [ControlNext]_everything =>
         [\A r \in Requests : Yes(r) => Taking]_everything
  BY <1>1
<1>3. QED
  BY <1>2, ServerInvariance, LateInControl, PTL DEF ControlSpec, ReadyWhileTaking

-----------------------------------------------------------------------------
(* No stop comes to a standstill, where the sidecars have ids of their own *)
(* and no stop comes while the server starts: what StartUpEnds needs       *)
(* besides the fairness of the goroutines.                                 *)

LEMMA StopInvInControl ==
    ASSUME EarlyCancel = FALSE, OwnIds
    PROVE  ControlSpec => []StopInv
<1>1. ControlInit => StopInv
  BY StopInitial DEF ControlInit
<1>2. ServerInv /\ StopInv /\ [ControlNext]_everything => StopInv'
  <2> SUFFICES ASSUME ServerInv, StopInv, [ControlNext]_everything
               PROVE  StopInv'
    OBVIOUS
  <2>1. CASE ControlNext /\ ~Killed
    <3>1. IInv
      BY <2>1 DEF ControlNext, ServerInv
    <3>2. QED
      BY <2>1, <3>1, ServerSide, StopStep DEF ServerInv
  <2>2. CASE Killed \/ UNCHANGED everything
    <3>1. UNCHANGED <<sidecars, stream, ready, main, stopper, cancelled>>
      BY <2>2 DEF Killed, everything, vars, server
    <3>2. LateInv'
      BY <3>1 DEF StopInv, LateInv, NoLateSidecar, AllClosed
    <3>3. SeatInv' /\ StopReachesEveryone'
      BY <3>1 DEF StopInv, SeatInv, StopReachesEveryone, AllClosed
    <3>4. QED
      BY <3>2, <3>3 DEF StopInv
  <2>3. QED
    BY <2>1, <2>2
<1>3. QED
  BY <1>1, <1>2, ServerInvariance, PTL DEF ControlSpec

(* The gRPC server of a control plane that stops waits for no sidecar that *)
(* was not told to end.                                                    *)
THEOREM EveryoneReachedInControl ==
    ASSUME EarlyCancel = FALSE, OwnIds
    PROVE  ControlSpec => []StopReachesEveryone
<1>1. StopInv => StopReachesEveryone
  BY DEF StopInv
<1>2. QED
  BY <1>1, StopInvInControl, PTL

(* The end of the HTTPS server and a signal cancel the context for good.   *)
CancelInv ==
    /\ https \in {"serving", "returned", "gone"}
    /\ https = "gone" => cancelled
    /\ signals \in Nat /\ (signals > 0 => cancelled)
    /\ others \subseteq {"Watch", "Run"}

LEMMA CancelStep == CancelInv /\ [ControlNext]_everything => CancelInv'
<1> SUFFICES ASSUME CancelInv, [ControlNext]_everything PROVE CancelInv'
  OBVIOUS
<1>1. CASE Step /\ UNCHANGED control
  BY <1>1, StepServer DEF CancelInv, control
<1>2. ASSUME NEW r \in Requests, NEW what, Accept(r, what) \/ HandlerStep(r)
      PROVE  UNCHANGED <<vars, https, signals, others>>
  BY <1>2 DEF Accept, HandlerStep, PreStop, Readyz, Handle, Reply
<1>3. CASE ShutdownStep \/ Exit \/ OtherStep
  BY <1>3 DEF ShutdownStep, Shutdown, Drained, Exit, OtherStep, Ends, CancelInv, vars
<1>4. CASE HttpsStep \/ ServeFails
  BY <1>4 DEF HttpsStep, ServeReturns, CancelAfterServing, ServeFails, CancelInv, vars, grpc
<1>5. CASE Signal /\ signals = 0
  BY <1>5 DEF Signal, CancelInv
<1>6. CASE Signal /\ signals # 0
  <2>1. signals \in Nat /\ signals' = signals + 1 /\ UNCHANGED <<cancelled, https, others>>
    BY <1>6 DEF Signal, CancelInv
  <2>2. signals > 0 /\ signals' \in Nat
    BY <1>6, <2>1
  <2>3. cancelled'
    BY <2>1, <2>2 DEF CancelInv
  <2>4. QED
    BY <2>1, <2>2, <2>3 DEF CancelInv
<1>7. CASE UNCHANGED everything \/ UNCHANGED <<vars, https, signals, others>>
  BY <1>7 DEF everything, vars, control, CancelInv
<1>8. QED
  BY <1>1, <1>2, <1>3, <1>4, <1>5, <1>6, <1>7 DEF ControlNext

StopAsked == stopCh \/ signals > 0 \/ https # "serving"

(* Some goroutine can go on: that of the HTTPS server, of its Shutdown, of *)
(* the context, of ListenAndServe, a Subscribe call, an informer (which    *)
(* sends, or waits for a report) or the CRD worker, or StartUp itself.     *)
SomeoneMayGoOn ==
    \/ https = "serving" /\ shutdown # "waiting"
    \/ https = "returned"
    \/ shutdown = "waiting" /\ (cancelled \/ stopCh)
    \/ stopper = "waiting" /\ cancelled
    \/ stopper = "closing" /\ ~\E s \in Range(sidecars) : Sending(s)
    \/ task.at = "sending"
    \/ stopper = "closed"
    \/ main \in {"listening", "ready"}
    \/ main = "serving" /\ stopper = "stopping"
          /\ \A s \in Streams : stream[s].at \in {"none", "done"}
    \/ \E s \in Streams : MayStep(s)
    \/ \E part \in others : part = "Run" => cancelled
    \/ https = "gone" /\ others = {} /\ main = "returned"

(* A stop that was asked for, by a request, by a signal or by the failure  *)
(* of the HTTPS server, never leaves every goroutine of StartUp waiting    *)
(* for another, for any numbers of requests and sidecars.                  *)
THEOREM NoStandstill ==
    ASSUME EarlyCancel = FALSE, OwnIds
    PROVE  ControlSpec =>
             [](StopAsked /\ ~exited /\ panicked = "no" => SomeoneMayGoOn)
<1>1. ControlInit => CancelInv
  BY DEF ControlInit, CancelInv
<1>2. ServerInv /\ StopInv /\ CancelInv =>
         (StopAsked /\ ~exited /\ panicked = "no" => SomeoneMayGoOn)
  <2> SUFFICES ASSUME ServerInv, StopInv, CancelInv, StopAsked, panicked = "no"
               PROVE  SomeoneMayGoOn
    OBVIOUS
  <2>1. /\ main \in {"listening", "ready", "serving", "returned"}
        /\ stopper \in {"waiting", "closing", "closed", "stopping"}
        /\ stream \in [Streams -> Subscription]
    BY DEF ServerInv, TypeOK
  <2>2. CASE https = "serving" \/ https = "returned"
    BY <2>2 DEF StopAsked, CancelInv, SomeoneMayGoOn
  <2>3. CASE https = "gone" /\ stopper # "stopping"
    BY <2>1, <2>3 DEF CancelInv, SomeoneMayGoOn, Sending
  <2>4. CASE stopper = "stopping" /\ main = "serving"
    <3>1. ASSUME NEW s \in Streams, stream[s].at \notin {"none", "done"}
          PROVE  MayStep(s)
      <4>1. stream[s].at \in {"none", "called", "accepted", "listed", "greeted", "receiving", "leaving", "done"}
        BY <2>1 DEF Subscription
      <4>2. QED
        BY <2>4, <3>1, <4>1 DEF MayStep, MtxFree, AllClosed, StopInv, StopReachesEveryone
    <3>2. QED
      BY <2>4, <3>1 DEF SomeoneMayGoOn
  <2>5. CASE https = "gone" /\ main = "returned"
    BY <2>5 DEF CancelInv, SomeoneMayGoOn
  <2>6. QED
    BY <2>1, <2>2, <2>3, <2>4, <2>5 DEF CancelInv, SomeoneMayGoOn
<1>3. QED
  BY <1>1, <1>2, CancelStep, ServerInvariance, StopInvInControl, PTL DEF ControlSpec

-----------------------------------------------------------------------------
(* How far a control plane that stops is from its end *)

One(condition) == IF condition THEN 1 ELSE 0

HttpsLeft    == One(https = "serving") + One(https # "gone")
ShutdownLeft == One(shutdown = "waiting") + One(shutdown \in {"waiting", "draining"})
OthersLeft   == One("Watch" \in others) + One("Run" \in others)
MainLeft     == One(main = "listening") + One(main \in {"listening", "ready"})
                    + One(main # "returned")
StopperLeft  == One(stopper = "waiting") + One(stopper \in {"waiting", "closing"})
                    + One(stopper # "stopping")
ProcessLeft  == One(signals = 0) + One(signals < 2) + One(~exited)

(* What the goroutines of StartUp have still to do, the Subscribe calls    *)
(* apart: StepsLeft counts those.                                          *)
WaitersLeft == HttpsLeft + ShutdownLeft + OthersLeft
StopLeft    == MainLeft + StopperLeft + ProcessLeft
ControlLeft == WaitersLeft + StopLeft

LEMMA LeftCounts ==
    /\ HttpsLeft \in Nat /\ ShutdownLeft \in Nat /\ OthersLeft \in Nat
    /\ MainLeft \in Nat /\ StopperLeft \in Nat /\ ProcessLeft \in Nat
BY DEF HttpsLeft, ShutdownLeft, OthersLeft, MainLeft, StopperLeft, ProcessLeft, One

LEMMA LeftCountsAfter ==
    /\ HttpsLeft' \in Nat /\ ShutdownLeft' \in Nat /\ OthersLeft' \in Nat
    /\ MainLeft' \in Nat /\ StopperLeft' \in Nat /\ ProcessLeft' \in Nat
BY DEF HttpsLeft, ShutdownLeft, OthersLeft, MainLeft, StopperLeft, ProcessLeft, One

(* The parts of the gRPC server. *)
LEMMA ServerLeft ==
    ASSUME Step
    PROVE  /\ MainLeft' <= MainLeft /\ StopperLeft' <= StopperLeft
           /\ MainStep => MainLeft' < MainLeft
           /\ StopperStep => StopperLeft' < StopperLeft
<1>1. MainStep => MainLeft' < MainLeft /\ UNCHANGED stopper
  BY DEF MainStep, StoreReady, Serve, Return, MainLeft, One
<1>2. StopperStep => StopperLeft' < StopperLeft /\ UNCHANGED main
  BY DEF StopperStep, StopTaking, CloseReceivers, GracefulStop, StopperLeft, One
<1>3. UNCHANGED main => MainLeft' = MainLeft
  BY DEF MainLeft
<1>4. UNCHANGED stopper => StopperLeft' = StopperLeft
  BY DEF StopperLeft
<1>5. MainStep \/ StopperStep \/ UNCHANGED server
  <2>1. ASSUME NEW s \in Streams, Call(s) \/ SubscribeStep(s) \/ Disconnect(s)
        PROVE  UNCHANGED server
    BY <2>1 DEF Call, SubscribeStep, Check, ListFn, Greet, Enter, Send, EndOfChannel, Leave,
                Disconnect
  <2>2. InformerStep => UNCHANGED server
    BY DEF InformerStep, GetSidecar, Informer, Offer
  <2>3. QED
    BY <2>1, <2>2 DEF Step, Report
<1>6. UNCHANGED server => UNCHANGED <<main, stopper>>
  BY DEF server
<1>7. QED
  BY <1>1, <1>2, <1>3, <1>4, <1>5, <1>6, LeftCounts, LeftCountsAfter

ControlFalls ==
    /\ HttpsLeft' <= HttpsLeft /\ ShutdownLeft' <= ShutdownLeft /\ OthersLeft' <= OthersLeft
    /\ MainLeft' <= MainLeft /\ StopperLeft' <= StopperLeft /\ ProcessLeft' <= ProcessLeft
    /\ HttpsStep \/ ServeFails => HttpsLeft' < HttpsLeft
    /\ ShutdownStep => ShutdownLeft' < ShutdownLeft
    /\ OtherStep => OthersLeft' < OthersLeft
    /\ MainStep => MainLeft' < MainLeft
    /\ StopperStep => StopperLeft' < StopperLeft
    /\ Signal \/ Exit => ProcessLeft' < ProcessLeft

LEMMA ControlKept ==
    /\ UNCHANGED https => HttpsLeft' <= HttpsLeft
    /\ UNCHANGED shutdown => ShutdownLeft' <= ShutdownLeft
    /\ UNCHANGED others => OthersLeft' <= OthersLeft
    /\ UNCHANGED main => MainLeft' <= MainLeft
    /\ UNCHANGED stopper => StopperLeft' <= StopperLeft
    /\ UNCHANGED <<signals, exited>> => ProcessLeft' <= ProcessLeft
<1>1. UNCHANGED https => HttpsLeft' = HttpsLeft
  BY DEF HttpsLeft
<1>2. UNCHANGED shutdown => ShutdownLeft' = ShutdownLeft
  BY DEF ShutdownLeft
<1>3. UNCHANGED others => OthersLeft' = OthersLeft
  BY DEF OthersLeft
<1>4. UNCHANGED main => MainLeft' = MainLeft
  BY DEF MainLeft
<1>5. UNCHANGED stopper => StopperLeft' = StopperLeft
  BY DEF StopperLeft
<1>6. UNCHANGED <<signals, exited>> => ProcessLeft' = ProcessLeft
  BY DEF ProcessLeft
<1>7. QED
  BY <1>1, <1>2, <1>3, <1>4, <1>5, <1>6, LeftCounts

LEMMA PartsFall ==
    ASSUME CancelInv, ControlNext
    PROVE  ControlFalls
<1>1. HttpsStep \/ ServeFails => HttpsLeft' < HttpsLeft
  BY DEF HttpsStep, ServeReturns, CancelAfterServing, ServeFails, HttpsLeft, One
<1>2. ShutdownStep => ShutdownLeft' < ShutdownLeft
  BY DEF ShutdownStep, Shutdown, Drained, ShutdownLeft, One
<1>3. OtherStep => OthersLeft' < OthersLeft
  <2>1. ASSUME NEW part \in others, Ends(part)
        PROVE  OthersLeft' < OthersLeft
    <3>1. part \in {"Watch", "Run"} /\ others' = others \ {part}
      BY <2>1 DEF Ends, CancelInv
    <3>2. QED
      BY <3>1 DEF OthersLeft, One
  <2>2. QED
    BY <2>1 DEF OtherStep
<1>4. Signal \/ Exit => ProcessLeft' < ProcessLeft
  <2>1. ASSUME Signal
        PROVE  ProcessLeft' < ProcessLeft
    <3>1. signals \in Nat /\ signals < 2 /\ signals' = signals + 1 /\ UNCHANGED exited
      BY <2>1 DEF Signal, CancelInv
    <3>2. QED
      BY <3>1 DEF ProcessLeft, One
  <2>2. ASSUME Exit
        PROVE  ProcessLeft' < ProcessLeft
    <3>1. ~exited /\ exited' = TRUE /\ UNCHANGED signals
      BY <2>2 DEF Exit, ControlNext
    <3>2. QED
      BY <3>1 DEF ProcessLeft, One
  <2>3. QED
    BY <2>1, <2>2
<1>5. MainStep => MainLeft' < MainLeft
  BY DEF MainStep, StoreReady, Serve, Return, MainLeft, One
<1>6. StopperStep => StopperLeft' < StopperLeft
  BY DEF StopperStep, StopTaking, CloseReceivers, GracefulStop, StopperLeft, One
<1>7. /\ HttpsLeft' <= HttpsLeft /\ ShutdownLeft' <= ShutdownLeft /\ OthersLeft' <= OthersLeft
      /\ MainLeft' <= MainLeft /\ StopperLeft' <= StopperLeft /\ ProcessLeft' <= ProcessLeft
  <2>1. CASE Step /\ UNCHANGED control
    BY <2>1, ServerLeft, ControlKept DEF control
  <2>2. ASSUME NEW r \in Requests, NEW what, Accept(r, what) \/ HandlerStep(r)
        PROVE  UNCHANGED <<main, stopper, https, shutdown, others, signals, exited>>
    BY <2>2 DEF Accept, HandlerStep, PreStop, Readyz, Handle, Reply, vars
  <2>3. CASE HttpsStep \/ ServeFails
    <3>1. UNCHANGED <<main, stopper, shutdown, others, signals, exited>>
      BY <2>3 DEF HttpsStep, ServeReturns, CancelAfterServing, ServeFails, vars, grpc
    <3>2. QED
      BY <1>1, <2>3, <3>1, ControlKept, LeftCounts, LeftCountsAfter
  <2>4. CASE ShutdownStep
    <3>1. UNCHANGED <<main, stopper, https, others, signals, exited>>
      BY <2>4 DEF ShutdownStep, Shutdown, Drained, vars
    <3>2. QED
      BY <1>2, <2>4, <3>1, ControlKept, LeftCounts, LeftCountsAfter
  <2>5. CASE OtherStep
    <3>1. UNCHANGED <<main, stopper, https, shutdown, signals, exited>>
      BY <2>5 DEF OtherStep, Ends, vars
    <3>2. QED
      BY <1>3, <2>5, <3>1, ControlKept, LeftCounts, LeftCountsAfter
  <2>6. CASE Signal \/ Exit
    <3>1. UNCHANGED <<main, stopper, https, shutdown, others>>
      BY <2>6 DEF Signal, Exit, vars
    <3>2. QED
      BY <1>4, <2>6, <3>1, ControlKept, LeftCounts, LeftCountsAfter
  <2>7. QED
    BY <2>1, <2>2, <2>3, <2>4, <2>5, <2>6, ControlKept DEF ControlNext
<1>8. QED
  BY <1>1, <1>2, <1>3, <1>4, <1>5, <1>6, <1>7 DEF ControlFalls

LEMMA SumOfTwo ==
    ASSUME NEW a \in Nat, NEW b \in Nat, NEW p \in Nat, NEW q \in Nat, p <= a, q <= b
    PROVE  /\ p + q <= a + b
           /\ p < a => p + q < a + b
           /\ q < b => p + q < a + b
OBVIOUS

LEMMA SumOfThree ==
    ASSUME NEW a \in Nat, NEW b \in Nat, NEW c \in Nat,
           NEW p \in Nat, NEW q \in Nat, NEW r \in Nat, p <= a, q <= b, r <= c
    PROVE  /\ p + q + r \in Nat /\ p + q + r <= a + b + c
           /\ p < a => p + q + r < a + b + c
           /\ q < b => p + q + r < a + b + c
           /\ r < c => p + q + r < a + b + c
OBVIOUS

LEMMA FallsInAll ==
    ASSUME ControlFalls
    PROVE  /\ ControlLeft \in Nat /\ ControlLeft' <= ControlLeft
           /\ \/ HttpsStep \/ ServeFails \/ ShutdownStep \/ OtherStep
              \/ MainStep \/ StopperStep \/ Signal \/ Exit
              => ControlLeft' < ControlLeft
<1>1. /\ HttpsLeft' <= HttpsLeft /\ ShutdownLeft' <= ShutdownLeft /\ OthersLeft' <= OthersLeft
      /\ MainLeft' <= MainLeft /\ StopperLeft' <= StopperLeft /\ ProcessLeft' <= ProcessLeft
  BY DEF ControlFalls
<1>2. WaitersLeft \in Nat /\ StopLeft \in Nat
  BY LeftCounts DEF WaitersLeft, StopLeft
<1>3. /\ WaitersLeft' \in Nat /\ WaitersLeft' <= WaitersLeft
      /\ HttpsLeft' < HttpsLeft => WaitersLeft' < WaitersLeft
      /\ ShutdownLeft' < ShutdownLeft => WaitersLeft' < WaitersLeft
      /\ OthersLeft' < OthersLeft => WaitersLeft' < WaitersLeft
  BY <1>1, LeftCounts, LeftCountsAfter, SumOfThree, Zenon DEF WaitersLeft
<1>4. /\ StopLeft' \in Nat /\ StopLeft' <= StopLeft
      /\ MainLeft' < MainLeft => StopLeft' < StopLeft
      /\ StopperLeft' < StopperLeft => StopLeft' < StopLeft
      /\ ProcessLeft' < ProcessLeft => StopLeft' < StopLeft
  BY <1>1, LeftCounts, LeftCountsAfter, SumOfThree, Zenon DEF StopLeft
<1>5. /\ ControlLeft' <= ControlLeft
      /\ WaitersLeft' < WaitersLeft => ControlLeft' < ControlLeft
      /\ StopLeft' < StopLeft => ControlLeft' < ControlLeft
  BY <1>2, <1>3, <1>4, SumOfTwo, Zenon DEF ControlLeft
<1>6. ControlLeft \in Nat
  BY <1>2 DEF ControlLeft
<1>7. QED
  BY <1>3, <1>4, <1>5, <1>6, Zenon DEF ControlFalls

LEMMA CallsFall ==
    ASSUME EarlyCancel = FALSE, ServerInv, StopInv, ControlNext, stopper = "stopping",
           NEW s \in Streams
    PROVE  /\ StepsLeft(s)' <= StepsLeft(s)
           /\ SubscribeStep(s) /\ panicked' = "no" => StepsLeft(s)' < StepsLeft(s)
<1>1. IInv /\ ~ready
  BY DEF ControlNext, ServerInv, StopInv, LateInv
<1>2. CASE Next \/ UNCHANGED vars
  BY <1>1, <1>2, StepCounts, StopProceeds
<1>3. CASE Killed
  <2>1. StepsLeft(s)' = StepsLeft(s) /\ panicked' # "no"
    BY <1>3 DEF Killed, StepsLeft
  <2>2. StepsLeft(s) \in Nat
    <3>1. stream[s] \in Subscription
      BY DEF ServerInv, TypeOK
    <3>2. /\ Len(stream[s].chan) \in Nat
          /\ stream[s].at \in {"none", "called", "accepted", "listed", "greeted", "receiving",
                               "leaving", "done"}
      BY <3>1, LenProperties DEF Subscription
    <3>3. QED
      BY <3>2 DEF StepsLeft, Rank
  <2>3. QED
    BY <2>1, <2>2
<1>4. QED
  BY <1>2, <1>3, ServerSide DEF ServerInv

(* How often the informer's goroutine may still get to a channel while the *)
(* shutdown goroutine has mtx: it looks up no other sidecar meanwhile.     *)
SendsLeft == IF task.at = "inform" THEN 2 ELSE One(task.at = "sending")

LEMMA SendsFall ==
    ASSUME TaskOK, ControlNext, stopper = "closing"
    PROVE  SendsLeft' <= SendsLeft /\ (InformerStep => SendsLeft' < SendsLeft)
<1>0. SendsLeft \in Nat
  BY DEF SendsLeft, One
<1>1. ASSUME task' = NoTask
      PROVE  SendsLeft' = 0
  BY <1>1 DEF SendsLeft, One, NoTask
<1>2. CASE Informer
  <2>1. task.at = "inform" /\ SendsLeft = 2
    BY <1>2 DEF Informer, SendsLeft
  <2>2. task \in [at : {"inform", "sending"}, svc : Services, message : MessageSet, target : Streams]
    BY <2>1 DEF TaskOK, NoTask
  <2>3. CASE task' = [task EXCEPT !.at = "sending"]
    <3>1. task'.at = "sending"
      BY <2>2, <2>3
    <3>2. SendsLeft' = 1
      BY <3>1 DEF SendsLeft, One
    <3>3. QED
      BY <2>1, <3>2
  <2>4. QED
    BY <1>1, <1>2, <2>1, <2>3 DEF Informer
<1>3. CASE Offer
  <2>1. task.at = "sending" /\ task' = NoTask
    BY <1>3 DEF Offer
  <2>2. SendsLeft = 1
    BY <2>1 DEF SendsLeft, One
  <2>3. QED
    BY <1>1, <2>1, <2>2
<1>4. ~GetSidecar
  BY DEF GetSidecar, MtxFree
<1>5. ASSUME task' = task
      PROVE  SendsLeft' = SendsLeft
  BY <1>5 DEF SendsLeft
<1>6. ASSUME NEW n \in Slices, NEW es \in EndpointSlice(n) \cup {None}, Report(n, es)
      PROVE  SendsLeft' <= SendsLeft
  <2>1. task' = task \/ task'.at = "publish"
    <3>1. \A svc, m : Publish(svc, m) => task'.at = "publish"
      BY DEF Publish
    <3>2. OnAdded(n, es) \/ OnUpdated(n, es) => \E svc, m : Publish(svc, m)
      BY Zenon DEF OnAdded, OnUpdated
    <3>3. OnDeleted(n) => (\E svc, m : Publish(svc, m)) \/ task' = task
      BY Zenon DEF OnDeleted
    <3>4. QED
      BY <1>6, <3>1, <3>2, <3>3, Zenon DEF Report
  <2>2. task'.at = "publish" => SendsLeft' = 0
    BY DEF SendsLeft, One
  <2>3. QED
    BY <1>0, <1>5, <2>1, <2>2
<1>7. ASSUME NEW s \in Streams, Call(s) \/ SubscribeStep(s) \/ Disconnect(s)
      PROVE  task' = task
  BY <1>7 DEF Call, SubscribeStep, Check, ListFn, Greet, Enter, Send, EndOfChannel, Leave, Disconnect
<1>8. ASSUME MainStep \/ StopperStep
      PROVE  task' = task
  BY <1>8 DEF MainStep, StoreReady, Serve, Return, StopperStep, StopTaking, CloseReceivers, GracefulStop
<1>9. ASSUME ~Step
      PROVE  task' = task
  BY <1>9 DEF ControlNext, Accept, HandlerStep, PreStop, Readyz, Handle, Reply, HttpsStep,
              ServeReturns, CancelAfterServing, ServeFails, ShutdownStep, Shutdown, Drained,
              OtherStep, Ends, Signal, Exit, vars, grpc
<1>10. SendsLeft' <= SendsLeft
  BY <1>0, <1>2, <1>3, <1>4, <1>5, <1>6, <1>7, <1>8, <1>9 DEF Step, InformerStep
<1>11. QED
  BY <1>2, <1>3, <1>4, <1>10 DEF InformerStep

(* A stop runs its course: each step of a goroutine that StartUp waits     *)
(* for, of Shutdown or of the shutdown goroutine, lowers what is left of   *)
(* the control plane, each step of a call lowers what is left of the call  *)
(* once the server stops, each send lowers what the closing of the         *)
(* receivers may wait for, and nothing raises any of these: requests,      *)
(* reports, publications and clients that go away included.                *)
THEOREM StopRunsOut ==
    ASSUME EarlyCancel = FALSE, OwnIds
    PROVE  ControlSpec =>
             [][/\ ControlLeft \in Nat /\ ControlLeft' <= ControlLeft
                /\ \/ HttpsStep \/ ServeFails \/ ShutdownStep \/ OtherStep
                   \/ MainStep \/ StopperStep \/ Signal \/ Exit
                   => ControlLeft' < ControlLeft
                /\ stopper = "closing" =>
                     SendsLeft' <= SendsLeft /\ (InformerStep => SendsLeft' < SendsLeft)
                /\ stopper = "stopping" =>
                     \A s \in Streams :
                        /\ StepsLeft(s)' <= StepsLeft(s)
                        /\ SubscribeStep(s) /\ panicked' = "no" =>
                              StepsLeft(s)' < StepsLeft(s)]_everything
<1> DEFINE RunOut ==
             /\ ControlLeft \in Nat /\ ControlLeft' <= ControlLeft
             /\ \/ HttpsStep \/ ServeFails \/ ShutdownStep \/ OtherStep
                \/ MainStep \/ StopperStep \/ Signal \/ Exit
                => ControlLeft' < ControlLeft
             /\ stopper = "closing" =>
                  SendsLeft' <= SendsLeft /\ (InformerStep => SendsLeft' < SendsLeft)
             /\ stopper = "stopping" =>
                  \A s \in Streams :
                     /\ StepsLeft(s)' <= StepsLeft(s)
                     /\ SubscribeStep(s) /\ panicked' = "no" =>
                           StepsLeft(s)' < StepsLeft(s)
<1>1. ControlInit => CancelInv
  BY DEF ControlInit, CancelInv
<1>2. ASSUME ServerInv, StopInv, CancelInv, ControlNext
      PROVE  RunOut
  <2>1. ControlFalls
    BY <1>2, PartsFall
  <2>2. TaskOK
    BY <1>2 DEF ServerInv, TypeOK
  <2>3. QED
    BY <1>2, <2>1, <2>2, FallsInAll, CallsFall, SendsFall
<1>3. ServerInv /\ StopInv /\ CancelInv /\ [ControlNext]_everything => [RunOut]_everything
  BY <1>2
<1>4. QED
  BY <1>1, <1>3, CancelStep, ServerInvariance, StopInvInControl, PTL DEF ControlSpec
=============================================================================
