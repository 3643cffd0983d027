----------------------------- MODULE ControlPlane -----------------------------
(***************************************************************************)
(* StartUp and the order in which the control plane stops.  Goroutines run *)
(* the HTTPS server, the gRPC server (GrpcServer), the informers and the   *)
(* CRD worker under one context, which is cancelled by a signal or when    *)
(* the HTTPS server ends; the HTTPS server ends when a goroutine of its    *)
(* own, told by the context or by /preStop, has called Shutdown, or when   *)
(* it fails.  StartUp waits for all of them but that goroutine, and the    *)
(* process ends with it.                                                   *)
(***************************************************************************)
EXTENDS GrpcServer

CONSTANT Requests      (* HTTPS requests                                    *)

VARIABLES
    https,      (* the goroutine that calls ServeTLS and then cancel        *)
    shutdown,   (* the goroutine that calls Shutdown                        *)
    stopCh,     (* was stopCh closed?                                       *)
    signals,    (* signals received                                         *)
    request,    (* request -> what is asked, how far its answer is, and     *)
                (* whether it is yes                                        *)
    others,     (* the other goroutines StartUp still waits for             *)
    exited      (* did StartUp return?                                      *)

control == <<https, shutdown, stopCh, signals, request, others, exited>>

everything == <<vars, control>>

grpc == <<known, task, sidecars, stream, ready, main, stopper, panicked>>

Set(r, step) == request' = [request EXCEPT ![r].at = step]

UnderWay(r) == request[r].at \in {"handling", "checking", "replying"}

Asked(r, what) == request[r].what = what /\ request[r].at = "handling"

(* Every request that has no answer yet is cut off. *)
CutOff == [r \in Requests |-> IF UnderWay(r) THEN [request[r] EXCEPT !.at = "cut"] ELSE request[r]]

-----------------------------------------------------------------------------
(* httpsvr.go: ServeTLS, and net/http as far as it is used *)

(* No request is taken once Shutdown was called.  A stop comes when the    *)
(* control plane has started, unless EarlyCancel.                          *)
Accept(r, what) ==
    /\ https = "serving" /\ shutdown = "waiting"
    /\ request[r].at = "none"
    /\ what = "preStop" => MayCancel
    /\ request' = [request EXCEPT ![r] = [what |-> what, at |-> "handling", ok |-> TRUE]]
    /\ UNCHANGED <<vars, https, shutdown, stopCh, signals, others, exited>>

Shutdown ==
    /\ shutdown = "waiting"
    /\ cancelled \/ stopCh
    /\ shutdown' = "draining"
    /\ UNCHANGED <<vars, https, stopCh, signals, request, others, exited>>

(* Shutdown has waited for the requests under way, or for the timeout:     *)
(* then Close ends them.                                                   *)
Drained ==
    /\ shutdown = "draining"
    /\ \/ /\ ~\E r \in Requests : UnderWay(r)
          /\ shutdown' = "done" /\ UNCHANGED request
       \/ /\ \E r \in Requests : UnderWay(r)
          /\ shutdown' = "forced" /\ request' = CutOff
    /\ UNCHANGED <<vars, https, stopCh, signals, others, exited>>

(* Serve returns as soon as Shutdown is called.                            *)
ServeReturns ==
    /\ https = "serving" /\ shutdown # "waiting"
    /\ https' = "returned"
    /\ UNCHANGED <<vars, shutdown, stopCh, signals, request, others, exited>>

(* ... or it fails, as with a certificate it cannot read. *)
ServeFails ==
    /\ https = "serving" /\ MayCancel
    /\ https' = "returned"
    /\ UNCHANGED <<vars, shutdown, stopCh, signals, request, others, exited>>

-----------------------------------------------------------------------------
(* prestop.go, readyz.go and the answers *)

(* Mutated form of PreStop: the context is cancelled by the handler. *)
PreStopCancels(r) ==
    /\ Asked(r, "preStop")
    /\ stopCh' = TRUE
    /\ cancelled' = TRUE
    /\ Set(r, "replying")
    /\ UNCHANGED <<grpc, https, shutdown, signals, others, exited>>

(* The channel is closed once, whoever asks by POST; other methods are     *)
(* refused.                                                                *)
PreStop(r) ==
    /\ Asked(r, "preStop")
    /\ \/ stopCh' = TRUE /\ Set(r, "replying")
       \/ /\ request' = [request EXCEPT ![r].at = "replying", ![r].ok = FALSE]
          /\ UNCHANGED stopCh
    /\ UNCHANGED <<vars, https, shutdown, signals, others, exited>>

CheckGrpc == ready

(* The checkers are asked in turn, and all of them: the gRPC server, then  *)
(* the two clients, which answer or do not.                                *)
Readyz(r) ==
    /\ \/ /\ Asked(r, "readyz")
          /\ request' = [request EXCEPT ![r].at = "checking", ![r].ok = CheckGrpc]
       \/ /\ request[r].at = "checking"
          /\ \E answers \in BOOLEAN :
                request' = [request EXCEPT ![r].at = "replying", ![r].ok = @ /\ answers]
    /\ UNCHANGED <<vars, https, shutdown, stopCh, signals, others, exited>>

(* The webhook is asked (Webhook says what it answers), or /healthz, which *)
(* has one checker, that never fails.                                      *)
Handle(r) ==
    /\ Asked(r, "mutate")
    /\ Set(r, "replying")
    /\ UNCHANGED <<vars, https, shutdown, stopCh, signals, others, exited>>

Reply(r) ==
    /\ request[r].at = "replying"
    /\ Set(r, "answered")
    /\ UNCHANGED <<vars, https, shutdown, stopCh, signals, others, exited>>

-----------------------------------------------------------------------------
(* startup.go and cmd/ctrl/app/utils.go *)

(* Mutated form of CancelAfterServing: the context lives on. *)
CancelNever == FALSE

CancelAfterServing ==
    /\ https = "returned"
    /\ https' = "gone"
    /\ cancelled' = TRUE
    /\ UNCHANGED <<grpc, shutdown, stopCh, signals, request, others, exited>>

(* The first signal cancels the context, the second ends the process.      *)
Signal ==
    /\ MayCancel
    /\ signals < 2
    /\ signals' = signals + 1
    /\ IF signals = 0
       THEN cancelled' = TRUE /\ UNCHANGED <<panicked, request>>
       ELSE panicked' = "second signal" /\ request' = CutOff /\ UNCHANGED cancelled
    /\ UNCHANGED <<known, task, sidecars, stream, ready, main, stopper>>
    /\ UNCHANGED <<https, shutdown, stopCh, others, exited>>

(* WatchEndpointSlice and WatchCRD return when their caches are filled or  *)
(* the context is cancelled, CRDWorker.Run some time after that            *)
(* (CRDWorker, RunReturns).                                                *)
Ends(part) ==
    /\ part \in others
    /\ part = "Run" => cancelled
    /\ others' = others \ {part}
    /\ UNCHANGED <<vars, https, shutdown, stopCh, signals, request, exited>>

(* wg.Wait, and the end of main: what still runs, as the goroutine that    *)
(* drains the requests may, is ended.                                      *)
Exit ==
    /\ https = "gone" /\ others = {} /\ main = "returned"
    /\ exited' = TRUE
    /\ request' = CutOff
    /\ UNCHANGED <<vars, https, shutdown, stopCh, signals, others>>

ControlInit ==
    /\ Init
    /\ https = "serving"
    /\ shutdown = "waiting"
    /\ stopCh = FALSE
    /\ signals = 0
    /\ request = [r \in Requests |-> [what |-> "none", at |-> "none", ok |-> TRUE]]
    /\ others = {"Watch", "Run"}
    /\ exited = FALSE

HttpsStep      == ServeReturns \/ CancelAfterServing
ShutdownStep   == Shutdown \/ Drained
HandlerStep(r) == PreStop(r) \/ Readyz(r) \/ Handle(r) \/ Reply(r)
OtherStep      == \E part \in others : Ends(part)

ControlNext ==
    /\ ~exited /\ panicked = "no"
    /\ \/ Step /\ UNCHANGED control
       \/ \E r \in Requests, what \in {"preStop", "readyz", "mutate"} : Accept(r, what)
       \/ \E r \in Requests : HandlerStep(r)
       \/ HttpsStep
       \/ ServeFails
       \/ ShutdownStep
       \/ OtherStep
       \/ Signal
       \/ Exit

Alive(A) == ~exited /\ panicked = "no" /\ A

Grpc(A) == Alive(A /\ UNCHANGED control)

(* Goroutines run; nobody need ask for anything, and no signal need come.  *)
ControlFairness ==
    /\ \A s \in Streams : WF_everything(Grpc(SubscribeStep(s)))
    /\ WF_everything(Grpc(InformerStep))
    /\ WF_everything(Grpc(MainStep))
    /\ WF_everything(Grpc(StopperStep))
    /\ \A r \in Requests : WF_everything(Alive(HandlerStep(r)))
    /\ WF_everything(Alive(HttpsStep))
    /\ WF_everything(Alive(ShutdownStep))
    /\ WF_everything(Alive(OtherStep))
    /\ WF_everything(Alive(Exit))

ControlSpec == ControlInit /\ [][ControlNext]_everything /\ ControlFairness

-----------------------------------------------------------------------------
(* Properties *)

(* StartUp returns and the process ends once a stop was asked for by a     *)
(* request or a signal, or the HTTPS server has failed: the end of the     *)
(* HTTPS server cancels the context, "so that the other goroutines clean   *)
(* up and exit" (comment at startup.go:69).                                *)
StartUpEnds == stopCh \/ signals > 0 \/ https # "serving" ~> exited \/ panicked # "no"

(* A stop that /preStop asked for takes the control plane out of traffic   *)
(* before it ends anything else ("preStop first takes the traffic away",   *)
(* target.md:134): no subscription is closed, and the CRD worker does not  *)
(* stop, while HTTPS requests are still taken.                             *)
TrafficFirst ==
    signals = 0 /\ (stopper # "waiting" \/ "Run" \notin others) => https # "serving"

(* What /readyz reports of the gRPC server ("is it listening", comment at  *)
(* server.go:90) is yes only while the server takes subscriptions: not     *)
(* before it listens, not after Serve has returned, and not from the       *)
(* moment on at which the shutdown goroutine began to close the receivers, *)
(* which a check that is still under way then may come after.              *)
ReadyWhileTaking ==
    [][\A r \in Requests :
          request[r].at = "handling" /\ request'[r].at = "checking" /\ request'[r].ok
              => main \in {"ready", "serving"} /\ stopper = "waiting"]_everything
=============================================================================
