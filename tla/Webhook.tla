------------------------------- MODULE Webhook -------------------------------
(***************************************************************************)
(* The mutating webhook over the container cache of CRDWorker: the API     *)
(* server asks it about each pod a workload's controller creates, and a    *)
(* pod whose label names a container is given that container.              *)
(*                                                                         *)
(* A request carries the pod as it is asked about, ServeHTTP reads the     *)
(* cache once, and the API server creates the pod as it was answered: the  *)
(* three are steps, and between them informers, workers, users and a       *)
(* restart can act.  The pod, the request and what becomes of the answer   *)
(* are the API server's; it is assumed to take the answers, although they  *)
(* carry no apiVersion and no kind (mutate_webhook.go:113-142).            *)
(***************************************************************************)
EXTENDS CRDWorker

CONSTANTS
    Pods,
    OwnerOf,       (* pod -> the workload whose template it is made from    *)
    LabelOf        (* pod -> the value of its label, or None                *)

ASSUME PodAssumption ==
    /\ OwnerOf \in [Pods -> Workloads]
    /\ LabelOf \in [Pods -> Names \cup {None}]

VARIABLES
    serving,       (* the HTTPS server takes requests                       *)
    review,        (* pod -> the request of the API server about it         *)
    pod            (* pod -> its containers, or None                        *)

allVars == <<vars, serving, review, pod>>

NoReview == [at |-> "none", containers |-> None]

Template(p) == workloads[OwnerOf[p]]

Enters(p, step, containers) ==
    review' = [review EXCEPT ![p] = [at |-> step, containers |-> containers]]

(* A controller creates a pod, and the API server asks.  Nobody answers    *)
(* when the server is down, and then the pod is refused (failurePolicy     *)
(* Fail) and its controller tries again.                                   *)
Ask(p) ==
    /\ pod[p] = None
    /\ review[p] = NoReview
    /\ Template(p) # None
    /\ serving
    /\ Enters(p, "asked", Template(p))
    /\ UNCHANGED <<vars, serving, pod>>

(* The parts that read a request and the pod in it, getPodFromAdmission-   *)
(* Review and the HTTP method, refuse what is malformed; the API server    *)
(* sends none such.                                                        *)
needInjected(p) == LabelOf[p] # None

containerInjected(p) == review[p].containers[LabelOf[p]] # None

(* The patch adds the container at the end of the list. *)
responsePatch(p) == [review[p].containers EXCEPT ![LabelOf[p]] = cache[LabelOf[p]]]

Allow(p, containers) == Enters(p, "allowed", containers)

(* Mutated form of Refuse: a container that is not known is left out. *)
RefuseNot(p) == Allow(p, review[p].containers)

(* The pod is not created; its controller tries again. *)
Refuse(p) == review' = [review EXCEPT ![p] = NoReview]

(* mutateHandler.ServeHTTP, asked about p. *)
ServeHTTP(p) ==
    /\ review[p].at = "asked"
    /\ \/ /\ needInjected(p) => containerInjected(p)
          /\ Allow(p, review[p].containers)
       \/ /\ needInjected(p) /\ ~containerInjected(p)
          /\ LabelOf[p] \in DOMAIN cache
          /\ Allow(p, responsePatch(p))
       \/ /\ needInjected(p) /\ ~containerInjected(p)
          /\ LabelOf[p] \notin DOMAIN cache
          /\ Refuse(p)
    /\ UNCHANGED <<vars, serving, pod>>

(* The API server creates the pod as it was answered, whatever was done to *)
(* its workload or to the Container meanwhile.                             *)
Create(p) ==
    /\ review[p].at = "allowed"
    /\ pod' = [pod EXCEPT ![p] = review[p].containers]
    /\ review' = [review EXCEPT ![p] = NoReview]
    /\ UNCHANGED <<vars, serving>>

(* HttpsServer.ServeTLS stops to serve: asked to by /preStop, or because   *)
(* the context was cancelled.                                              *)
StopServing ==
    /\ serving
    /\ serving' = FALSE
    /\ UNCHANGED <<vars, review, pod>>

(* Requests that Shutdown did not wait for any longer are cut off. *)
CutOff(p) ==
    /\ ~serving
    /\ review[p].at = "asked"
    /\ review' = [review EXCEPT ![p] = NoReview]
    /\ UNCHANGED <<vars, serving, pod>>

(* Pods go away. *)
Evict(p) ==
    /\ pod[p] # None
    /\ pod' = [pod EXCEPT ![p] = None]
    /\ UNCHANGED <<vars, serving, review>>

(* What was asked of the process and not answered is refused. *)
WebhookRestart ==
    /\ Restart
    /\ serving' = TRUE
    /\ review' = [p \in Pods |-> IF review[p].at = "asked" THEN NoReview ELSE review[p]]
    /\ UNCHANGED pod

WebhookInit ==
    /\ Init
    /\ serving = TRUE
    /\ review = [p \in Pods |-> NoReview]
    /\ pod = [p \in Pods |-> None]

WebhookNext ==
    \/ Step /\ UNCHANGED <<serving, review, pod>>
    \/ WebhookRestart
    \/ StopServing
    \/ \E p \in Pods : Ask(p) \/ ServeHTTP(p) \/ Create(p) \/ CutOff(p) \/ Evict(p)

(* The controller of a workload tries until its pods are there; requests   *)
(* are answered while the server serves; an informer whose context is not  *)
(* cancelled lists what exists.                                            *)
WebhookFairness ==
    /\ Fairness
    /\ \A p \in Pods : WF_allVars(Ask(p))
    /\ \A p \in Pods : WF_allVars(serving /\ ServeHTTP(p))
    /\ \A p \in Pods : WF_allVars(Create(p))
    /\ \A o \in Objects : WF_vars(~cancelled /\ List(o))

WebhookSpec == WebhookInit /\ [][WebhookNext]_allVars /\ WebhookFairness

-----------------------------------------------------------------------------
(* Properties *)

(* A labelled pod never runs without the container its label names: while  *)
(* the cache is still empty after a restart, or the Container is deleted   *)
(* while the pod is asked about, pods are refused (the flow chart          *)
(* webhook处理流程图.mmd).                                                 *)
LabelledPodsAreWhole ==
    \A p \in Pods :
        pod[p] # None /\ LabelOf[p] # None => pod[p][LabelOf[p]] # None

(* Refusals end: a pod whose workload exists and whose Container exists    *)
(* gets in, although each restart empties the cache and nothing makes the  *)
(* webhook wait until it is filled -- unless the control plane is being    *)
(* stopped: its HTTPS server and its informers are the first to end        *)
(* (startup.go:65-70), and pods are refused until it is started again.     *)
RefusalsEnd ==
    \A p \in Pods : \A o \in Objects :
        (pod[p] = None /\ Template(p) # None /\ crd[o] # None /\ crd[o].name = LabelOf[p])
            ~> \/ pod[p] # None \/ Template(p) = None \/ crd[o] = None
               \/ cancelled \/ ~serving
=============================================================================
