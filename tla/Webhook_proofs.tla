--------------------------- MODULE Webhook_proofs ---------------------------
(***************************************************************************)
(* Proofs about Webhook, over the invariant of the CRD worker it shares    *)
(* the container cache with: no labelled pod runs without its container,   *)
(* and, asked at any moment, the webhook leaves the worker as it is, so    *)
(* what is proved of the worker alone holds of the two together.           *)
(***************************************************************************)
EXTENDS Webhook, CRDWorker_proofs

Containers == [Names -> Images \cup {None}]

(* What a pod with label l may be created from. *)
Whole(l, c) == c \in Containers /\ (l # None => c[l] # None)

(* The pods there are, and those that were allowed, are whole; those that  *)
(* are asked about have the containers of a template.                      *)
PodInv ==
    /\ pod \in [Pods -> Containers \cup {None}]
    /\ review \in [Pods -> {NoReview} \cup [at : {"asked", "allowed"}, containers : Containers]]
    /\ \A p \in Pods : pod[p] # None => Whole(LabelOf[p], pod[p])
    /\ \A p \in Pods : review[p].at = "allowed" => Whole(LabelOf[p], review[p].containers)

WebhookInv == Inv /\ PodInv

(* The review of one pod goes on. *)
LEMMA EntersKeeps ==
    ASSUME PodInv, NEW p \in Pods, NEW step \in {"asked", "allowed"}, NEW c \in Containers,
           step = "allowed" => Whole(LabelOf[p], c),
           Enters(p, step, c), UNCHANGED pod
    PROVE  PodInv'
<1>1. review' = [review EXCEPT ![p] = [at |-> step, containers |-> c]]
  BY DEF Enters
<1> DEFINE r == [at |-> step, containers |-> c]
<1>2. r \in [at : {"asked", "allowed"}, containers : Containers] /\ r.at = step /\ r.containers = c
  OBVIOUS
<1> HIDE DEF r
<1>3. review'[p] = r /\ \A q \in Pods \ {p} : review'[q] = review[q]
  BY <1>1 DEF PodInv, r
<1>4. review' \in [Pods -> {NoReview} \cup [at : {"asked", "allowed"}, containers : Containers]]
  BY <1>1, <1>2 DEF PodInv, r
<1>5. \A q \in Pods : review'[q].at = "allowed" => Whole(LabelOf[q], review'[q].containers)
  BY <1>2, <1>3 DEF PodInv
<1>6. QED
  BY <1>4, <1>5 DEF PodInv

(* The reviews of some pods are over. *)
LEMMA DroppedKeeps ==
    ASSUME PodInv, \A p \in Pods : review'[p] = review[p] \/ review'[p] = NoReview,
           review' = [p \in Pods |-> review'[p]],
           pod' \in [Pods -> Containers \cup {None}],
           \A p \in Pods : pod'[p] # None => Whole(LabelOf[p], pod'[p])
    PROVE  PodInv'
<1>1. \A p \in Pods : review'[p] \in {NoReview} \cup [at : {"asked", "allowed"}, containers : Containers]
  BY DEF PodInv
<1>2. review' \in [Pods -> {NoReview} \cup [at : {"asked", "allowed"}, containers : Containers]]
  BY <1>1
<1>3. \A p \in Pods : review'[p].at = "allowed" => Whole(LabelOf[p], review'[p].containers)
  BY DEF PodInv, NoReview
<1>4. QED
  BY <1>2, <1>3 DEF PodInv

LEMMA ReviewOver ==
    ASSUME PodInv, NEW p \in Pods, review' = [review EXCEPT ![p] = NoReview]
    PROVE  /\ \A q \in Pods : review'[q] = review[q] \/ review'[q] = NoReview
           /\ review' = [q \in Pods |-> review'[q]]
<1>1. review \in [Pods -> {NoReview} \cup [at : {"asked", "allowed"}, containers : Containers]]
  BY DEF PodInv
<1>2. QED
  BY <1>1

LEMMA ServeHTTPWhole ==
    ASSUME WebhookInv, NEW p \in Pods, ServeHTTP(p)
    PROVE  PodInv'
<1> DEFINE l == LabelOf[p]
           c == review[p].containers
<1>1. /\ None \notin Images /\ DOMAIN cache \subseteq Names /\ cache \in [DOMAIN cache -> Images]
      /\ PodInv /\ l \in Names \cup {None} /\ UNCHANGED pod
  BY ClusterAssumption, PodAssumption DEF WebhookInv, Inv, TypeRest, ServeHTTP
<1>2. c \in Containers
  BY <1>1 DEF ServeHTTP, PodInv, NoReview
<1>3. ASSUME NEW d, Whole(l, d), Allow(p, d)
      PROVE  PodInv'
  BY <1>1, <1>3, EntersKeeps DEF Allow, Whole
<1>4. CASE (needInjected(p) => containerInjected(p)) /\ Allow(p, c)
  <2>1. Whole(l, c)
    BY <1>2, <1>4 DEF needInjected, containerInjected, Whole
  <2>2. QED
    BY <1>3, <1>4, <2>1
<1>5. CASE l \in DOMAIN cache /\ Allow(p, responsePatch(p))
  <2>1. cache[l] \in Images /\ l \in Names
    BY <1>1, <1>5
  <2>2. responsePatch(p) = [c EXCEPT ![l] = cache[l]]
    BY DEF responsePatch
  <2>3. Whole(l, responsePatch(p))
    BY <1>1, <1>2, <2>1, <2>2 DEF Whole, Containers
  <2>4. QED
    BY <1>3, <1>5, <2>3
<1>6. CASE Refuse(p)
  BY <1>1, <1>6, ReviewOver, DroppedKeeps DEF Refuse, PodInv
<1>7. QED
  BY <1>4, <1>5, <1>6 DEF ServeHTTP

LEMMA CreateWhole ==
    ASSUME WebhookInv, NEW p \in Pods, Create(p)
    PROVE  PodInv'
<1>1. /\ PodInv /\ pod \in [Pods -> Containers \cup {None}]
      /\ review' = [review EXCEPT ![p] = NoReview]
      /\ pod' = [pod EXCEPT ![p] = review[p].containers]
      /\ Whole(LabelOf[p], review[p].containers)
  BY DEF WebhookInv, PodInv, Create
<1>2. pod' \in [Pods -> Containers \cup {None}] /\ pod'[p] = review[p].containers
      /\ \A q \in Pods \ {p} : pod'[q] = pod[q]
  BY <1>1 DEF Whole
<1>3. \A q \in Pods : pod'[q] # None => Whole(LabelOf[q], pod'[q])
  BY <1>1, <1>2 DEF PodInv
<1>4. QED
  BY <1>1, <1>2, <1>3, ReviewOver, DroppedKeeps

LEMMA WebhookInductive == WebhookInv /\ [WebhookNext]_allVars => WebhookInv'
<1> SUFFICES ASSUME WebhookInv, [WebhookNext]_allVars PROVE WebhookInv'
  OBVIOUS
<1>1. PodInv /\ pod \in [Pods -> Containers \cup {None}]
  BY DEF WebhookInv, PodInv
<1>2. [Next]_vars
  BY DEF WebhookNext, WebhookRestart, StopServing, Ask, ServeHTTP, Create, CutOff, Evict, allVars, Next
<1>3. Inv'
  BY <1>2, NextInv DEF WebhookInv
<1> SUFFICES PodInv'
  BY <1>3 DEF WebhookInv
<1>4. CASE UNCHANGED <<review, pod>>
  BY <1>1, <1>4 DEF PodInv
<1>5. CASE WebhookRestart
  <2>1. review' = [p \in Pods |-> IF review[p].at = "asked" THEN NoReview ELSE review[p]] /\ UNCHANGED pod
    BY <1>5 DEF WebhookRestart
  <2>2. \A p \in Pods : review'[p] = review[p] \/ review'[p] = NoReview
    BY <2>1
  <2>3. review' = [p \in Pods |-> review'[p]]
    BY <2>1
  <2>4. QED
    BY <1>1, <2>1, <2>2, <2>3, DroppedKeeps DEF PodInv
<1>6. ASSUME NEW p \in Pods, Ask(p)
      PROVE  PodInv'
  <2>1. Template(p) \in Containers
    BY <1>6, PodAssumption DEF WebhookInv, Inv, TypeRest, Ask, Template, Templates, Containers
  <2>2. QED
    BY <1>1, <1>6, <2>1, EntersKeeps DEF Ask
<1>7. ASSUME NEW p \in Pods, CutOff(p)
      PROVE  PodInv'
  BY <1>1, <1>7, ReviewOver, DroppedKeeps DEF CutOff, PodInv
<1>8. ASSUME NEW p \in Pods, Evict(p)
      PROVE  PodInv'
  <2>1. pod' = [pod EXCEPT ![p] = None] /\ UNCHANGED review
    BY <1>8 DEF Evict
  <2>2. /\ pod' \in [Pods -> Containers \cup {None}]
        /\ \A q \in Pods : pod'[q] = None \/ pod'[q] = pod[q]
    BY <1>1, <2>1
  <2>3. QED
    BY <1>1, <2>1, <2>2 DEF PodInv
<1>9. QED
  BY <1>4, <1>5, <1>6, <1>7, <1>8, ServeHTTPWhole, CreateWhole DEF WebhookNext, StopServing, allVars

LEMMA WebhookInvariant == WebhookSpec => []WebhookInv
<1>1. WebhookInit => PodInv
  BY DEF WebhookInit, PodInv, NoReview
<1>2. WebhookInit => WebhookInv
  BY <1>1, InitInv DEF WebhookInit, WebhookInv
<1>3. QED
  BY <1>2, WebhookInductive, PTL DEF WebhookSpec

(* No labelled pod ever runs without the container its label names, for    *)
(* any number of pods, workers and restarts: mutateHandler.ServeHTTP lets  *)
(* in what already has the container, adds it from the cache, or refuses,  *)
(* and whatever changes before the pod is created, what was answered is    *)
(* whole.                                                                  *)
THEOREM PodsAreWhole == WebhookSpec => []LabelledPodsAreWhole
<1>1. WebhookInv => LabelledPodsAreWhole
  BY DEF WebhookInv, PodInv, Whole, LabelledPodsAreWhole
<1>2. QED
  BY <1>1, WebhookInvariant, PTL

-----------------------------------------------------------------------------
(* The worker under the webhook *)

(* Reading the cache for the API server is nothing the CRD worker could    *)
(* notice: with the webhook it still is the CRD worker, scheduling         *)
(* included.                                                               *)
THEOREM WorkerUndisturbed == WebhookSpec => FairSpec
<1>1. WebhookInit => Init
  BY DEF WebhookInit
<1>2. [WebhookNext]_allVars => [Next]_vars
  BY DEF WebhookNext, WebhookRestart, StopServing, Ask, ServeHTTP, Create, CutOff, Evict, allVars, Next
<1>3. QED
  BY <1>1, <1>2, PTL DEF WebhookSpec, WebhookFairness, FairSpec, Spec

LEMMA WorkerSafety == WebhookSpec => Spec
BY WorkerUndisturbed, PTL DEF FairSpec

(* Types, with the webhook. *)
THEOREM TypesWithWebhook == WebhookSpec => []TypeOK
BY WorkerSafety, TypeCorrect, PTL

(* No change of a Container is lost while pods are created and go, and     *)
(* while restarts empty the cache they are completed from.                 *)
THEOREM NothingIsLostWithWebhook ==
    ASSUME OneNamespacePerName
    PROVE  WebhookSpec => []NoChangeIsLost
BY WorkerSafety, NothingIsLost, PTL

(* What the webhook reads is what the informer reported: a pod is given    *)
(* the container of the Container resource.                                *)
THEOREM CacheIsReportedToWebhook ==
    ASSUME OneNameEach
    PROVE  WebhookSpec => []CacheFollowsCRD
BY WorkerSafety, CacheIsReported, PTL
=============================================================================
