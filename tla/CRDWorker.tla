------------------------------ MODULE CRDWorker ------------------------------
(***************************************************************************)
(* internal/ctrl/worker: how a change of a Container resource reaches the  *)
(* templates of the labelled Deployments and StatefulSets.  The informer   *)
(* calls the handlers of CRDHandlers, which update the shared container    *)
(* cache and enqueue a key <type>/<namespace>/<container>; the goroutines  *)
(* of CRDWorker.Run take keys, list the workloads and update them one by   *)
(* one, and put a key that failed back with a backoff.                     *)
(*                                                                         *)
(* Each access to the cache or the queue is under a lock and each call to  *)
(* the API server is one request, so each is a step; between any two of    *)
(* them informers, users, other workers and a restart can act.             *)
(***************************************************************************)
EXTENDS Integers, FiniteSets, WorkQueue

CONSTANTS
    Objects,       (* Container resources of the API server                 *)
    Names,         (* container names: Spec.Name, the key of the cache      *)
    Images,        (* everything else a Container specifies                 *)
    Deployments, StatefulSets,   (* the workloads that carry the label      *)
    Bare,          (* workloads with no container but those of Names        *)
    Namespaces, NamespaceOf,     (* of Objects and of workloads             *)
    NamesOf,       (* object -> the names its specification may give        *)
    Workers,       (* goroutines started by Run                             *)
    MaxRetries,    (* --crd-worker-max-retries; negative is without end     *)
    MaxChanges, MaxEdits, MaxFaults, MaxRestarts,  (* bounds of the model   *)
    None

Workloads == Deployments \cup StatefulSets

(* Deployments and StatefulSets are of different kinds. *)
ASSUME ClusterAssumption ==
    /\ Deployments \cap StatefulSets = {}
    /\ Bare \subseteq Workloads
    /\ NamespaceOf \in [Objects \cup Workloads -> Namespaces]
    /\ NamesOf \in [Objects -> SUBSET Names]
    /\ None \notin Images \cup Names
    /\ MaxRetries \in Int
    /\ {MaxChanges, MaxEdits, MaxFaults, MaxRestarts} \subseteq Nat

VARIABLES
    crd,        (* object -> its specification as last reported, or None    *)
    unlisted,   (* objects a restarted informer has not reported yet        *)
    handler,    (* the callback the informer's goroutine is in              *)
    cache,      (* GeneralCache: name -> image                              *)
    queue,      (* the work queue                                           *)
    workloads,  (* workload -> its pod template, or None                    *)
    worker,     (* worker -> the reconciliation it is in                    *)
    cancelled,  (* the context of Run                                       *)
    used,       (* how much of each bound was used                          *)
    owed        (* <<key, workload>>: an observer's list of the changes     *)
                (* that were cached and that no later event replaced        *)

vars == <<crd, unlisted, handler, cache, queue, workloads, worker, cancelled, used, owed>>

Key(type, ns, name) == [type |-> type, ns |-> ns, name |-> name]

Keys == {Key(t, ns, n) : t \in {"Add", "Update", "Delete"}, ns \in Namespaces, n \in Names}

Specs(o) == [name : NamesOf[o], image : Images]

(* A pod template: the image of each container of Names it has.  A name    *)
(* occurs once among its containers and init containers.                   *)
Templates == [Names -> Images \cup {None}]

Spend(what, bound) ==
    /\ used[what] < bound
    /\ used' = [used EXCEPT ![what] = @ + 1]

-----------------------------------------------------------------------------
(* pkg/cache/general_cache.go *)

(* Mutated form of CacheUpdate: Update keeps the old value, as Add does. *)
CacheUpdateKeeps(c, n, i) == c

(* Mutated form of CacheDelete: the entry is emptied, not removed. *)
CacheDeleteEmpties(c, n) == [c EXCEPT ![n] = None]

(* Mutated form of CacheAdd: what is there is replaced, and nothing added. *)
CacheAddKnown(c, n, i) == IF n \in DOMAIN c THEN [c EXCEPT ![n] = i] ELSE c

CacheAdd(c, n, i)    == [x \in DOMAIN c \cup {n} |-> IF x \in DOMAIN c THEN c[x] ELSE i]
CacheUpdate(c, n, i) == IF n \in DOMAIN c THEN [c EXCEPT ![n] = i] ELSE c
CacheDelete(c, n)    == Restrict(c, DOMAIN c \ {n})

-----------------------------------------------------------------------------
(* crd_handlers.go.  The callback the informer's goroutine is in: before   *)
(* its access to the cache, or between that and the one to the queue.      *)

NoCall == [at |-> "none", key |-> None, image |-> None]

Call(type, o, spec) ==
    [at |-> "cache", key |-> Key(type, NamespaceOf[o], spec.name), image |-> spec.image]

(* enqueue: the end of each callback that is not skipped. *)
enqueue ==
    /\ handler.at = "queue"
    /\ queue' = Added(queue, handler.key)
    /\ handler' = NoCall
    /\ UNCHANGED <<cache, owed>>

Existing(ns) == {x \in Workloads : workloads[x] # None /\ NamespaceOf[x] = ns}

(* The observer's: what was owed for the container of key k is replaced by *)
(* k itself, owed to every workload of the namespace; an addition is owed  *)
(* to nobody (the webhook injects).                                        *)
OthersOwed(k) == {d \in owed : ~(d[1].ns = k.ns /\ d[1].name = k.name)}

NowOwed(k) ==
    OthersOwed(k) \cup (IF k.type = "Add" THEN {} ELSE {<<k, x>> : x \in Existing(k.ns)})

(* The access to the cache: c is what it holds then. *)
Cached(c) ==
    /\ cache' = c
    /\ owed' = NowOwed(handler.key)
    /\ handler' = [handler EXCEPT !.at = "queue"]
    /\ UNCHANGED queue

(* The callback returns before it enqueues. *)
Skip == handler' = NoCall /\ UNCHANGED <<cache, queue, owed>>

OnAdded ==
    /\ handler.key.type = "Add"
    /\ \/ handler.at = "cache" /\ Cached(CacheAdd(cache, handler.key.name, handler.image))
       \/ enqueue

(* Mutated form of OnUpdated: the key is enqueued before the cache is      *)
(* written.                                                                *)
OnUpdatedQueueFirst ==
    /\ handler.key.type = "Update"
    /\ \/ /\ handler.at = "cache" /\ handler.key.name \in DOMAIN cache
          /\ queue' = Added(queue, handler.key)
          /\ handler' = [handler EXCEPT !.at = "queue"]
          /\ UNCHANGED <<cache, owed>>
       \/ /\ handler.at = "cache" /\ handler.key.name \notin DOMAIN cache
          /\ Skip
       \/ /\ handler.at = "queue"
          /\ cache' = CacheUpdate(cache, handler.key.name, handler.image)
          /\ owed' = NowOwed(handler.key)
          /\ handler' = NoCall
          /\ UNCHANGED queue

OnUpdated ==
    /\ handler.key.type = "Update"
    /\ \/ /\ handler.at = "cache"
          /\ IF handler.key.name \in DOMAIN cache
             THEN Cached(CacheUpdate(cache, handler.key.name, handler.image))
             ELSE Skip
       \/ enqueue

OnDeleted ==
    /\ handler.key.type = "Delete"
    /\ \/ /\ handler.at = "cache"
          /\ IF handler.key.name \in DOMAIN cache
             THEN Cached(CacheDelete(cache, handler.key.name))
             ELSE Skip
       \/ enqueue

(* The informer's goroutine goes on with the callback it is in. *)
Callback ==
    /\ handler # NoCall
    /\ OnAdded \/ OnUpdated \/ OnDeleted
    /\ UNCHANGED <<crd, unlisted, workloads, worker, cancelled, used>>

(* The informer reports an object as s (None: gone), once its goroutine    *)
(* has returned from the callback before.  When a report comes late or     *)
(* changes are merged makes no difference to anyone but the user, so the   *)
(* object changes as it is reported.                                       *)
Report(o, s) ==
    LET known == IF o \in unlisted THEN None ELSE crd[o]
    IN  /\ handler = NoCall
        /\ crd' = [crd EXCEPT ![o] = s]
        /\ unlisted' = unlisted \ {o}
        /\ \/ known = None /\ s # None /\ handler' = Call("Add", o, s)
           \/ known # None /\ s # None /\ handler' = Call("Update", o, s)
           \/ known # None /\ s = None /\ handler' = Call("Delete", o, known)
           \/ known = None /\ s = None /\ UNCHANGED handler
        /\ UNCHANGED <<cache, queue, workloads, worker, cancelled, owed>>

Change(o, s) == Spend("changes", MaxChanges) /\ Report(o, s)

(* After a restart the informer reports what exists as added. *)
List(o) == o \in unlisted /\ Report(o, crd[o]) /\ UNCHANGED used

-----------------------------------------------------------------------------
(* crd_worker.go: container manipulation *)

WithUpdated(t, n, i) == IF t[n] = None THEN t ELSE [t EXCEPT ![n] = i]

WithRemoved(t, n) == [t EXCEPT ![n] = None]

(* The reconciliation a worker is in: the container it read from the       *)
(* cache, the listed workloads it has still to update, those of them that  *)
(* did not change since they were listed, and whether an error was met.    *)
At(step, k, i) ==
    [at |-> step, key |-> k, image |-> i, todo |-> {}, fresh |-> {}, failed |-> FALSE]

Idle    == At("idle", None, None)
Stopped == At("stopped", None, None)

Enter(w, state) == worker' = [worker EXCEPT ![w] = state]

Rest == <<crd, unlisted, handler, cancelled>>

(* Mutated form of Got: the key is done as soon as it is taken. *)
TakenAndDone(q) == DoneWith(Got(q), Head(q.items))

Taken(q) == Got(q)

(* runWorker: Get gives a key, or tells of the shutdown. *)
Take(w) ==
    /\ worker[w] = Idle
    /\ queue.items # <<>>
    /\ queue' = Taken(queue)
    /\ Enter(w, At("start", Head(queue.items), None))
    /\ UNCHANGED <<Rest, cache, workloads, used, owed>>

(* Mutated form of MayStop: a worker leaves at the shutdown, whatever is   *)
(* still queued.                                                           *)
MayStopAtOnce == queue.down

MayStop == queue.down /\ queue.items = <<>>

Stop(w) ==
    /\ worker[w] = Idle
    /\ MayStop
    /\ Enter(w, Stopped)
    /\ UNCHANGED <<Rest, cache, queue, workloads, used, owed>>

(* Mutated form of ShouldRetry: a negative maxRetries is a limit too. *)
ShouldRetryLimited(k) == NumRequeues(queue, k) < MaxRetries

(* shouldRetry. *)
ShouldRetry(k) == MaxRetries < 0 \/ NumRequeues(queue, k) < MaxRetries

(* AddRateLimited; a count that shouldRetry never reads is not kept.       *)
Requeued(k) ==
    IF MaxRetries < 0 THEN [RateLimited(queue, k) EXCEPT !.requeues = EmptyQueue.requeues]
    ELSE RateLimited(queue, k)

(* Mutated form of Finish: an error is logged and forgotten. *)
FinishForgets(w, failed) ==
    LET k == worker[w].key
    IN  /\ queue' = DoneWith(Forgotten(queue, k), k)
        /\ UNCHANGED owed
        /\ Enter(w, Idle)
        /\ UNCHANGED <<Rest, cache, workloads>>

(* Key k was added, waits for its backoff, or is about to be added.        *)
ToCome(k) ==
    \/ k \in queue.dirty \cup queue.waiting
    \/ handler.at = "queue" /\ handler.key = k

(* The end of process: AddRateLimited or Forget, and the deferred Done.    *)
(* What a bounded number of retries gives up, and no other reconciliation  *)
(* of the key is to come for, is no longer owed.                           *)
Finish(w, failed) ==
    LET k == worker[w].key
    IN  /\ IF failed /\ ShouldRetry(k)
           THEN queue' = DoneWith(Requeued(k), k) /\ UNCHANGED owed
           ELSE /\ queue' = DoneWith(Forgotten(queue, k), k)
                /\ owed' = IF failed /\ MaxRetries >= 0 /\ ~ToCome(k)
                           THEN {d \in owed : d[1] # k} ELSE owed
        /\ Enter(w, Idle)
        /\ UNCHANGED <<Rest, cache, workloads>>

(* processEvent: an addition is done; an update reads the cache, and is    *)
(* done if the container is gone; a deletion does not read the cache.      *)
Begin(w) ==
    LET k == worker[w].key
    IN  /\ worker[w].at = "start"
        /\ UNCHANGED used
        /\ IF \/ k.type = "Add"
              \/ k.type = "Update" /\ k.name \notin DOMAIN cache
           THEN Finish(w, FALSE)
           ELSE /\ Enter(w, At("listing", k, IF k.type = "Update" THEN cache[k.name] ELSE None))
                /\ UNCHANGED <<Rest, cache, queue, workloads, owed>>

(* listDeployments and listStatefulSets: the request is answered, or it    *)
(* fails and the reconciliation ends with the error.                       *)
Listed(w, kind, step) ==
    \/ LET found == kind \cap Existing(worker[w].key.ns)
       IN  /\ Enter(w, [worker[w] EXCEPT !.at = step, !.todo = found, !.fresh = found])
           /\ UNCHANGED <<Rest, cache, queue, workloads, used, owed>>
    \/ Spend("faults", MaxFaults) /\ Finish(w, TRUE)

ListDeployments(w) ==
    worker[w].at = "listing" /\ Listed(w, Deployments, "deployments")

ListStatefulSets(w) ==
    /\ worker[w].at = "deployments"
    /\ worker[w].todo = {}
    /\ Listed(w, StatefulSets, "statefulsets")

(* deployWithContainerUpdated, statefulsetWithContainerRemoved, and so on. *)
Reconciled(w, t) ==
    LET k == worker[w].key
    IN  IF k.type = "Update" THEN WithUpdated(t, k.name, worker[w].image)
        ELSE WithRemoved(t, k.name)

(* The API server refuses a workload that changed since it was listed, and *)
(* a template without containers.                                          *)
Valid(x, t) == x \in Bare => \E n \in Names : t[n] # None

Acceptable(w, x) ==
    /\ x \in worker[w].fresh
    /\ Valid(x, Reconciled(w, workloads[x]))

(* Workload x is changed to t: what was listed of it before is stale.  A   *)
(* request that changes nothing leaves the resource version as it is.      *)
Written(ws, x, t) ==
    /\ workloads' = [workloads EXCEPT ![x] = t]
    /\ worker' = IF t = workloads[x] THEN ws
                 ELSE [v \in Workers |-> [ws[v] EXCEPT !.fresh = @ \ {x}]]

(* updateDeployment or updateStatefulSet of x, in the order of the list,   *)
(* which is any.  The request is carried out and answered; or carried out  *)
(* and the answer lost (the 5 s timeout); or refused; or it does not       *)
(* arrive.  An error is kept and the loop goes on.                         *)
UpdateWorkload(w, x) ==
    LET ok  == [worker EXCEPT ![w].todo = @ \ {x}]
        err == [ok EXCEPT ![w].failed = TRUE]
    IN  /\ x \in worker[w].todo
        /\ \/ /\ Acceptable(w, x)
              /\ Written(ok, x, Reconciled(w, workloads[x]))
              /\ UNCHANGED used
           \/ /\ Acceptable(w, x)
              /\ Written(err, x, Reconciled(w, workloads[x]))
              /\ Spend("faults", MaxFaults)
           \/ /\ \/ ~Acceptable(w, x) /\ UNCHANGED used
                 \/ Spend("faults", MaxFaults)
              /\ worker' = err
              /\ UNCHANGED workloads
        /\ UNCHANGED <<Rest, cache, queue, owed>>

(* errors.Join: the reconciliation failed if any update did.               *)
EndReconcile(w) ==
    /\ worker[w].at = "statefulsets"
    /\ worker[w].todo = {}
    /\ Finish(w, worker[w].failed)
    /\ UNCHANGED used

-----------------------------------------------------------------------------
(* The backoff of a key elapses. *)
BackoffElapses(k) ==
    /\ k \in queue.waiting
    /\ queue' = Elapsed(queue, k)
    /\ UNCHANGED <<Rest, cache, workloads, worker, used, owed>>

(* The context of StartUp is cancelled. *)
Cancel ==
    /\ ~cancelled
    /\ cancelled' = TRUE
    /\ UNCHANGED <<crd, unlisted, handler, cache, queue, workloads, worker, used, owed>>

(* Mutated form of Run: the queue is not shut down. *)
RunWaits == UNCHANGED vars

(* Run, once its context is cancelled. *)
Run ==
    /\ cancelled
    /\ ~queue.down
    /\ queue' = ShutDown(queue)
    /\ UNCHANGED <<Rest, cache, workloads, worker, used, owed>>

(* A user creates, changes or deletes a workload.  The worker does not     *)
(* watch workloads, so nothing is owed to the new template.                *)
Edit(x, t) ==
    /\ Spend("edits", MaxEdits)
    /\ t # workloads[x]
    /\ t # None => Valid(x, t)
    /\ Written(worker, x, t)
    /\ owed' = {d \in owed : d[2] # x}
    /\ UNCHANGED <<Rest, cache, queue>>

(* The process crashes, or ends, and is started again: it knows nothing.   *)
Restart ==
    /\ Spend("restarts", MaxRestarts)
    /\ unlisted' = {o \in Objects : crd[o] # None}
    /\ handler' = NoCall
    /\ cache' = [n \in {} |-> None]
    /\ queue' = EmptyQueue
    /\ worker' = [w \in Workers |-> Idle]
    /\ cancelled' = FALSE
    /\ owed' = {}
    /\ UNCHANGED <<crd, workloads>>

Init ==
    /\ crd \in [Objects -> {None} \cup UNION {Specs(o) : o \in Objects}]
    /\ \A o \in Objects : crd[o] \in Specs(o) \cup {None}
    /\ unlisted = {o \in Objects : crd[o] # None}
    /\ handler = NoCall
    /\ cache = [n \in {} |-> None]
    /\ queue = EmptyQueue
    /\ workloads \in [Workloads -> Templates \cup {None}]
    /\ \A x \in Workloads : workloads[x] # None => Valid(x, workloads[x])
    /\ worker = [w \in Workers |-> Idle]
    /\ cancelled = FALSE
    /\ used = [changes |-> 0, edits |-> 0, faults |-> 0, restarts |-> 0]
    /\ owed = {}

WorkerStep(w) ==
    \/ Take(w)
    \/ Stop(w)
    \/ Begin(w)
    \/ ListDeployments(w)
    \/ ListStatefulSets(w)
    \/ \E x \in Workloads : UpdateWorkload(w, x)
    \/ EndReconcile(w)

Step ==
    \/ \E o \in Objects : \E s \in Specs(o) \cup {None} : Change(o, s)
    \/ \E o \in Objects : List(o)
    \/ Callback
    \/ \E w \in Workers : WorkerStep(w)
    \/ \E k \in Keys : BackoffElapses(k)
    \/ Cancel
    \/ Run
    \/ \E x \in Workloads, t \in Templates \cup {None} : Edit(x, t)

Next == Step \/ Restart

(* Goroutines run, the delaying queue of the work queue is one of them,    *)
(* and requests are answered or time out.  The informer's goroutine runs   *)
(* as long as its context is not cancelled.                                *)
Fairness ==
    /\ WF_vars(~cancelled /\ Callback)
    /\ \A w \in Workers : WF_vars(WorkerStep(w))
    /\ \A k \in Keys : WF_vars(BackoffElapses(k))
    /\ WF_vars(Run)

Spec     == Init /\ [][Next]_vars
FairSpec == Spec /\ Fairness

-----------------------------------------------------------------------------
(* Properties *)

Reconciliation ==
    [at     : {"idle", "start", "listing", "deployments", "statefulsets", "stopped"},
     key    : Keys \cup {None},
     image  : Images \cup {None},
     todo   : SUBSET Workloads,
     fresh  : SUBSET Workloads,
     failed : BOOLEAN]

TypeOK ==
    /\ handler \in [at : {"none", "cache", "queue"}, key : Keys \cup {None}, image : Images \cup {None}]
    /\ crd \in [Objects -> {None} \cup [name : Names, image : Images]]
    /\ unlisted \subseteq {o \in Objects : crd[o] # None}
    /\ DOMAIN cache \subseteq Names
    /\ cache \in [DOMAIN cache -> Images]
    /\ queue.items \in Seq(Keys)
    /\ queue.dirty \subseteq Keys
    /\ queue.processing \subseteq Keys
    /\ queue.waiting \subseteq Keys
    /\ queue.requeues \in [DOMAIN queue.requeues -> Nat]
    /\ workloads \in [Workloads -> Templates \cup {None}]
    /\ worker \in [Workers -> Reconciliation]
    /\ cancelled \in BOOLEAN
    /\ owed \subseteq {k \in Keys : k.type # "Add"} \X Workloads

(* What is owed to x by key k is settled when x is gone, does not have the *)
(* container, or has it as the cache says (a deleted container is not in   *)
(* the cache, so x must not have it).                                      *)
Settled(k, x) ==
    \/ workloads[x] = None
    \/ workloads[x][k.name] = None
    \/ k.type = "Update" /\ k.name \in DOMAIN cache /\ workloads[x][k.name] = cache[k.name]

(* A worker will yet write what is owed to x, or will retry.               *)
UnderWay(w, k, x) ==
    LET r == worker[w]
    IN  /\ r.key = k
        /\ \/ r.at = "start"
           \/ r.failed
           \/ /\ k.type = "Update" => k.name \in DOMAIN cache /\ r.image = cache[k.name]
              /\ \/ r.at = "listing"
                 \/ r.at = "deployments" /\ x \in StatefulSets \cup r.todo
                 \/ r.at = "statefulsets" /\ x \in r.todo

(* No change is lost: as long as the process runs and the queue is not     *)
(* shut down, a workload that does not show the latest change of a         *)
(* container yet has that change about to be queued by the handler that    *)
(* cached it, queued, waiting for its backoff, or with a worker that has   *)
(* still to write it or already knows that it failed -- though workers     *)
(* read the cache between the two accesses of a handler, changes of one    *)
(* container share a key, the value is read before the workloads are       *)
(* listed, and writes conflict and fail.                                   *)
NoChangeIsLost ==
    ~queue.down =>
        \A d \in owed :
            \/ Settled(d[1], d[2])
            \/ ToCome(d[1])
            \/ \E w \in Workers : UnderWay(w, d[1], d[2])

(* No key is reconciled by two workers at a time, although handlers add it *)
(* again while it is being reconciled.                                     *)
OneWorkerPerKey ==
    \A v, w \in Workers : v # w /\ worker[v].key = worker[w].key => worker[v].key = None

(* When every worker has left, every key that was queued at the shutdown,  *)
(* or added while it was being reconciled, was reconciled.                 *)
DrainedAtStop ==
    (\A w \in Workers : worker[w].at = "stopped") =>
        queue.items = <<>> /\ queue.dirty = {} /\ queue.processing = {}

(* "Each callback updates the shared cache" (comment at                    *)
(* crd_handlers.go:13): what the informer reported is what is cached, but  *)
(* for the container whose callback has not reached the cache yet.         *)
CacheFollowsCRD ==
    LET cached   == {[name |-> n, image |-> cache[n]] : n \in DOMAIN cache}
        reported == {crd[o] : o \in {p \in Objects \ unlisted : crd[p] # None}}
        Others(specs) == {c \in specs : handler.at = "cache" => c.name # handler.key.name}
    IN  Others(cached) = Others(reported)

(* Every owed change is settled in the end, unless a later event or a      *)
(* user's edit takes its place or the queue is shut down: with unlimited   *)
(* retries no number of conflicts and failed requests makes the worker     *)
(* give up.  A workload whose last container was deleted is the exception, *)
(* the API server never accepts it; it does not hold up the others.        *)
ChangesSettle ==
    \A k \in Keys : \A x \in Workloads :
        k.type # "Delete" \/ x \notin Bare =>
            (<<k, x>> \in owed ~> <<k, x>> \notin owed \/ Settled(k, x) \/ cancelled)

(* Run returns once its context is cancelled, even when a key fails time   *)
(* after time and would be retried without end.                            *)
RunReturns ==
    cancelled ~> (~cancelled \/ \A w \in Workers : worker[w].at = "stopped")
=============================================================================
