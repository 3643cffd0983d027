# masha-mesh: models, checks and proofs

masha-mesh is a small service mesh. A control plane in Kubernetes injects a
sidecar container into labelled workloads, keeps the injected containers up to
date, and tells the sidecars the endpoints of the services they subscribe to.
A sidecar proxies the application's HTTP calls over those endpoints, with a
circuit breaker for each.

This directory holds TLA+ models of the parts of it that are hard to test, the
TLC configurations that check them on small instances, and theorems about them
that TLAPS checks for every value of the constants. `PROJECT.json` lists the
components, the runs, the source lines each definition models, the mutations
each property catches, the hazards, the disagreements found, and the theorems.

    tlc -config MCBreaker.cfg MCBreaker        # a run
    tlapm Breaker_proofs.tla                   # the proofs of a module

## The system

| Component | State | Operations | Talks to |
|---|---|---|---|
| circuit breaker `internal/cli/breaker` | a sub-breaker per endpoint: state, deadlines, probe counters, a ring of finished buckets, the current bucket | `Allowed`, `RecordSuccess`, `RecordTimeout`, `RecordNetworkFailure`, `RecordBusinessFailure` | called by the proxy transport around each request |
| circular queue `pkg/datastruct/queue` | a slice, `front`, `rear` | `Enqueue`, `Dequeue`, `List`, `Size`, `Reset` | the breaker's ring |
| CRD worker `internal/ctrl/worker` | the container cache, the work queue, one goroutine per worker | informer handlers; `process`, `reconcileUpdate`, `reconcileDelete`, `Run` | informer, API server, the webhook (through the cache) |
| endpoint distribution `internal/ctrl/grpcserver`, `reconciler`, `utils`, `resources` | cache of EndpointSlices, map of sidecars, a channel and a closed flag each, `ready` | informer handlers, `Publish`, `Subscribe`, `ListenAndServe` | informer, sidecars (gRPC streams) |
| sidecar subscriptions `internal/cli/stgsvr`, `rpcclient` | map of cancel functions, service cache, a goroutine per stream | `POST` and `DELETE /service/:svc-name`, applying events | the application, the control plane, the proxy (through the cache) |
| proxy transport `internal/cli/proxy/http_transport.go` | none of its own | `RoundTrip`: try the endpoints in turn | breaker, service cache, backends |
| proxy listener `internal/cli/proxy/listener.go` | a connection and its two goroutines | accept, HTTP or TCP forwarding | application, proxy transport |
| mutate webhook `internal/ctrl/hooks` | none of its own | one admission request | container cache |
| control-plane lifecycle `internal/ctrl` | a context, `stopCh` | `StartUp`, `ServeTLS`, `/preStop`, `/readyz`, `Shutdown` | all of the control plane |

What makes each of them hard, and what makes each correct:

* **Breaker.** Results arrive after the state changed, time advances the window
  lazily, several callers race for a few probes. Correct: a tripped endpoint is
  left alone for the cool-down, a half-open one gets a bounded number of calls,
  and each trip and each recovery rests on evidence of the right period.
* **Circular queue.** Indices wrap and one slot stays unused. Correct: it is a
  bounded first-in first-out queue.
* **CRD worker.** A callback writes the cache and adds the key in two lock
  sections, the cache is read before the workloads are listed, updates of a
  container share a key, writes conflict, answers are lost, keys are retried,
  added again while they are processed, and drained at shutdown. Correct: no
  change is lost, and each is settled in the end.
* **Endpoint distribution.** Registration races with shutdown, publication with
  closing, the snapshot with publications, and channels are bounded. Correct:
  no sidecar is left behind by a shutdown, nothing is sent on a closed channel,
  no client goes back to older endpoints, the server stops.
* **Sidecar subscriptions.** Handlers and receiving goroutines race on two
  maps. Correct: an unsubscription ends every stream of its service and the
  cache never goes back.
* **Proxy.** A connection is shared by the goroutine that accepted it and
  either an `http.Server`'s or two that copy; each side can end first, break off
  or stay silent. Correct: TCP is passed through whole, the response of an
  endpoint is returned, the first success ends the loop, every request the
  breaker let through has a result, and nothing of a connection is left running.
* **Mutate webhook.** It reads the same cache as the worker, which is empty after
  a restart, and a pod is asked about, answered and created between any steps of
  the informer and the workers. Correct: a labelled pod has its container or is
  refused, and is not refused for ever while the control plane runs.
* **Lifecycle.** The HTTPS server's end cancels everything else, three
  goroutines stop servers, and each of them may be told from two sides. Correct:
  `StartUp` returns once it was asked to or a part failed; HTTPS traffic ends
  before anything else does, unless a signal came; `/readyz` finds the gRPC server
  ready only while it takes subscriptions.

## The modules

| Module | Models | Composes |
|---|---|---|
| `BoundedFifo` | what a bounded queue promises: an abstract specification | |
| `CircularQueue` | `circularqueue.go`, shown to implement it | `BoundedFifo` by refinement |
| `CircularQueue_proofs` | the proofs | |
| `Breaker` | `breaker.go`, `subbreaker.go`, `counter.go`, and the calls of `http_transport.go` | |
| `Breaker_proofs` | the proofs | |
| `WorkQueue` | the client-go work queue, by its contract | |
| `CRDWorker` | `internal/ctrl/worker` with `general_cache.go` | `WorkQueue` |
| `CRDWorker_proofs` | the proofs | |
| `Webhook` | `mutate_webhook.go`, over the worker's cache and workloads | `CRDWorker` |
| `Webhook_proofs` | the proofs, over the invariant of the worker | `CRDWorker_proofs` |
| `EndpointSlices` | `endpointslice_cache.go` | |
| `Distribution` | what the distribution promises a client: an abstract specification | |
| `GrpcServer` | `server.go`, `distributer.go`, `sidecar.go`, `endpointslice_reconciler.go`, shown to implement it | `EndpointSlices`, `Distribution` by refinement |
| `GrpcServer_proofs` | the proofs | |
| `ControlPlane` | `startup.go`, `httpsvr.go`, `prestop.go`, `readyz.go`, `healthz.go`, `cmd/ctrl/app` | `GrpcServer` |
| `ControlPlane_proofs` | the proofs | |
| `SidecarClient` | `stgsvr`, `rpcclient` | |
| `SidecarClient_proofs` | the proofs | |
| `ProxyConnection` | `listener.go`, `http_transport.go` | |
| `ProxyConnection_proofs` | the proofs | |
| `MC...` | instances for TLC | the module they are named for |

### State and actions

Actions carry the names of the functions they model. A step is what runs
without another goroutine being able to act: a section under a lock, a request
to another process, a receive or a send.

* **`Breaker`**: `breakers` is `Breaker.subBreakers`; `calls` is the requests
  between `Allowed` and `record`; `now` is the clock in seconds. `advance` turns
  the window over elapsed intervals, in the order of the code, which queues empty
  buckets before the current one after a gap. `Tick` lets a call live no longer
  than the request timeout. `hist` is an observer's record of openings, probes
  and results. A bucket keeps its total and failed counts, since no other is read.
* **`CRDWorker`**: `handler` is the callback the informer's goroutine is in:
  before its access to the cache, or between that and `queue.Add`. `worker` is a worker's place in `process`, with the container
  it read, the listed workloads it has still to update (`todo`), and those that
  did not change since (`fresh`: the resource version the API server compares).
  A request is carried out and answered, or carried out and the answer lost, or
  refused, or does not arrive. An "image" stands for every field of a container
  but its name. `owed` is an observer's list of changes: which update or deletion
  each workload is still to show. It changes with the cache, so that a change is
  owed from the step on at which a worker could read it. An object changes at the
  step its report is delivered, since a report that comes late, or merges changes, is no different
  to the code. Counts of requeues are kept only where `shouldRetry` reads them.
* **`GrpcServer`**: `stream` is a `Subscribe` call with its `Sidecar`; `task` is
  the informer's goroutine between updating the cache and handing the message on;
  `main` and `stopper` are the two goroutines of `ListenAndServe`. `Informer`
  looks at the closed flag in one step (`Informer`) and sends in another
  (`Offer`), with `informerMtx` in between; the shutdown stores false in `ready`
  (`StopTaking`) and closes the receivers (`CloseReceivers`) in two steps, with
  `mtx` in between. A send finds the channel closed if and only if the locks let
  it: `CloseUnlocked`, a close without `informerMtx`, makes it. Two
  variables are an observer's: `history` keeps the endpoints each service had,
  and a stream's `told` the last state its client received; they are the
  variables of `Distribution`. A nil pointer, a nil function and a send on a
  closed channel set `panicked`, which ends the process.
* **`Webhook`**: `review` is the API server's request about a pod and `pod` what
  it created. `Ask` sends the pod as its template is, `ServeHTTP` answers from the
  cache of `CRDWorker`, `Create` makes the pod as it was answered, and anything can
  happen between them. `serving` is the HTTPS server, which ends at any moment
  (`StopServing`) and cuts requests off (`CutOff`); nobody is asked then, and with
  failurePolicy Fail (`build/ctrl/webhook.yml`) no pod is let in. Answers are
  assumed to be taken by the API server, although they carry no apiVersion and no
  kind (`mutate_webhook.go:113-142`).
* **`ControlPlane`**: `https` is the goroutine that calls `ServeTLS` and then
  `cancel`, `shutdown` the one that calls `Shutdown`, `others` the informers and
  the CRD worker, each one goroutine that ends. `request` is an HTTPS request
  with what it asks and how far it is; `stopCh` and the context are what stops
  things. The gRPC server is `GrpcServer`, whole. `Exit` is the end of `StartUp`
  and of the process, which cuts off what has no answer yet.
* **`SidecarClient`**: `request` is a handler's place; a POST's context, stream
  and goroutine are known by the request. Events have the number of the service
  state they tell; `applied` is the number last applied to the cache.

* **`ProxyConnection`**: `handler` is a connection's place in
  `handleConnection`, `server` its goroutine of `http.Server` with the request
  it serves, `copying` the two goroutines of `handleTCP`. `conn` and
  `targetConn` are open, closed for writing, or closed. The client's bytes are
  numbered chunks: on the `wire`, in the `buffer` that was peeked at, or with
  the target. `verdict` holds the loop of `loadBalance`: the endpoints still
  untried and what came of the others. What the breaker allows and how an
  endpoint answers is arbitrary.

## What the runs show

| Run | Bounds | Shows |
|---|---|---|
| `circular_queue` | capacity 3, all sequences of calls | the ring is a bounded FIFO wherever its indices stand |
| `breaker` | 1 endpoint, 2 callers, ring of 2, quota 2, 9 s, 5 calls | quota, shedding, evidence of trips and recoveries |
| `breaker_stale_window` | ring of 1, 9 s | **violation**: a trip can rest on results of any age |
| `crd_worker` (`MCWebhook`) | 1 worker as deployed, a Deployment and a StatefulSet, 1 Container, the webhook, 1 pod, 2 changes, 1 fault, 1 restart | no change is lost, the cache follows the resources, every change settles, `Run` returns; labelled pods are whole or refused, and refusals end unless the control plane stops |
| `crd_workers` | 2 workers, 2 containers of one workload, 1 retry, 2 changes, 1 edit, 1 fault, 1 restart | keys are never concurrent, nothing lost to conflicts, the queue is drained |
| `grpc_server` | `listFn` set; 2 sidecars of one service, 2 slices, channel of 2, 2 changes | registration against shutdown, sends against closing, publications against snapshots; clients are told what `Distribution` allows; the server stops |
| `grpc_list_fn` | as built, 1 sidecar | **violation**: an accepted `Subscribe` calls a nil `listFn` |
| `control_plane` | 2 HTTPS requests of any kind, 1 subscription, 2 signals, a failing HTTPS server | `StartUp` ends when asked to, `/preStop` ends the traffic first, the gRPC server is reported ready only while it takes subscriptions |
| `sidecar_client` | 4 requests, 1 service, 2 changes, POSTs awaited | DELETE ends every stream, the cache never goes back |
| `sidecar_race` | 3 requests, 1 service, 1 change | **violation**: overlapping POSTs leave a stream no DELETE ends |
| `proxy_connection` | 1 connection, 3 endpoints, 4 chunks up, 2 down | TCP whole and in order, first success returned, admissions settled, everything ends |
| `proxy_http_closed` | 1 request, 1 endpoint | **violation**: the connection is closed while its request is being answered |

Why the bounds are enough. The breaker needs two callers for a race and an old
call beside a probe; nine seconds hold two trips and a recovery with two-second
periods, and a ring of two shows eviction, gaps and clearing. Endpoints share no
breaker state. A lost change in `CRDWorker` needs an update that overtakes one
being written, a conflicting edit and one fault; two changes and one of each
cover the combinations, in `crd_workers`. `crd_worker` has no edits, so that its
liveness stays within reach: what fails there is a request that is lost, before
or after it was carried out, and the deletion of a template's only container,
which is refused for ever; a conflict takes the same path through the code as
either. Both container names of `crd_workers` are in one template, so that
workers with different keys conflict. One pod is enough for `Webhook`, where
pods share the cache only. In `GrpcServer` two sidecars of one service make
`Publish` choose; two slices make a merge, and a channel of two can hold a
snapshot and a publication in either order, and be full. Two changes cannot
delete a slice beside another; that the merged slice is whole then too is proved
(`MergedWhole`), for any number of changes. Two requests of `ControlPlane` are a
`/preStop` and one under way while it acts; the endpoints do not change there,
since `grpc_server` has that. Four requests of `SidecarClient` are a
subscription, its end, and two that race with either. In `ProxyConnection` the
peek waits for two chunks, the header has three and the request four, so that
each part can be in the buffer, on the wire or not sent when a connection is
closed; connections share nothing but the breaker.

`CHECK_DEADLOCK FALSE` is given where the model may stop: its bounds are used
up, a worker has left, a server has returned, or the process has panicked.
Symmetry is used only in runs without liveness properties. Bounds are the
constants `MaxTime`, `MaxCalls`, `MaxChanges`, `MaxEdits`, `MaxFaults`,
`MaxRestarts`; `Requests` and `Streams` bound the calls.

### Fairness

Weak fairness, and only of what the runtime gives:

* goroutines that can run do (`WorkerStep`, `Run`, `SubscribeStep`,
  `InformerStep`, `MainStep`, `StopperStep`, `HandlerStep`, `ReceiverStep`,
  `UpStep`, `DownStep`, `Watch`, `ServerStep`, `HttpsStep`, `ShutdownStep`,
  `OtherStep`, `Exit`);
* the delaying queue's own goroutine adds a key when its backoff has elapsed;
* a request to the API server is answered or times out after 5 s, so an update
  that was sent ends; which way it ends is not fair in any sense;
* a client that stays connected reads its stream, so `Send` completes;
* dialling, and a request to an endpoint, succeed or fail within their timeouts,
  and a server's read within its `ReadTimeout`;
* the controller of a workload asks for its pods again when they were refused
  (`Ask`), and creates what was allowed (`Create`); a request is answered while
  the HTTPS server serves (`ServeHTTP`), and an informer whose context is not
  cancelled calls back (`Callback`) and lists what exists (`List`). Nothing makes a
  stopped control plane start again (`WebhookRestart`), which is why `RefusalsEnd`
  excepts one that stops;
* a target that was told of the client's end ends its side as well
  (`TargetFinishes`): `handleTCP` waits for it without a limit of its own.

Nothing else is assumed of users, informers, applications, cancellations, crashes,
broken connections or faults: none of them need ever happen.

## What is proved

| Theorem | For every value of the constants | Assumes |
|---|---|---|
| `CircularQueue_proofs!TypeCorrect` | indices stay in the slice, queued slots hold values that were enqueued at some time | capacity is a natural number |
| `CircularQueue_proofs!Refinement` | the ring implements `BoundedFifo` | the same |
| `Breaker_proofs!TypeCorrect` | types, quota ranges, the ring's bound | `SettingsAssumption` |
| `Breaker_proofs!QuotaCorrect` | at most `HalfOpenAllowed` calls admitted in a half-open period | `SettingsAssumption` |
| `Breaker_proofs!ShedCorrect` | no call admitted within `OpenDuration` of an opening | `SettingsAssumption` |
| `Breaker_proofs!OnlyProbes` | a half-open endpoint has only probes under way | and `RequestTimeout <= OpenDuration` |
| `Breaker_proofs!ClosingCorrect` | a breaker closes only after that many successful probes and no failed one | the same |
| `Breaker_proofs!NewEvidence` | a breaker trips only on enough results, and enough failed ones, recorded since it was made or last recovered | `SettingsAssumption` |
| `CRDWorker_proofs!TypeCorrect` | types of the cache, the queue and the reconciliations | `ClusterAssumption` |
| `CRDWorker_proofs!NoTwoOnOneKey` | no key is reconciled by two workers | the same |
| `CRDWorker_proofs!DrainedByLast` | when the last worker has left, nothing is queued, added or processed | and there is a worker |
| `CRDWorker_proofs!NothingIsLost` | every change the cache has taken is shown, about to be added, queued, in backoff, or with a worker that still has to write it | and Containers of one name have one namespace |
| `CRDWorker_proofs!CacheIsReported` | the cache is what the informer reported, but for the object whose callback has not reached it | and each Container has one name of its own |
| `CRDWorker_proofs!NothingIsStranded` | while a change is not shown, a backoff runs, a callback is under way or a worker can take its next step | there is a worker, and Containers of one name have one namespace |
| `CRDWorker_proofs!RestsAsSpecified` | when nothing is queued, in backoff, with a worker or in a callback, workloads that a change was owed to show what the Containers specify, and none that was deleted | each Container has one name of its own |
| `Webhook_proofs!WorkerUndisturbed` | the worker with the webhook implements the worker, its fairness included | `ClusterAssumption` |
| `Webhook_proofs!TypesWithWebhook`, `NothingIsLostWithWebhook`, `CacheIsReportedToWebhook` | what holds of the worker holds beside the webhook | as for the worker |
| `Webhook_proofs!PodsAreWhole` | no labelled pod is created without its container | `PodAssumption` |
| `GrpcServer_proofs!TypeCorrect` | types; no channel holds more than its capacity | `ServerAssumption` |
| `GrpcServer_proofs!ClosedIsSafe` | with the look at the closed flag and the send as two steps, nothing is sent on a closed channel | the same |
| `GrpcServer_proofs!DistributionRefined` | the server implements `Distribution` | the same |
| `GrpcServer_proofs!NoneToldBackwards` | no client is told an older state after a newer one | the same |
| `GrpcServer_proofs!NoneRegistersLate` | no sidecar is in the map after the receivers were closed | and no cancel during the start |
| `GrpcServer_proofs!EveryoneReached` | once the receivers were closed, no call that still receives has an open channel | and an id for each subscription |
| `GrpcServer_proofs!CallsRunOut` | while the server stops, a step of a call takes it nearer to its end, and no other step farther from it | the same |
| `GrpcServer_proofs!NoCallWaits` | while the server stops, a call that is not over can take a step | the same |
| `GrpcServer_proofs!MergedWhole` | the merged slice of a service is made of all slices that name it, until a panic | `ServerAssumption`, and the label of a slice does not change |
| `ControlPlane_proofs!TrafficEndsFirst` | without a signal, nothing is stopped while HTTPS requests are taken | `ServerAssumption` |
| `ControlPlane_proofs!ReadyIsTaking` | `/readyz` finds the gRPC server ready only between its listening and its stop | and no cancel during the start |
| `ControlPlane_proofs!ClosedIsSafeInControl`, `ControlRefinesDistribution` | inside the process, nothing is sent on a closed channel and `Distribution` is implemented | `ServerAssumption` |
| `ControlPlane_proofs!NoneRegistersLateInControl` | inside the process, no sidecar is in the map after the receivers were closed | and no cancel during the start |
| `ControlPlane_proofs!EveryoneReachedInControl` | inside the process, the stop reaches every call that receives | and an id for each subscription |
| `ControlPlane_proofs!NoStandstill` | a process told to stop that has neither exited nor panicked has a goroutine that can go on | the same |
| `ControlPlane_proofs!StopRunsOut` | each step of a goroutine of the stop lowers what is left of it, each step of a call what is left of the call, each send what the closing of the receivers waits for, and nothing raises any | the same |
| `SidecarClient_proofs!TypeCorrect` | types; no event or entry is ahead of its service | `SubscriptionAssumption` |
| `SidecarClient_proofs!Cancellable` | every live stream can be cancelled through its entry, or is cancelled | and POSTs are awaited |
| `SidecarClient_proofs!CacheNeverBackwards` | the cache entry of a service never goes back | the same |
| `SidecarClient_proofs!DeleteReachesEveryStream` | once a DELETE called the cancel function it found, every live stream of its service is cancelled | the same |
| `SidecarClient_proofs!DeleteIsFinal` | no stream of the service starts after that | the same |
| `ProxyConnection_proofs!TypeCorrect` | types and bounds | `ConnectionAssumption` |
| `ProxyConnection_proofs!LoopCorrect` | the loop over the endpoints returns the first success, and fails only when all were tried or refused | the same |
| `ProxyConnection_proofs!Settled` | every admitted request has its result recorded before the loop goes on | the same |
| `ProxyConnection_proofs!PassedThrough` | TCP is passed through whole and in order in both directions | the same |
| `ProxyConnection_proofs!NoConnectionHangs` | once the client is done, or the sidecar stops while TCP is copied, some goroutine of the connection can go on until all have ended | the same |
| `ProxyConnection_proofs!ConnectionRunsOut` | each step of a connection lowers the count of what is left of it | and `Endpoints` is finite |

The argument about the breaker runs over four inductive invariants. `TypeInv`
adds to `TypeOK` that no sub-breaker's clock runs ahead of time and that a
half-open one is below its success quota: without that one more success could
pass the quota. `KeyInv` ties the
observer's record of each key to the sub-breaker: the probes admitted are
`probeUsed`, and the latest opening plus `OpenDuration` is `openUntil` while the
breaker is open and is past once it is half-open; that gives the quota and the
shedding. `ProbeInv` says of every call under way what it can be: a call admitted
before an opening is older than it, so it has ended, by the request timeout,
before the breaker is half-open. That is where `RequestTimeout <= OpenDuration`
is needed, and it is needed: with the request timeout of 5 s and a shorter
`--open-duration` a success admitted before the trip is counted as a probe. The
default open duration keeps to the condition.
`EvidenceInv` says that what the window sums up to is at most what was recorded
of the key since it was made or last recovered. It needs that sums grow by what
is appended, shrink by what is dropped and do not depend on where a bucket
stands. Those are facts about every number of buckets, and the only inductions
here: `SumOf` is a recursive function, and `SetInduction` takes the least number
a fact fails for, which `WellFoundedInduction` provides without an operator for
a parameter.

Lemmas about the code's functions (`advance`, `allowed`, `recorded`) say which
transitions each can make, so the steps above never open them.

Two invariants carry the theorems about a connection. `LoopInv` says what the
place of the server's goroutine allows of the verdicts: nothing before the loop,
one endpoint being asked in a request, no success while the loop goes on, none
untried when it has failed. Without its clause that only one endpoint is being
asked, a second success or a second open admission could not be excluded.
`Whole` says that what the target has, the buffer and the wire are together what
the client sent, whoever moves the chunks; `Flow` that a copy that runs finds
its connections open, and that one that has ended, where nothing broke off, had
all there was and will be. Ends that broke off and the cancelled context are
excepted, as in `OrderlyEnds`.
`MoveInv` adds that the target is told of the end of the copy towards it and that
who waits for an answer has asked, which `NoConnectionHangs` needs beside `Flow`.
`StepsLeft` adds up what is still to be sent and moved, the ends and connections
still open, how far each goroutine is, and four steps for each endpoint the loop
has not tried. Every action, of the client and the target too, lowers it: a loop
that tried an endpoint twice, or a copy that turned back, would not. It counts
endpoints, so they have to be finite, and an exchange is bounded by `Length` and
`MaxReplies`.

The worker's `Inv` has two parts. `Sound` is the contract of the work queue,
preserved by each of its operations: a key is queued if and only if it was added
and is not being processed, it is queued once, and after a shutdown nothing
waits. `BusyInv` ties the queue to the workers: the keys being processed and the
busy workers correspond one to one, which is `OneWorkerPerKey`, and `StopInv`
leaves the last worker an empty queue. `NoChangeIsLost` is `HeldInv` of
`LossInv`, and stands on `StaleInv`: a worker that writes a value which is no
longer the cached one has its key added again, or about to be added. That holds
because a handler writes the cache before it adds the key; the mutation
`OnUpdatedQueueFirst`, which adds it first, lets a worker be done with the key
before the value is there. It needs `OneNamespacePerName`: the
cache is keyed by the name of a container only, and with one name in two
namespaces an update in one takes the value of the other.

`IdleInv` says that a worker keeps nothing of a key when it is done with it. With
`Sound` and `BusyInv` it gives `NothingIsStranded`: a change that is not shown is
in a callback, in backoff, or queued, where a worker that waits can take it, or
with a worker that can go on. `RestsAsSpecified` adds `CacheIsReported`, so that the value the
workloads show is the one the resource has. The webhook reads the cache and writes pods only, which is
`WorkerUndisturbed`; each theorem of the worker then holds beside it.

The server's `IInv` says of what is under way that it is in order: the
informer's goroutine holds the latest state of its service (`TaskLatest`), since
it takes no report while it publishes; the messages in a channel rise, from what
the client was told (`Ordered`); and a stream that has no snapshot in its
channel yet is not in the map (`StreamInv`), so that what is published comes
after the snapshot. Each step of the server is then `Change`, `Tell` or a
stutter. `SendSafe` says that a channel that is being sent to is open: the
publisher looked at its closed flag, and `CloseReceivers` waits for the lock. `LateInv` adds that `ready` is false for good once the stopper has been
told, the fact a cancel during the start breaks.

`StopInv` of the server adds that who receives has its seat in the map, which is
where ids of their own are needed: a second stream of a sidecar takes the seat of
the first, and the stop then misses that one. `StepsLeft` counts
what a call has still to do, the messages of its channel included, and
`CallsRunOut` and `NoCallWaits` say that the count falls with every step of the
call and that such a step is there: `GracefulStop` waits for finitely many steps.
`ControlPlane_proofs` shows each step of the control plane to be a step of the
server or none (`ServerSide`), but for the second signal, which ends the process
and is treated by itself; so the server's invariants hold inside the process.
`CancelInv` adds that the context is cancelled once a signal came or the HTTPS
server's goroutine is done. `ControlLeft` counts the stages `StartUp`, the HTTPS
server, the goroutine of `Shutdown`, the stopper, the worker and the signals have
still to go through, and `StopRunsOut` that none of them ever goes back, whatever
requests, reports and clients do, and that the calls' `StepsLeft` falls inside the
process as it does in the server.

A client's `OwnInv` says that a live stream is the one its service's entry
cancels; one POST of a service at a time is what keeps two from both passing the
check, and `sidecar_race` shows the stream that is lost without it. `OrderInv`
adds that the events of that one stream rise from what was applied. A stream
that was cancelled may still apply its last event, and no other stream of the
service can have been opened by then, since the entry stays.
`FoundInv` says that what a DELETE found is what the map has for good, so that the
one stream it cancels is the only one there can be.

`TrafficInv` says that the context is cancelled by a signal or by the goroutine
of the HTTPS server when that has returned, and that the stopper and the worker
wait for it. `ReadyIsTaking` stands on `LateInv`: `ready` is false before the
server listens and for good once it was told to stop.

Every invariant and every safety property of a step that a run checks is proved.
Model-checked only is liveness: `ChangesSettle`, `RunReturns`, `RefusalsEnd`,
`StopCompletes`, `StartUpEnds`, `UnsubscribeEnds`, `HandlerEnds`
and `ShutdownEndsCopies`. TLAPS has no rule for it under fairness, nor for
ENABLED. What liveness rests on besides fairness is safety, and that is proved:
that someone can go on (`NothingIsStranded`, `NoStandstill`, `NoCallWaits`,
`NoConnectionHangs`), and, of a stop and of a connection, that the steps run out
(`CallsRunOut`, `StopRunsOut`, `ConnectionRunsOut`). The former speak of guards
written out (`WorkerMayStep`, `MayStep`, `HandlerMayStep` and the like) in place
of ENABLED; on the instances of the runs TLC finds them equal. No module uses a
RECURSIVE operator. A run that finds a violation shows a counterexample, and
nothing is to be proved there.

## What the models show of the code

Checked disagreements are in `PROJECT.json` under "findings". The following is
also as the models have it, and worth knowing:

* `listFn` is set nowhere: as built, the first accepted `Subscribe` panics
  (`grpc_list_fn`, with `ListFnSet = FALSE`). `grpc_server` and
  `control_plane` take it as set, to check what the rest of the protocol does, and
  what they show of clients holds of a program that sets it.
* With `listFn` set, two streams of one sidecar would share the seat of its id:
  the older is never closed and the server does not stop, and the first to end
  removes the other. The theorems about the stop assume an id for each
  subscription (`OwnIds`); as built no stream is ever registered.
* A context cancelled while the server starts is overwritten by
  `ready.Store(true)`: a subscription is accepted after the stop, against
  the comment at `server.go:109`, and with `listFn` set its sidecar is let in after
  the receivers were closed (`EarlyCancel = TRUE` breaks `NoLateSidecar`). A signal,
  or a certificate the HTTPS server cannot read, cancels so. The passing runs have
  no such cancel; of the theorems, `NoneRegistersLate`, `EveryoneReached`,
  `CallsRunOut`, `NoCallWaits`, their counterparts in the control plane,
  `ReadyIsTaking`, `NoStandstill` and `StopRunsOut` exclude it, and the others do
  not.
* `/readyz` looks at the gRPC server first and then asks the API server twice: it
  may answer yes after the gRPC server has stopped. `ReadyWhileTaking` is about the
  look, not about the answer.
* An endpoint without a `TargetRef` would end the process (`sidecar.go:79`);
  endpoints of pods have one, and the models give one to every endpoint.
* The breaker is half-open from the first instant after `openUntil`
  (`subbreaker.go:105`, `now.After`); section 5.1 of
  `breaker/docs/circuit-breaker-design.md` lets it be at `openUntil` itself. The
  models have the code's.
* A pod answered before an update of the Container, and created after it, has the
  older specification; nothing changes it later.
* `ServeTLS` returns when `Shutdown` is called, not when it is done, and nothing
  waits for the goroutine that drains the requests: the process may end with
  requests, the `/preStop` that asked for the end among them, unanswered
  (`Exit`). `cmd/ctrl/app/shutdown.go:16` relies on a graceful shutdown.
* A gRPC or HTTPS server that cannot listen panics and ends the process
  (`NewListenerOrDie`); a gRPC server that fails later ends nothing else.
* `/readyz` does not wait for the informers' caches: after a restart labelled
  pods are refused until the Containers are listed. They are refused, too, while
  a Container they name is deleted, and while the control plane is down.
* The container of a pod comes from the webhook and is not in the workload's
  template, which is what the CRD worker looks for: a change of the Container
  does not reach workloads that only have injected pods.
* `build/ctrl/deployment.yml:8` grants get, list and watch on workloads only, so
  that the worker's updates would be refused; the model has refusals of either
  kind but not for ever on every workload.
* Containers of one name in two namespaces share one entry of the cache.
* The deletion of the last slice of a service reads a nil pointer in the
  informer's goroutine (`endpointslice_cache.go:112`), and so `DELETED` is never
  published; `pkg/cache/推荐设计.md:66` has it published.
* `Publish` tells one of the sidecars of a service, whichever the map gives.
* A full channel drops the newest message. A change between the snapshot and the
  registration reaches the client with the next change only.
* A slice whose service label changes stays with its old service.
* A deletion that is retried after the Container was added again removes it from
  the workloads, although it exists.
* A restart loses what was queued: existing Containers come back as additions,
  which change no workload.
* With a bounded number of retries a key's count is inherited by a later update.
* A Container whose `spec.name` changes stays cached under the old name.
* A business failure of a probe uses up quota and is no success: probes that all
  end so send the breaker back to Open.
* `unsubscribe` leaves the entry of the service in the map of cancel functions,
  so that the service can never be subscribed again ("unsubscribe first" is the
  answer). Removing it is not enough: the mutation of `CallCancel` that does so
  lets the old stream's last event overwrite the new one's (`NeverBackwards`).
* An event a goroutine already had when DELETE came is applied after the service
  was removed from the cache, and stays.
* A broken stream is not opened again.
* `isHTTP` waits for 64 bytes: a shorter request, or a protocol in which the
  server speaks first, waits until the client closes, and is then taken as TCP.
* `sendRequest` cancels the context of a response whose body is still to be
  read, so a body can break off after its success was recorded.
* A copy that ends with an error closes the other side's connection for writing
  as one that ends well does: the target of a client that broke off sees an
  orderly end (`OrderlyEnds` speaks of clients that do not break off).
* `loadBalance` goes on asking endpoints when the client has left: its requests
  have a context of their own.
* Connections that are peeked at or served as HTTP do not end with the context.

## Not modelled, and why

* The second queue (`ai_implementation`) and the legacy CRD reconciler: nothing
  uses them.
* Metrics, flags, configuration files, client construction, generated code: no
  behaviour over time. Settings that matter are CONSTANTS.
* The bytes looked at, `SO_ORIGINAL_DST`, TLS, JSON, DNS: input and output.
* In the models: malformed objects and keys, which are dropped with a log line;
  tombstones, which the endpoint cache ignores; the fields of a container and of
  an endpoint.
* A window size of 0 divides by zero at the first request and is excluded by
  `SettingsAssumption`.

## Plan

In this order, the most important behaviour first:

1. The shared breaker and the shared cache: `ProxyConnection`'s loop composed
   with `Breaker` and with `SidecarClient`'s cache, in place of arbitrary answers,
   for several connections, with the accept loop.
2. `Distribution` in place of `SidecarClient`'s own `Send`, so that the two ends
   of a stream are composed through the abstract specification.
3. Breaker liveness with count-down timers, so that time need not be bounded.
4. A count of the steps left, as `StepsLeft`, for a reconciliation, so that of
   the worker's liveness, too, only the use of fairness is left to TLC.
