------------------------------ MODULE WorkQueue ------------------------------
(***************************************************************************)
(* The rate-limited work queue of k8s.io/client-go/util/workqueue, as far  *)
(* as internal/ctrl/worker uses it.  It is not part of the repository: its *)
(* operations are modelled by their contract, as functions from a queue to *)
(* the queue after the call.  Every operation runs under the queue's lock. *)
(*                                                                         *)
(*   items       keys a worker can take, in order                          *)
(*   dirty       keys added and not taken since                            *)
(*   processing  keys taken and not done                                   *)
(*   waiting     keys whose backoff has not elapsed                        *)
(*   requeues    failures counted against a key since it was forgotten     *)
(*   down        ShutDown was called                                       *)
(***************************************************************************)
EXTENDS Naturals, Sequences, Functions

EmptyQueue ==
    [items |-> <<>>, dirty |-> {}, processing |-> {}, waiting |-> {},
     requeues |-> <<>>, down |-> FALSE]

(* Add: a key waits at most once; one being processed is queued by Done. *)
Added(q, k) ==
    IF q.down \/ k \in q.dirty THEN q
    ELSE [q EXCEPT !.dirty = @ \cup {k},
                   !.items = IF k \in q.processing THEN @ ELSE Append(@, k)]

(* Get, when a key can be taken. *)
Got(q) ==
    [q EXCEPT !.items      = Tail(@),
              !.processing = @ \cup {Head(q.items)},
              !.dirty      = @ \ {Head(q.items)}]

(* Done: what was added meanwhile is queued again, after a shutdown too. *)
DoneWith(q, k) ==
    [q EXCEPT !.processing = @ \ {k},
              !.items      = IF k \in q.dirty THEN Append(@, k) ELSE @]

NumRequeues(q, k) == IF k \in DOMAIN q.requeues THEN q.requeues[k] ELSE 0

Forgotten(q, k) == [q EXCEPT !.requeues = Restrict(@, DOMAIN @ \ {k})]

(* AddRateLimited counts a failure and adds the key when its backoff has   *)
(* elapsed; a queue that was shut down drops it.                           *)
RateLimited(q, k) ==
    [q EXCEPT !.requeues = [x \in DOMAIN @ \cup {k} |->
                              NumRequeues(q, x) + IF x = k THEN 1 ELSE 0],
              !.waiting  = IF q.down THEN @ ELSE @ \cup {k}]

(* The backoff of a waiting key elapses. *)
Elapsed(q, k) == Added([q EXCEPT !.waiting = @ \ {k}], k)

(* ShutDown: nothing is added any more, what is queued can still be taken, *)
(* what waits for its backoff is dropped.                                  *)
ShutDown(q) == [q EXCEPT !.down = TRUE, !.waiting = {}]
=============================================================================
