-------------------------- MODULE CRDWorker_proofs --------------------------
(***************************************************************************)
(* Proofs about CRDWorker, for any number of workers, objects, workloads   *)
(* and any bound of retries: types; no key is reconciled by two workers at *)
(* a time; the queue is drained before the last worker leaves; no change is*)
(* lost or stranded; and at rest the workloads are as specified.           *)
(***************************************************************************)
EXTENDS CRDWorker, SequenceTheorems, TLAPS

-----------------------------------------------------------------------------
(* The work queue *)

IsQueue(q) ==
    /\ q = [items |-> q.items, dirty |-> q.dirty, processing |-> q.processing,
            waiting |-> q.waiting, requeues |-> q.requeues, down |-> q.down]
    /\ q.items \in Seq(Keys)
    /\ q.dirty \subseteq Keys /\ q.processing \subseteq Keys /\ q.waiting \subseteq Keys
    /\ q.requeues \in [DOMAIN q.requeues -> Nat]
    /\ q.down \in BOOLEAN

(* A key waits at most once, and never while it is processed; nothing      *)
(* waits for its backoff after the shutdown.                               *)
Sound(q) ==
    /\ IsQueue(q)
    /\ \A k \in Keys : (\E i \in 1 .. Len(q.items) : q.items[i] = k)
                           <=> k \in q.dirty \ q.processing
    /\ \A i, j \in 1 .. Len(q.items) : q.items[i] = q.items[j] => i = j
    /\ q.down => q.waiting = {}

SameState(p, q) == p.processing = q.processing /\ p.down = q.down

LEMMA Appended ==
    ASSUME NEW s \in Seq(Keys), NEW k \in Keys
    PROVE  /\ Append(s, k) \in Seq(Keys) /\ Len(Append(s, k)) = Len(s) + 1 /\ Len(s) \in Nat
           /\ \A i \in 1 .. Len(s) : Append(s, k)[i] = s[i]
           /\ Append(s, k)[Len(s) + 1] = k
           /\ \A i \in 1 .. Len(s) + 1 : i \in 1 .. Len(s) \/ i = Len(s) + 1
           /\ \A i \in 1 .. Len(s) : i \in 1 .. Len(s) + 1 /\ i # Len(s) + 1
           /\ Len(s) + 1 \in 1 .. Len(s) + 1
OBVIOUS

(* What the operations of a queue do to its fields. *)
Fields(p, i, d, c, w, r, x) ==
    /\ p = [items |-> p.items, dirty |-> p.dirty, processing |-> p.processing,
            waiting |-> p.waiting, requeues |-> p.requeues, down |-> p.down]
    /\ p.items = i /\ p.dirty = d /\ p.processing = c
    /\ p.waiting = w /\ p.requeues = r /\ p.down = x

LEMMA GotFields ==
    ASSUME NEW q, IsQueue(q), NEW p, p = Got(q)
    PROVE  Fields(p, Tail(q.items), q.dirty \ {Head(q.items)}, q.processing \cup {Head(q.items)},
                  q.waiting, q.requeues, q.down)
BY DEF IsQueue, Got, Fields

LEMMA DoneFields ==
    ASSUME NEW q, IsQueue(q), NEW k, NEW p, p = DoneWith(q, k)
    PROVE  Fields(p, IF k \in q.dirty THEN Append(q.items, k) ELSE q.items, q.dirty,
                  q.processing \ {k}, q.waiting, q.requeues, q.down)
BY DEF IsQueue, DoneWith, Fields

LEMMA ShutDownFields ==
    ASSUME NEW q, IsQueue(q), NEW p, p = ShutDown(q)
    PROVE  Fields(p, q.items, q.dirty, q.processing, {}, q.requeues, TRUE)
BY DEF IsQueue, ShutDown, Fields

LEMMA RequeuesFields ==
    ASSUME NEW q, IsQueue(q), NEW r, NEW p, p = [q EXCEPT !.requeues = r]
    PROVE  Fields(p, q.items, q.dirty, q.processing, q.waiting, r, q.down)
BY DEF IsQueue, Fields

LEMMA WaitingFields ==
    ASSUME NEW q, IsQueue(q), NEW w, NEW p, p = [q EXCEPT !.waiting = w]
    PROVE  Fields(p, q.items, q.dirty, q.processing, w, q.requeues, q.down)
BY DEF IsQueue, Fields

LEMMA BothFields ==
    ASSUME NEW q, IsQueue(q), NEW r, NEW w, NEW p, p = [q EXCEPT !.requeues = r, !.waiting = w]
    PROVE  Fields(p, q.items, q.dirty, q.processing, w, r, q.down)
BY DEF IsQueue, Fields

LEMMA AddedSound ==
    ASSUME NEW q, Sound(q), NEW k \in Keys
    PROVE  /\ Sound(Added(q, k))
           /\ SameState(Added(q, k), q)
           /\ q.down => Added(q, k) = q
<1>1. CASE q.down \/ k \in q.dirty
  BY <1>1 DEF Added, SameState
<1>2. CASE ~(q.down \/ k \in q.dirty)
  <2> DEFINE p == Added(q, k)
  <2>1. /\ IsQueue(q)
        /\ p = [q EXCEPT !.dirty = @ \cup {k},
                         !.items = IF k \in q.processing THEN @ ELSE Append(@, k)]
    BY <1>2 DEF Added, Sound
  <2>2. /\ p = [items |-> p.items, dirty |-> p.dirty, processing |-> p.processing,
                waiting |-> p.waiting, requeues |-> p.requeues, down |-> p.down]
        /\ p.dirty = q.dirty \cup {k} /\ p.processing = q.processing /\ p.waiting = q.waiting
        /\ p.requeues = q.requeues /\ p.down = q.down
        /\ p.items = IF k \in q.processing THEN q.items ELSE Append(q.items, k)
    BY <2>1 DEF IsQueue
  <2> HIDE DEF p
  <2>3. IsQueue(p)
    BY <2>1, <2>2, Appended DEF IsQueue
  <2>4. ~\E i \in 1 .. Len(q.items) : q.items[i] = k
    BY <1>2 DEF Sound
  <2>5. CASE k \in q.processing
    BY <1>2, <2>1, <2>2, <2>3, <2>5 DEF Sound, SameState, p
  <2>6. CASE k \notin q.processing
    <3>1. p.items = Append(q.items, k) /\ q.items \in Seq(Keys)
      BY <2>1, <2>2, <2>6 DEF IsQueue
    <3>2. \A x \in Keys : (\E i \in 1 .. Len(p.items) : p.items[i] = x)
                             <=> x \in p.dirty \ p.processing
      BY <2>2, <2>6, <3>1, Appended DEF Sound
    <3>3. \A i, j \in 1 .. Len(p.items) : p.items[i] = p.items[j] => i = j
      BY <2>4, <3>1, Appended DEF Sound
    <3>4. QED
      BY <1>2, <2>2, <2>3, <3>2, <3>3 DEF Sound, SameState, p
  <2>7. QED
    BY <2>5, <2>6
<1>3. QED
  BY <1>1, <1>2

LEMMA GotSound ==
    ASSUME NEW q, Sound(q), q.items # <<>>
    PROVE  /\ Sound(Got(q)) /\ Got(q).down = q.down
           /\ Head(q.items) \in Keys /\ Head(q.items) \notin q.processing
           /\ Got(q).processing = q.processing \cup {Head(q.items)}
<1> DEFINE k == Head(q.items)
           p == Got(q)
           s == q.items
<1>1. /\ IsQueue(q) /\ s \in Seq(Keys) /\ Len(s) \in Nat /\ Len(s) > 0
      /\ k = s[1] /\ k \in Keys /\ 1 \in 1 .. Len(s)
  BY HeadTailProperties, EmptySeq DEF Sound, IsQueue
<1>2. /\ Tail(s) \in Seq(Keys) /\ Len(Tail(s)) = Len(s) - 1
      /\ \A i \in 1 .. Len(s) - 1 : Tail(s)[i] = s[i + 1] /\ i + 1 \in 1 .. Len(s)
      /\ \A i \in 1 .. Len(s) : i # 1 => i - 1 \in 1 .. Len(s) - 1 /\ Tail(s)[i - 1] = s[i]
  BY <1>1, HeadTailProperties
<1>3. k \in q.dirty /\ k \notin q.processing
  BY <1>1 DEF Sound
<1>4. /\ p = [items |-> p.items, dirty |-> p.dirty, processing |-> p.processing,
              waiting |-> p.waiting, requeues |-> p.requeues, down |-> p.down]
      /\ p.dirty = q.dirty \ {k} /\ p.processing = q.processing \cup {k}
      /\ p.waiting = q.waiting /\ p.requeues = q.requeues /\ p.down = q.down
      /\ p.items = Tail(s)
  BY <1>1, GotFields DEF Fields
<1>5. IsQueue(p)
  BY <1>1, <1>2, <1>4 DEF IsQueue
<1> HIDE DEF p, k
<1>6. ASSUME NEW x \in Keys
      PROVE  (\E i \in 1 .. Len(p.items) : p.items[i] = x) <=> x \in p.dirty \ p.processing
  <2>1. (\E i \in 1 .. Len(s) : s[i] = x) <=> x \in q.dirty \ q.processing
    BY DEF Sound
  <2>2. x = k => ~\E i \in 1 .. Len(s) - 1 : Tail(s)[i] = x
    <3>1. \A i \in 1 .. Len(s) - 1 : i + 1 # 1
      BY <1>1
    <3>2. QED
      BY <1>1, <1>2, <3>1 DEF Sound
  <2>3. x # k => ((\E i \in 1 .. Len(s) - 1 : Tail(s)[i] = x) <=> \E i \in 1 .. Len(s) : s[i] = x)
    BY <1>1, <1>2
  <2>4. QED
    BY <1>2, <1>4, <2>1, <2>2, <2>3
<1>7. \A i, j \in 1 .. Len(p.items) : p.items[i] = p.items[j] => i = j
  <2> SUFFICES ASSUME NEW i \in 1 .. Len(s) - 1, NEW j \in 1 .. Len(s) - 1, Tail(s)[i] = Tail(s)[j]
               PROVE  i = j
    BY <1>2, <1>4
  <2>1. i + 1 = j + 1
    BY <1>2 DEF Sound
  <2>2. QED
    BY <1>1, <2>1
<1>8. QED
  BY <1>1, <1>3, <1>4, <1>5, <1>6, <1>7 DEF Sound, p, k

LEMMA DoneSound ==
    ASSUME NEW q, Sound(q), NEW k \in q.processing
    PROVE  /\ Sound(DoneWith(q, k)) /\ DoneWith(q, k).down = q.down
           /\ DoneWith(q, k).processing = q.processing \ {k}
<1> DEFINE p == DoneWith(q, k)
<1>1. IsQueue(q) /\ k \in Keys /\ q.items \in Seq(Keys)
  BY DEF Sound, IsQueue
<1>2. /\ p = [items |-> p.items, dirty |-> p.dirty, processing |-> p.processing,
              waiting |-> p.waiting, requeues |-> p.requeues, down |-> p.down]
      /\ p.dirty = q.dirty /\ p.processing = q.processing \ {k}
      /\ p.waiting = q.waiting /\ p.requeues = q.requeues /\ p.down = q.down
      /\ p.items = IF k \in q.dirty THEN Append(q.items, k) ELSE q.items
  BY <1>1, DoneFields DEF Fields
<1>3. IsQueue(p)
  BY <1>1, <1>2, Appended DEF IsQueue
<1>4. ~\E i \in 1 .. Len(q.items) : q.items[i] = k
  BY <1>1 DEF Sound
<1> HIDE DEF p
<1>5. CASE k \notin q.dirty
  BY <1>2, <1>3, <1>5 DEF Sound, p
<1>6. CASE k \in q.dirty
  <2>1. p.items = Append(q.items, k)
    BY <1>2, <1>6
  <2>2. \A x \in Keys : (\E i \in 1 .. Len(p.items) : p.items[i] = x)
                           <=> x \in p.dirty \ p.processing
    BY <1>1, <1>2, <1>6, <2>1, Appended DEF Sound
  <2>3. \A i, j \in 1 .. Len(p.items) : p.items[i] = p.items[j] => i = j
    BY <1>1, <1>4, <2>1, Appended DEF Sound
  <2>4. QED
    BY <1>2, <1>3, <2>2, <2>3 DEF Sound, p
<1>7. QED
  BY <1>5, <1>6

(* What changes neither items nor dirty nor processing. *)
LEMMA ElseSound ==
    ASSUME NEW q, Sound(q), NEW p, NEW r, NEW W \in SUBSET Keys, NEW d \in BOOLEAN,
           r \in [DOMAIN r -> Nat], d => W = {},
           Fields(p, q.items, q.dirty, q.processing, W, r, d)
    PROVE  Sound(p) /\ p.processing = q.processing /\ p.down = d
<1>1. /\ p.items = q.items /\ p.dirty = q.dirty /\ p.processing = q.processing
      /\ p.waiting = W /\ p.requeues = r /\ p.down = d
  BY DEF Fields
<1>2. IsQueue(p)
  BY <1>1 DEF Sound, IsQueue, Fields
<1>3. Sound(p)
  BY <1>1, <1>2 DEF Sound
<1>4. QED
  BY <1>1, <1>3

LEMMA ForgottenSound ==
    ASSUME NEW q, Sound(q), NEW k
    PROVE  Sound(Forgotten(q, k)) /\ SameState(Forgotten(q, k), q)
<1> DEFINE r == Restrict(q.requeues, DOMAIN q.requeues \ {k})
           p == Forgotten(q, k)
<1>1. IsQueue(q) /\ q.down \in BOOLEAN /\ q.waiting \in SUBSET Keys /\ (q.down => q.waiting = {})
  BY DEF Sound, IsQueue
<1>2. r \in [DOMAIN r -> Nat]
  BY <1>1 DEF Restrict, IsQueue
<1>3. p = [q EXCEPT !.requeues = r]
  BY DEF Forgotten
<1> HIDE DEF p, r
<1>4. Fields(p, q.items, q.dirty, q.processing, q.waiting, r, q.down)
  BY <1>1, <1>3, RequeuesFields
<1>5. /\ p.items = q.items /\ p.dirty = q.dirty /\ p.processing = q.processing
      /\ p.waiting = q.waiting /\ p.requeues = r /\ p.down = q.down
  BY <1>4 DEF Fields
<1>6. IsQueue(p)
  BY <1>1, <1>2, <1>4, <1>5 DEF IsQueue, Fields
<1>7. Sound(p)
  BY <1>1, <1>5, <1>6 DEF Sound
<1>8. QED
  BY <1>5, <1>7 DEF SameState, p

LEMMA RateLimitedSound ==
    ASSUME NEW q, Sound(q), NEW k \in Keys
    PROVE  Sound(RateLimited(q, k)) /\ SameState(RateLimited(q, k), q)
<1> DEFINE r == [x \in DOMAIN q.requeues \cup {k} |-> NumRequeues(q, x) + IF x = k THEN 1 ELSE 0]
           W == IF q.down THEN q.waiting ELSE q.waiting \cup {k}
           p == RateLimited(q, k)
<1>1. IsQueue(q) /\ q.down \in BOOLEAN /\ q.waiting \in SUBSET Keys /\ (q.down => q.waiting = {})
  BY DEF Sound, IsQueue
<1>2. r \in [DOMAIN r -> Nat]
  BY <1>1 DEF NumRequeues, IsQueue
<1>3. W \in SUBSET Keys /\ (q.down => W = {})
  BY <1>1
<1>4. p = [q EXCEPT !.requeues = r, !.waiting = W]
  BY DEF RateLimited
<1> HIDE DEF p, r, W
<1>5. Fields(p, q.items, q.dirty, q.processing, W, r, q.down)
  BY <1>1, <1>4, BothFields
<1>6. QED
  BY <1>1, <1>2, <1>3, <1>5, ElseSound DEF SameState, p

LEMMA UncountedSound ==
    ASSUME NEW q, Sound(q)
    PROVE  /\ Sound([q EXCEPT !.requeues = EmptyQueue.requeues])
           /\ SameState([q EXCEPT !.requeues = EmptyQueue.requeues], q)
<1> DEFINE p == [q EXCEPT !.requeues = EmptyQueue.requeues]
<1>1. IsQueue(q) /\ q.down \in BOOLEAN /\ q.waiting \in SUBSET Keys /\ (q.down => q.waiting = {})
  BY DEF Sound, IsQueue
<1>2. EmptyQueue.requeues \in [DOMAIN EmptyQueue.requeues -> Nat]
  BY DEF EmptyQueue
<1>3. Fields(p, q.items, q.dirty, q.processing, q.waiting, EmptyQueue.requeues, q.down)
  BY <1>1, RequeuesFields
<1> HIDE DEF p
<1>4. QED
  BY <1>1, <1>2, <1>3, ElseSound DEF SameState, p

LEMMA ElapsedSound ==
    ASSUME NEW q, Sound(q), NEW k \in Keys
    PROVE  Sound(Elapsed(q, k)) /\ SameState(Elapsed(q, k), q)
<1> DEFINE W == q.waiting \ {k}
           p == [q EXCEPT !.waiting = W]
<1>1. /\ IsQueue(q) /\ q.down \in BOOLEAN /\ W \in SUBSET Keys /\ (q.down => W = {})
      /\ q.requeues \in [DOMAIN q.requeues -> Nat]
  BY DEF Sound, IsQueue
<1>2. Elapsed(q, k) = Added(p, k)
  BY DEF Elapsed
<1> HIDE DEF W
<1>3. Fields(p, q.items, q.dirty, q.processing, W, q.requeues, q.down)
  BY <1>1, WaitingFields
<1> HIDE DEF p
<1>4. Sound(p) /\ p.processing = q.processing /\ p.down = q.down
  BY <1>1, <1>3, ElseSound
<1>5. QED
  BY <1>2, <1>4, AddedSound DEF SameState

LEMMA ShutDownSound ==
    ASSUME NEW q, Sound(q)
    PROVE  Sound(ShutDown(q)) /\ ShutDown(q).processing = q.processing /\ ShutDown(q).down
<1> DEFINE p == ShutDown(q)
<1>1. IsQueue(q) /\ q.requeues \in [DOMAIN q.requeues -> Nat]
  BY DEF Sound, IsQueue
<1>2. Fields(p, q.items, q.dirty, q.processing, {}, q.requeues, TRUE)
  BY <1>1, ShutDownFields
<1> HIDE DEF p
<1>3. QED
  BY <1>1, <1>2, ElseSound DEF p

LEMMA EmptySound == Sound(EmptyQueue)
BY DEF EmptyQueue, Sound, IsQueue
-----------------------------------------------------------------------------
(* The inductive invariant.  A worker between Take and Finish holds a key  *)
(* that is being processed, and each such key is held by one worker.       *)

Busy(w) == worker[w].at \notin {"idle", "stopped"}

Calls == [at : {"cache", "queue"}, key : Keys, image : Images]

TypeRest ==
    /\ handler \in {NoCall} \cup Calls
    /\ crd \in [Objects -> {None} \cup [name : Names, image : Images]]
    /\ unlisted \subseteq {o \in Objects : crd[o] # None}
    /\ DOMAIN cache \subseteq Names
    /\ cache \in [DOMAIN cache -> Images]
    /\ workloads \in [Workloads -> Templates \cup {None}]
    /\ worker \in [Workers -> Reconciliation]
    /\ cancelled \in BOOLEAN
    /\ owed \subseteq {k \in Keys : k.type # "Add"} \X Workloads

BusyInv ==
    /\ \A w \in Workers : ~Busy(w) => worker[w].key = None /\ worker[w].todo = {}
    /\ \A w \in Workers : Busy(w) => worker[w].key \in queue.processing
    /\ \A v, w \in Workers : Busy(v) /\ Busy(w) /\ worker[v].key = worker[w].key => v = w
    /\ \A k \in queue.processing : \E w \in Workers : Busy(w) /\ worker[w].key = k

(* What is unchanged since it was listed exists. *)
FreshInv == \A w \in Workers : \A x \in worker[w].fresh : workloads[x] # None

AllStopped == \A w \in Workers : worker[w].at = "stopped"

StopInv ==
    /\ \A w \in Workers : worker[w].at = "stopped" => queue.down
    /\ Workers # {} /\ AllStopped => queue.items = <<>>

Inv == TypeRest /\ Sound(queue) /\ BusyInv /\ FreshInv /\ StopInv

LEMMA InitInv == Init => Inv
<1> SUFFICES ASSUME Init PROVE Inv
  OBVIOUS
<1>1. Sound(queue) /\ queue.processing = {} /\ queue.items = <<>>
  BY EmptySound DEF Init, EmptyQueue
<1>2. \A w \in Workers : worker[w] = Idle
  BY DEF Init
<1>3. /\ Idle.at = "idle" /\ Idle.key = None /\ Idle.todo = {} /\ Idle.fresh = {}
      /\ Idle \in Reconciliation
  BY DEF Idle, At, Reconciliation
<1>4. TypeRest
  <2>1. worker \in [Workers -> Reconciliation]
    BY <1>3 DEF Init
  <2>2. crd \in [Objects -> {None} \cup [name : Names, image : Images]]
    <3>1. \A o \in Objects : Specs(o) \subseteq [name : Names, image : Images]
      BY ClusterAssumption DEF Specs
    <3>2. QED
      BY <3>1 DEF Init
  <2>3. DOMAIN cache = {} /\ cache \in [DOMAIN cache -> Images]
    BY DEF Init
  <2>4. QED
    BY <2>1, <2>2, <2>3 DEF TypeRest, Init
<1>5. BusyInv /\ FreshInv
  BY <1>1, <1>2, <1>3 DEF BusyInv, FreshInv, Busy
<1>6. StopInv
  BY <1>1, <1>2, <1>3 DEF StopInv, AllStopped
<1>7. QED
  BY <1>1, <1>4, <1>5, <1>6 DEF Inv

(* A reconciliation ends: the key is done, added again or not. *)
LEMMA FinishStep ==
    ASSUME Inv, NEW w \in Workers, Busy(w), NEW failed, Finish(w, failed)
    PROVE  Inv'
<1> DEFINE k == worker[w].key
<1>1. /\ Sound(queue) /\ k \in queue.processing /\ k \in Keys
      /\ TypeRest /\ BusyInv /\ FreshInv /\ StopInv
  BY DEF Inv, BusyInv, Sound, IsQueue
<1>2. PICK q : Sound(q) /\ SameState(q, queue) /\ queue' = DoneWith(q, k)
  <2>1. Sound(Forgotten(queue, k)) /\ SameState(Forgotten(queue, k), queue)
    BY <1>1, ForgottenSound
  <2>2. Sound(Requeued(k)) /\ SameState(Requeued(k), queue)
    BY <1>1, RateLimitedSound, UncountedSound DEF Requeued, SameState
  <2>3. queue' = DoneWith(Requeued(k), k) \/ queue' = DoneWith(Forgotten(queue, k), k)
    BY DEF Finish
  <2>4. QED
    BY <2>1, <2>2, <2>3
<1>3. Sound(queue') /\ queue'.processing = queue.processing \ {k} /\ queue'.down = queue.down
  BY <1>1, <1>2, DoneSound DEF SameState
<1>4. /\ Idle.at = "idle" /\ Idle.key = None /\ Idle.todo = {} /\ Idle.fresh = {}
      /\ Idle \in Reconciliation
  BY DEF Idle, At, Reconciliation
<1>5. /\ worker' \in [Workers -> Reconciliation] /\ worker'[w] = Idle
      /\ \A v \in Workers : v # w => worker'[v] = worker[v]
  BY <1>1, <1>4 DEF Finish, Enter, TypeRest
<1>6. TypeRest'
  <2>1. owed' \subseteq owed /\ UNCHANGED <<crd, unlisted, handler, cancelled, cache, workloads>>
    BY DEF Finish, Rest
  <2>2. QED
    BY <1>1, <1>5, <2>1 DEF TypeRest
<1>7. BusyInv'
  BY <1>1, <1>3, <1>4, <1>5 DEF BusyInv, Busy
<1>8. FreshInv'
  <2>1. workloads' = workloads
    BY DEF Finish
  <2>2. QED
    BY <1>1, <1>4, <1>5, <2>1 DEF FreshInv
<1>9. StopInv'
  BY <1>1, <1>3, <1>4, <1>5 DEF StopInv, AllStopped
<1>10. QED
  BY <1>3, <1>6, <1>7, <1>8, <1>9 DEF Inv

(* A busy worker goes on with the key it has. *)
LEMMA GoesOn ==
    ASSUME Inv, NEW w \in Workers, Busy(w), Sound(queue),
           UNCHANGED <<crd, unlisted, handler, cancelled, cache, queue, workloads>>, owed' \subseteq owed,
           worker' \in [Workers -> Reconciliation],
           \A v \in Workers : v # w => worker'[v] = worker[v],
           worker'[w].key = worker[w].key, Busy(w)',
           \A x \in worker'[w].fresh : workloads[x] # None
    PROVE  Inv'
<1>1. TypeRest /\ BusyInv /\ FreshInv /\ StopInv
  BY DEF Inv
<1>2. TypeRest'
  BY <1>1 DEF TypeRest
<1>3. BusyInv'
  BY <1>1 DEF BusyInv, Busy
<1>4. FreshInv'
  BY <1>1 DEF FreshInv
<1>5. StopInv'
  BY <1>1 DEF StopInv, AllStopped, Busy
<1>6. QED
  BY <1>2, <1>3, <1>4, <1>5 DEF Inv
(* A workload changes: what was listed of it is not fresh any more, and    *)
(* the workers are at what they were at.                                   *)
LEMMA WrittenKeeps ==
    ASSUME TypeRest, NEW ws \in [Workers -> Reconciliation], NEW x \in Workloads,
           NEW t \in Templates \cup {None}, Written(ws, x, t),
           \A w \in Workers : \A y \in ws[w].fresh : workloads[y] # None
    PROVE  /\ worker' \in [Workers -> Reconciliation]
           /\ workloads' \in [Workloads -> Templates \cup {None}]
           /\ FreshInv'
           /\ \A w \in Workers : /\ worker'[w].at = ws[w].at /\ worker'[w].key = ws[w].key
                                 /\ worker'[w].todo = ws[w].todo
                                 /\ worker'[w].image = ws[w].image
                                 /\ worker'[w].failed = ws[w].failed
<1>1. workloads' = [workloads EXCEPT ![x] = t] /\ workloads \in [Workloads -> Templates \cup {None}]
  BY DEF Written, TypeRest
<1>2. CASE t = workloads[x]
  <2>1. worker' = ws /\ workloads' = workloads
    BY <1>1, <1>2 DEF Written
  <2>2. QED
    BY <1>1, <2>1 DEF FreshInv
<1>3. CASE t # workloads[x]
  <2>1. worker' = [v \in Workers |-> [ws[v] EXCEPT !.fresh = @ \ {x}]]
    BY <1>3 DEF Written
  <2>2. ASSUME NEW w \in Workers
        PROVE  /\ worker'[w] \in Reconciliation /\ worker'[w].fresh = ws[w].fresh \ {x}
               /\ worker'[w].at = ws[w].at /\ worker'[w].key = ws[w].key
               /\ worker'[w].todo = ws[w].todo /\ worker'[w].image = ws[w].image
               /\ worker'[w].failed = ws[w].failed
    <3>1. worker'[w] = [ws[w] EXCEPT !.fresh = ws[w].fresh \ {x}] /\ ws[w] \in Reconciliation
      BY <2>1
    <3>2. QED
      BY <3>1 DEF Reconciliation
  <2>3. worker' \in [Workers -> Reconciliation]
    BY <2>1, <2>2
  <2>4. FreshInv'
    BY <1>1, <2>2 DEF FreshInv
  <2>5. QED
    BY <1>1, <2>2, <2>3, <2>4
<1>4. QED
  BY <1>2, <1>3

LEMMA UpdateStep ==
    ASSUME Inv, NEW w \in Workers, NEW x \in Workloads, UpdateWorkload(w, x)
    PROVE  Inv'
<1> DEFINE ok  == [worker EXCEPT ![w].todo = @ \ {x}]
           err == [ok EXCEPT ![w].failed = TRUE]
<1>1. /\ Sound(queue) /\ TypeRest /\ BusyInv /\ FreshInv /\ StopInv
      /\ worker \in [Workers -> Reconciliation] /\ worker[w] \in Reconciliation
      /\ x \in worker[w].todo /\ Busy(w)
      /\ UNCHANGED <<crd, unlisted, handler, cancelled, cache, queue, owed>>
  BY DEF Inv, TypeRest, BusyInv, UpdateWorkload, Rest
<1>2. PICK r, s : /\ r = [worker[w] EXCEPT !.todo = @ \ {x}] /\ s = [r EXCEPT !.failed = TRUE]
                  /\ ok = [worker EXCEPT ![w] = r] /\ err = [worker EXCEPT ![w] = s]
  <2>1. ok = [worker EXCEPT ![w] = [worker[w] EXCEPT !.todo = @ \ {x}]] /\ ok[w] = [worker[w] EXCEPT !.todo = @ \ {x}]
    BY <1>1
  <2>2. err = [worker EXCEPT ![w] = [ok[w] EXCEPT !.failed = TRUE]]
    BY <1>1, <2>1
  <2>3. QED
    BY <2>1, <2>2
<1>3. /\ r \in Reconciliation /\ r.at = worker[w].at /\ r.key = worker[w].key
      /\ r.todo \subseteq worker[w].todo /\ r.fresh = worker[w].fresh
  BY <1>1, <1>2 DEF Reconciliation
<1>4. /\ s \in Reconciliation /\ s.at = worker[w].at /\ s.key = worker[w].key
      /\ s.todo \subseteq worker[w].todo /\ s.fresh = worker[w].fresh
  BY <1>2, <1>3 DEF Reconciliation
<1>5. ASSUME NEW ws \in {ok, err}
      PROVE  /\ ws \in [Workers -> Reconciliation]
             /\ \A v \in Workers : /\ ws[v].at = worker[v].at /\ ws[v].key = worker[v].key
                                   /\ ws[v].todo \subseteq worker[v].todo
                                   /\ ws[v].fresh = worker[v].fresh
  BY <1>1, <1>2, <1>3, <1>4, Zenon
<1>6. /\ worker' \in [Workers -> Reconciliation]
      /\ workloads' \in [Workloads -> Templates \cup {None}]
      /\ FreshInv'
      /\ \A v \in Workers : /\ worker'[v].at = worker[v].at /\ worker'[v].key = worker[v].key
                            /\ worker'[v].todo \subseteq worker[v].todo
  <2>1. CASE \E ws \in {ok, err} : Acceptable(w, x) /\ Written(ws, x, Reconciled(w, workloads[x]))
    <3>1. PICK ws \in {ok, err} : Acceptable(w, x) /\ Written(ws, x, Reconciled(w, workloads[x]))
      BY <2>1
    <3>2. Reconciled(w, workloads[x]) \in Templates
      <4>1. workloads[x] \in Templates
        BY <1>1, <3>1 DEF Acceptable, FreshInv, TypeRest
      <4>2. worker[w].image \in Images \cup {None}
        BY <1>1 DEF Reconciliation
      <4>3. QED
        BY <4>1, <4>2 DEF Reconciled, WithUpdated, WithRemoved, Templates
    <3> HIDE DEF ok, err
    <3>3. \A v \in Workers : \A y \in ws[v].fresh : workloads[y] # None
      BY <1>1, <1>5 DEF FreshInv
    <3>4. ws \in [Workers -> Reconciliation]
      BY <1>5
    <3> DEFINE t == Reconciled(w, workloads[x])
    <3>5. Written(ws, x, t) /\ t \in Templates \cup {None}
      BY <3>1, <3>2
    <3> HIDE DEF t
    <3>6. /\ worker' \in [Workers -> Reconciliation]
          /\ workloads' \in [Workloads -> Templates \cup {None}]
          /\ FreshInv'
          /\ \A v \in Workers : /\ worker'[v].at = ws[v].at /\ worker'[v].key = ws[v].key
                                /\ worker'[v].todo = ws[v].todo
      BY <1>1, <3>3, <3>4, <3>5, WrittenKeeps
    <3>7. QED
      BY <1>5, <3>6
  <2>2. CASE worker' = err /\ UNCHANGED workloads
    <3> HIDE DEF ok, err
    <3>1. QED
      BY <1>1, <1>5, <2>2 DEF FreshInv, TypeRest
  <2>3. QED
    BY <2>1, <2>2 DEF UpdateWorkload
<1>7. TypeRest'
  BY <1>1, <1>6 DEF TypeRest
<1>8. BusyInv'
  BY <1>1, <1>6 DEF BusyInv, Busy
<1>9. StopInv'
  BY <1>1, <1>6 DEF StopInv, AllStopped
<1>10. QED
  BY <1>1, <1>6, <1>7, <1>8, <1>9 DEF Inv

LEMMA WorkerStepInv ==
    ASSUME Inv, NEW w \in Workers, WorkerStep(w)
    PROVE  Inv'
<1>1. /\ Sound(queue) /\ TypeRest /\ BusyInv /\ FreshInv /\ StopInv
      /\ worker \in [Workers -> Reconciliation]
  BY DEF Inv, TypeRest
<1>2. CASE Take(w)
  <2> DEFINE k == Head(queue.items)
  <2>1. /\ Sound(queue') /\ queue'.down = queue.down /\ k \in Keys /\ k \notin queue.processing
        /\ queue'.processing = queue.processing \cup {k}
    BY <1>1, <1>2, GotSound DEF Take, Taken
  <2>2. PICK r : r = At("start", k, None)
    OBVIOUS
  <2>3. /\ r \in Reconciliation /\ r.at = "start" /\ r.key = k /\ r.todo = {} /\ r.fresh = {}
    BY <2>1, <2>2 DEF At, Reconciliation
  <2>4. worker' = [worker EXCEPT ![w] = r]
    BY <1>2, <2>2 DEF Take, Enter
  <2> HIDE DEF k
  <2>5. /\ worker' \in [Workers -> Reconciliation] /\ worker'[w] = r
        /\ \A v \in Workers : v # w => worker'[v] = worker[v]
    BY <1>1, <2>3, <2>4
  <2>6. ~Busy(w)
    BY <1>2 DEF Take, Idle, At, Busy
  <2>7. TypeRest'
    BY <1>1, <1>2, <2>5 DEF Take, Rest, TypeRest
  <2>8. BusyInv'
    BY <1>1, <2>1, <2>3, <2>5, <2>6 DEF BusyInv, Busy
  <2>9. FreshInv'
    BY <1>1, <1>2, <2>3, <2>5 DEF FreshInv, Take
  <2>10. StopInv'
    BY <1>1, <2>1, <2>3, <2>5 DEF StopInv, AllStopped
  <2>11. QED
    BY <2>1, <2>7, <2>8, <2>9, <2>10 DEF Inv
<1>3. CASE Stop(w)
  <2>1. /\ Stopped \in Reconciliation /\ Stopped.at = "stopped" /\ Stopped.key = None
        /\ Stopped.todo = {} /\ Stopped.fresh = {}
    BY DEF Stopped, At, Reconciliation
  <2>2. worker' = [worker EXCEPT ![w] = Stopped] /\ queue' = queue /\ queue.down /\ queue.items = <<>>
    BY <1>3 DEF Stop, MayStop, Enter
  <2>3. /\ worker' \in [Workers -> Reconciliation] /\ worker'[w] = Stopped
        /\ \A v \in Workers : v # w => worker'[v] = worker[v]
    BY <1>1, <2>1, <2>2
  <2>4. ~Busy(w)
    BY <1>3 DEF Stop, Idle, At, Busy
  <2>5. TypeRest'
    BY <1>1, <1>3, <2>3 DEF Stop, Rest, TypeRest
  <2>6. BusyInv'
    BY <1>1, <2>1, <2>2, <2>3, <2>4 DEF BusyInv, Busy
  <2>7. FreshInv'
    BY <1>1, <1>3, <2>1, <2>3 DEF FreshInv, Stop
  <2>8. StopInv'
    BY <1>1, <2>2, <2>3 DEF StopInv, AllStopped
  <2>9. QED
    BY <1>1, <2>2, <2>5, <2>6, <2>7, <2>8 DEF Inv
<1>4. CASE Begin(w)
  <2> DEFINE k == worker[w].key
  <2>1. Busy(w) /\ k \in Keys
    BY <1>1, <1>4 DEF Begin, Busy, BusyInv, Sound, IsQueue
  <2>2. CASE Finish(w, FALSE)
    BY <2>1, <2>2, FinishStep
  <2>3. CASE ~Finish(w, FALSE)
    <3>1. PICK i : /\ i = (IF k.type = "Update" THEN cache[k.name] ELSE None)
                   /\ Enter(w, At("listing", k, i))
                   /\ UNCHANGED <<Rest, cache, queue, workloads, owed>>
                   /\ (k.type = "Update" => k.name \in DOMAIN cache)
      BY <1>4, <2>3 DEF Begin
    <3>2. i \in Images \cup {None}
      BY <1>1, <3>1 DEF TypeRest
    <3>3. PICK r : r = At("listing", k, i)
      OBVIOUS
    <3>4. r \in Reconciliation /\ r.at = "listing" /\ r.key = k /\ r.fresh = {}
      BY <2>1, <3>2, <3>3 DEF At, Reconciliation
    <3>5. worker' = [worker EXCEPT ![w] = r]
      BY <3>1, <3>3 DEF Enter
    <3>6. /\ worker' \in [Workers -> Reconciliation] /\ worker'[w] = r
          /\ \A v \in Workers : v # w => worker'[v] = worker[v]
      BY <1>1, <3>4, <3>5
    <3>7. QED
      BY <1>1, <2>1, <3>1, <3>4, <3>6, GoesOn DEF Busy, Rest
  <2>4. QED
    BY <2>2, <2>3
<1>5. ASSUME NEW kind \in SUBSET Workloads, NEW step \in {"deployments", "statefulsets"},
             Busy(w), Listed(w, kind, step)
      PROVE  Inv'
  <2>1. CASE Finish(w, TRUE)
    BY <1>5, <2>1, FinishStep
  <2>2. CASE ~Finish(w, TRUE)
    <3> DEFINE found == kind \cap Existing(worker[w].key.ns)
    <3>1. /\ Enter(w, [worker[w] EXCEPT !.at = step, !.todo = found, !.fresh = found])
          /\ UNCHANGED <<Rest, cache, queue, workloads, used, owed>>
      BY <1>5, <2>2 DEF Listed
    <3>2. /\ found \in SUBSET Workloads /\ \A x \in found : workloads[x] # None
      BY DEF Existing
    <3> HIDE DEF found
    <3>3. PICK r : r = [worker[w] EXCEPT !.at = step, !.todo = found, !.fresh = found]
      OBVIOUS
    <3>4. r \in Reconciliation /\ r.at = step /\ r.key = worker[w].key /\ r.fresh = found
      <4>1. worker[w] \in Reconciliation
        BY <1>1
      <4>2. QED
        BY <1>5, <3>2, <3>3, <4>1 DEF Reconciliation
    <3>5. worker' = [worker EXCEPT ![w] = r]
      BY <3>1, <3>3 DEF Enter
    <3>6. /\ worker' \in [Workers -> Reconciliation] /\ worker'[w] = r
          /\ \A v \in Workers : v # w => worker'[v] = worker[v]
      BY <1>1, <3>4, <3>5
    <3>7. QED
      BY <1>1, <1>5, <3>1, <3>2, <3>4, <3>6, GoesOn DEF Busy, Rest
  <2>3. QED
    BY <2>1, <2>2
<1>6. CASE ListDeployments(w)
  BY <1>5, <1>6 DEF ListDeployments, Busy, Workloads
<1>7. CASE ListStatefulSets(w)
  BY <1>5, <1>7 DEF ListStatefulSets, Busy, Workloads
<1>8. ASSUME NEW x \in Workloads, UpdateWorkload(w, x)
      PROVE  Inv'
  BY <1>8, UpdateStep
<1>9. CASE EndReconcile(w)
  BY <1>9, FinishStep DEF EndReconcile, Busy
<1>10. QED
  BY <1>2, <1>3, <1>4, <1>6, <1>7, <1>8, <1>9 DEF WorkerStep
-----------------------------------------------------------------------------
(* The other steps leave the workers where they are, or start them anew.   *)
LEMMA ReportStep ==
    ASSUME Inv, NEW o \in Objects, NEW s \in [name : Names, image : Images] \cup {None},
           Report(o, s)
    PROVE  Inv'
<1>1. /\ TypeRest /\ BusyInv /\ FreshInv /\ StopInv /\ NamespaceOf[o] \in Namespaces
      /\ UNCHANGED <<cache, queue, workloads, worker, cancelled, owed>>
  BY ClusterAssumption DEF Inv, Report
<1>2. /\ crd' \in [Objects -> {None} \cup [name : Names, image : Images]]
      /\ unlisted' \subseteq {p \in Objects : crd'[p] # None}
  BY <1>1 DEF Report, TypeRest
<1>3. ASSUME NEW type \in {"Add", "Update", "Delete"}, NEW spec \in [name : Names, image : Images]
      PROVE  Call(type, o, spec) \in Calls
  BY <1>1, <1>3 DEF Call, Calls, Keys
<1>4. handler' \in {NoCall} \cup Calls
  <2>1. o \notin unlisted => crd[o] \in [name : Names, image : Images] \cup {None}
    BY <1>1 DEF TypeRest
  <2>2. QED
    BY <1>3, <2>1 DEF Report
<1>5. TypeRest'
  BY <1>1, <1>2, <1>4 DEF TypeRest
<1>6. BusyInv' /\ FreshInv' /\ StopInv' /\ Sound(queue')
  BY <1>1 DEF Inv, BusyInv, FreshInv, StopInv, AllStopped, Busy
<1>7. QED
  BY <1>5, <1>6 DEF Inv

(* What a step of a callback is: it enqueues, is skipped, or writes the    *)
(* cache.                                                                  *)
CallbackIs ==
    \/ enqueue
    \/ handler.at = "cache" /\ Skip /\ handler.key.name \notin DOMAIN cache
    \/ /\ handler.at = "cache" /\ handler.key.type = "Add"
       /\ Cached(CacheAdd(cache, handler.key.name, handler.image))
    \/ /\ handler.at = "cache" /\ handler.key.type = "Update" /\ handler.key.name \in DOMAIN cache
       /\ Cached(CacheUpdate(cache, handler.key.name, handler.image))
    \/ /\ handler.at = "cache" /\ handler.key.type = "Delete" /\ handler.key.name \in DOMAIN cache
       /\ Cached(CacheDelete(cache, handler.key.name))

LEMMA CallbackSteps ==
    ASSUME Inv, Callback
    PROVE  /\ CallbackIs
           /\ handler \in Calls /\ handler.key \in Keys /\ handler.image \in Images
           /\ handler.key.name \in Names /\ handler.key.ns \in Namespaces
           /\ UNCHANGED <<crd, unlisted, workloads, worker, cancelled>>
           /\ handler' = NoCall \/ (handler' \in Calls /\ handler'.at = "queue" /\ handler'.key = handler.key)
<1>1. handler \in Calls /\ UNCHANGED <<crd, unlisted, workloads, worker, cancelled>>
  BY DEF Inv, TypeRest, Callback
<1>2. handler.key \in Keys /\ handler.image \in Images
  BY <1>1 DEF Calls
<1>3. handler.key.name \in Names /\ handler.key.ns \in Namespaces
  BY <1>2 DEF Keys, Key
<1>4. CallbackIs
  BY DEF Callback, OnAdded, OnUpdated, OnDeleted, CallbackIs
<1>5. handler' = NoCall \/ (handler' \in Calls /\ handler'.at = "queue" /\ handler'.key = handler.key)
  <2>1. handler' = NoCall \/ handler' = [handler EXCEPT !.at = "queue"]
    BY <1>4 DEF CallbackIs, enqueue, Skip, Cached
  <2>2. QED
    BY <1>1, <2>1 DEF Calls
<1>6. QED
  BY <1>1, <1>2, <1>3, <1>4, <1>5

LEMMA NowOwedIs ==
    ASSUME NEW k
    PROVE  /\ NowOwed(k) \subseteq OthersOwed(k) \cup {<<k, x>> : x \in Existing(k.ns)}
           /\ k.type = "Add" => NowOwed(k) \subseteq OthersOwed(k)
           /\ OthersOwed(k) \subseteq owed /\ Existing(k.ns) \subseteq Workloads
BY DEF NowOwed, OthersOwed, Existing

LEMMA CallbackStep ==
    ASSUME Inv, Callback
    PROVE  Inv'
<1> DEFINE k == handler.key
           n == handler.key.name
<1>1. /\ Sound(queue) /\ TypeRest /\ BusyInv /\ FreshInv /\ StopInv
      /\ k \in Keys /\ n \in Names /\ handler.image \in Images /\ CallbackIs
      /\ UNCHANGED <<crd, unlisted, workloads, worker, cancelled>>
      /\ handler' \in {NoCall} \cup Calls
  BY CallbackSteps DEF Inv
<1>2. CASE enqueue
  <2>1. queue' = Added(queue, k) /\ UNCHANGED <<cache, owed>>
    BY <1>2 DEF enqueue
  <2>2. Sound(queue') /\ SameState(queue', queue) /\ (queue.down => queue' = queue)
    BY <1>1, <2>1, AddedSound
  <2>3. TypeRest'
    BY <1>1, <2>1 DEF TypeRest
  <2>4. BusyInv' /\ FreshInv' /\ StopInv'
    BY <1>1, <2>2 DEF BusyInv, FreshInv, StopInv, AllStopped, Busy, SameState
  <2>5. QED
    BY <2>2, <2>3, <2>4 DEF Inv
<1>3. CASE ~enqueue
  <2>1. queue' = queue
    BY <1>1, <1>3 DEF CallbackIs, Cached, Skip
  <2>2. DOMAIN cache' \subseteq Names /\ cache' \in [DOMAIN cache' -> Images]
    <3>1. CASE cache' = CacheAdd(cache, n, handler.image)
      BY <1>1, <3>1 DEF CacheAdd, TypeRest
    <3>2. CASE cache' = CacheUpdate(cache, n, handler.image)
      BY <1>1, <3>2 DEF CacheUpdate, TypeRest
    <3>3. CASE cache' = CacheDelete(cache, n)
      BY <1>1, <3>3 DEF CacheDelete, Restrict, TypeRest
    <3>4. CASE cache' = cache
      BY <1>1, <3>4 DEF TypeRest
    <3>5. QED
      BY <1>1, <1>3, <3>1, <3>2, <3>3, <3>4 DEF CallbackIs, Cached, Skip
  <2>3. owed' \subseteq {j \in Keys : j.type # "Add"} \X Workloads
    <3>1. owed' = owed \/ owed' = NowOwed(k)
      BY <1>1, <1>3 DEF CallbackIs, Cached, Skip
    <3>2. NowOwed(k) \subseteq {j \in Keys : j.type # "Add"} \X Workloads
      <4>1. owed \subseteq {j \in Keys : j.type # "Add"} \X Workloads
        BY <1>1 DEF TypeRest
      <4> HIDE DEF k
      <4>2. k.type # "Add" => {<<k, x>> : x \in Existing(k.ns)} \subseteq {j \in Keys : j.type # "Add"} \X Workloads
        BY <1>1, NowOwedIs
      <4>3. QED
        BY <4>1, <4>2, NowOwedIs
    <3>3. QED
      BY <1>1, <3>1, <3>2 DEF TypeRest
  <2>4. TypeRest'
    BY <1>1, <2>2, <2>3 DEF TypeRest
  <2>5. BusyInv' /\ FreshInv' /\ StopInv'
    BY <1>1, <2>1 DEF BusyInv, FreshInv, StopInv, AllStopped, Busy
  <2>6. QED
    BY <1>1, <2>1, <2>4, <2>5 DEF Inv
<1>4. QED
  BY <1>2, <1>3

LEMMA NextInv == Inv /\ [Next]_vars => Inv'
<1> SUFFICES ASSUME Inv, [Next]_vars PROVE Inv'
  OBVIOUS
<1>1. Sound(queue) /\ TypeRest /\ BusyInv /\ FreshInv /\ StopInv
  BY DEF Inv
<1>2. ASSUME NEW o \in Objects, NEW s \in Specs(o) \cup {None}, Change(o, s)
      PROVE  Inv'
  <2>1. s \in [name : Names, image : Images] \cup {None}
    BY ClusterAssumption DEF Specs
  <2>2. QED
    BY <1>2, <2>1, ReportStep DEF Change
<1>3. ASSUME NEW o \in Objects, List(o)
      PROVE  Inv'
  <2>1. crd[o] \in [name : Names, image : Images] \cup {None}
    BY <1>1 DEF TypeRest
  <2>2. QED
    BY <1>3, <2>1, ReportStep DEF List
<1>4. ASSUME NEW w \in Workers, WorkerStep(w)
      PROVE  Inv'
  BY <1>4, WorkerStepInv
<1>5. ASSUME NEW k \in Keys, BackoffElapses(k)
      PROVE  Inv'
  <2>1. Sound(queue') /\ SameState(queue', queue) /\ ~queue.down
    BY <1>1, <1>5, ElapsedSound DEF BackoffElapses, Sound
  <2>2. TypeRest'
    BY <1>1, <1>5 DEF BackoffElapses, Rest, TypeRest
  <2>3. BusyInv' /\ FreshInv' /\ StopInv'
    BY <1>1, <1>5, <2>1 DEF BackoffElapses, BusyInv, FreshInv, StopInv, AllStopped, Busy, SameState
  <2>4. QED
    BY <2>1, <2>2, <2>3 DEF Inv
<1>6. CASE Cancel
  BY <1>1, <1>6 DEF Cancel, Inv, TypeRest, BusyInv, FreshInv, StopInv, AllStopped, Busy
<1>7. CASE Run
  <2>1. Sound(queue') /\ queue'.processing = queue.processing /\ queue'.down /\ ~queue.down
    BY <1>1, <1>7, ShutDownSound DEF Run
  <2>2. TypeRest'
    BY <1>1, <1>7 DEF Run, Rest, TypeRest
  <2>3. BusyInv' /\ FreshInv' /\ StopInv'
    BY <1>1, <1>7, <2>1 DEF Run, BusyInv, FreshInv, StopInv, AllStopped, Busy
  <2>4. QED
    BY <2>1, <2>2, <2>3 DEF Inv
<1>8. ASSUME NEW x \in Workloads, NEW t \in Templates \cup {None}, Edit(x, t)
      PROVE  Inv'
  <2>1. /\ Written(worker, x, t) /\ owed' \subseteq owed
        /\ UNCHANGED <<crd, unlisted, handler, cancelled, cache, queue>>
    BY <1>8 DEF Edit, Rest
  <2>2. /\ worker' \in [Workers -> Reconciliation]
        /\ workloads' \in [Workloads -> Templates \cup {None}]
        /\ FreshInv'
        /\ \A w \in Workers : /\ worker'[w].at = worker[w].at /\ worker'[w].key = worker[w].key
                              /\ worker'[w].todo = worker[w].todo
    BY <1>1, <2>1, WrittenKeeps DEF TypeRest, FreshInv
  <2>3. TypeRest'
    BY <1>1, <2>1, <2>2 DEF TypeRest
  <2>4. BusyInv' /\ StopInv'
    BY <1>1, <2>1, <2>2 DEF BusyInv, StopInv, AllStopped, Busy
  <2>5. QED
    BY <1>1, <2>1, <2>2, <2>3, <2>4 DEF Inv
<1>9. CASE Restart
  <2>1. Sound(queue') /\ queue'.processing = {} /\ queue'.items = <<>>
    BY <1>9, EmptySound DEF Restart, EmptyQueue
  <2>2. /\ Idle.at = "idle" /\ Idle.key = None /\ Idle.todo = {} /\ Idle.fresh = {}
        /\ Idle \in Reconciliation
    BY DEF Idle, At, Reconciliation
  <2>3. worker' = [w \in Workers |-> Idle]
    BY <1>9 DEF Restart
  <2>4. TypeRest'
    BY <1>1, <1>9, <2>2, <2>3 DEF Restart, TypeRest
  <2>5. BusyInv' /\ FreshInv' /\ StopInv'
    BY <2>1, <2>2, <2>3 DEF BusyInv, FreshInv, StopInv, AllStopped, Busy
  <2>6. QED
    BY <2>1, <2>4, <2>5 DEF Inv
<1>10. CASE UNCHANGED vars
  BY <1>1, <1>10 DEF vars, Inv, TypeRest, BusyInv, FreshInv, StopInv, AllStopped, Busy
<1>11. CASE Callback
  BY <1>11, CallbackStep
<1>12. QED
  BY <1>2, <1>3, <1>4, <1>5, <1>6, <1>7, <1>8, <1>9, <1>10, <1>11 DEF Next, Step

THEOREM Invariant == Spec => []Inv
<1>1. QED
  BY InitInv, NextInv, PTL DEF Spec

-----------------------------------------------------------------------------
(* Results *)

(* Types: the cache holds images of known names, the queue and the workers *)
(* hold keys, however handlers, users, failures and restarts interleave.   *)
THEOREM TypeCorrect == Spec => []TypeOK
<1>1. NoCall \in [at : {"none", "cache", "queue"}, key : Keys \cup {None}, image : Images \cup {None}]
  BY DEF NoCall
<1>2. Inv => TypeOK
  BY <1>1 DEF Inv, TypeRest, TypeOK, Sound, IsQueue, Calls
<1>3. QED
  BY <1>2, Invariant, PTL

(* However many workers run, no key is reconciled by two of them at a time *)
(* although the handlers of crd_handlers.go add it again meanwhile: what   *)
(* is being processed is not queued, and each of it is one worker's.       *)
THEOREM NoTwoOnOneKey == Spec => []OneWorkerPerKey
<1>1. Inv => OneWorkerPerKey
  BY DEF Inv, BusyInv, OneWorkerPerKey
<1>2. QED
  BY <1>1, Invariant, PTL

(* With at least one worker, when runWorker has returned in all of them    *)
(* the queue is empty and nothing is left added or processed: an added key *)
(* is queued or its worker is busy, and the last worker to leave saw the   *)
(* queue empty.                                                            *)
THEOREM DrainedByLast ==
    ASSUME Workers # {}
    PROVE  Spec => []DrainedAtStop
<1>1. Inv => DrainedAtStop
  <2> SUFFICES ASSUME Inv, AllStopped PROVE queue.items = <<>> /\ queue.dirty = {} /\ queue.processing = {}
    BY DEF DrainedAtStop, AllStopped
  <2>1. queue.items = <<>> /\ queue.processing = {}
    BY DEF Inv, StopInv, BusyInv, AllStopped, Busy
  <2>2. queue.dirty = {}
    BY <2>1 DEF Inv, Sound, IsQueue
  <2>3. QED
    BY <2>1, <2>2
<1>2. QED
  BY <1>1, Invariant, PTL
-----------------------------------------------------------------------------
(* No change is lost.  The cache is keyed by the name of a container only, *)
(* so objects that share a name must share a namespace.                    *)

OneNamespacePerName ==
    \A o, p \in Objects : NamesOf[o] \cap NamesOf[p] # {} => NamespaceOf[o] = NamespaceOf[p]

Past(w) == worker[w].at \in {"listing", "deployments", "statefulsets"}

CrdInv == \A o \in Objects : crd[o] # None => crd[o].name \in NamesOf[o]

TodoInv == \A w \in Workers : \A x \in worker[w].todo : NamespaceOf[x] = worker[w].key.ns

(* What is owed comes from an object of the namespace, and an update that  *)
(* no deletion replaced is of a cached container.                          *)
OwedInv ==
    \A k \in Keys, x \in Workloads : <<k, x>> \in owed =>
        /\ NamespaceOf[x] = k.ns
        /\ \E o \in Objects : k.name \in NamesOf[o] /\ NamespaceOf[o] = k.ns
        /\ k.type = "Update" => k.name \in DOMAIN cache

(* The callback under way is of an object of its namespace. *)
CallInv ==
    handler # NoCall =>
        \E o \in Objects : handler.key.name \in NamesOf[o] /\ NamespaceOf[o] = handler.key.ns

(* Key k is added, or its callback has still to add it. *)
Again(k) == k \in queue.dirty \/ (handler.at = "queue" /\ handler.key = k)

(* A worker whose value is out of date has its key added again. *)
StaleInv ==
    ~queue.down =>
        \A w \in Workers, x \in Workloads :
            Past(w) /\ <<worker[w].key, x>> \in owed /\ worker[w].key.type = "Update" =>
                \/ Again(worker[w].key)
                \/ worker[w].image = cache[worker[w].key.name]

Held(k, x) ==
    \/ Settled(k, x)
    \/ ToCome(k)
    \/ \E w \in Workers : UnderWay(w, k, x)

HeldInv ==
    ~queue.down => \A k \in Keys, x \in Workloads : <<k, x>> \in owed => Held(k, x)

LossInv == Inv /\ CrdInv /\ CallInv /\ TodoInv /\ OwedInv /\ StaleInv /\ HeldInv

LEMMA InitLoss == Init => LossInv
<1> SUFFICES ASSUME Init PROVE LossInv
  OBVIOUS
<1>1. Inv
  BY InitInv
<1>2. CrdInv
  <2>1. \A o \in Objects : crd[o] \in Specs(o) \cup {None}
    BY DEF Init
  <2>2. QED
    BY <2>1 DEF CrdInv, Specs
<1>3. \A w \in Workers : worker[w].todo = {}
  BY DEF Init, Idle, At
<1>4. owed = {}
  BY DEF Init
<1>5. CallInv
  BY DEF Init, CallInv
<1>6. QED
  BY <1>1, <1>2, <1>3, <1>4, <1>5 DEF LossInv, TodoInv, OwedInv, StaleInv, HeldInv

(* What the operations do to what is added or waits for its backoff.       *)
LEMMA AddedPending ==
    ASSUME NEW q, Sound(q), NEW k \in Keys, ~q.down
    PROVE  Added(q, k).dirty = q.dirty \cup {k} /\ Added(q, k).waiting = q.waiting
<1>1. CASE k \in q.dirty
  BY <1>1 DEF Added
<1>2. CASE k \notin q.dirty
  <2> DEFINE p == Added(q, k)
  <2>1. /\ IsQueue(q)
        /\ p = [q EXCEPT !.dirty = @ \cup {k},
                         !.items = IF k \in q.processing THEN @ ELSE Append(@, k)]
    BY <1>2 DEF Added, Sound
  <2> HIDE DEF p
  <2>2. p.dirty = q.dirty \cup {k} /\ p.waiting = q.waiting
    BY <2>1 DEF IsQueue
  <2>3. QED
    BY <2>2 DEF p
<1>3. QED
  BY <1>1, <1>2

LEMMA DonePending ==
    ASSUME NEW q, Sound(q), NEW k
    PROVE  DoneWith(q, k).dirty = q.dirty /\ DoneWith(q, k).waiting = q.waiting
<1> DEFINE p == DoneWith(q, k)
<1>1. Fields(p, IF k \in q.dirty THEN Append(q.items, k) ELSE q.items, q.dirty,
             q.processing \ {k}, q.waiting, q.requeues, q.down)
  BY DoneFields DEF Sound
<1> HIDE DEF p
<1>2. p.dirty = q.dirty /\ p.waiting = q.waiting
  BY <1>1 DEF Fields
<1>3. QED
  BY <1>2 DEF p

LEMMA GotPending ==
    ASSUME NEW q, Sound(q)
    PROVE  Got(q).dirty = q.dirty \ {Head(q.items)} /\ Got(q).waiting = q.waiting
<1> DEFINE p == Got(q)
<1>1. Fields(p, Tail(q.items), q.dirty \ {Head(q.items)}, q.processing \cup {Head(q.items)},
             q.waiting, q.requeues, q.down)
  BY GotFields DEF Sound
<1> HIDE DEF p
<1>2. p.dirty = q.dirty \ {Head(q.items)} /\ p.waiting = q.waiting
  BY <1>1 DEF Fields
<1>3. QED
  BY <1>2 DEF p

LEMMA UncountedPending ==
    ASSUME NEW q, Sound(q), NEW r
    PROVE  /\ [q EXCEPT !.requeues = r].dirty = q.dirty
           /\ [q EXCEPT !.requeues = r].waiting = q.waiting
<1> DEFINE p == [q EXCEPT !.requeues = r]
<1>1. Fields(p, q.items, q.dirty, q.processing, q.waiting, r, q.down)
  BY RequeuesFields DEF Sound
<1> HIDE DEF p
<1>2. p.dirty = q.dirty /\ p.waiting = q.waiting
  BY <1>1 DEF Fields
<1>3. QED
  BY <1>2 DEF p

LEMMA RateLimitedPending ==
    ASSUME NEW q, Sound(q), NEW k, ~q.down
    PROVE  /\ RateLimited(q, k).dirty = q.dirty
           /\ RateLimited(q, k).waiting = q.waiting \cup {k}
<1> DEFINE r == [x \in DOMAIN q.requeues \cup {k} |-> NumRequeues(q, x) + IF x = k THEN 1 ELSE 0]
           W == IF q.down THEN q.waiting ELSE q.waiting \cup {k}
           p == RateLimited(q, k)
<1>1. p = [q EXCEPT !.requeues = r, !.waiting = W]
  BY DEF RateLimited
<1>2. W = q.waiting \cup {k}
  OBVIOUS
<1> HIDE DEF p, r, W
<1>3. Fields(p, q.items, q.dirty, q.processing, W, r, q.down)
  BY <1>1, BothFields DEF Sound
<1>4. p.dirty = q.dirty /\ p.waiting = q.waiting \cup {k}
  BY <1>2, <1>3 DEF Fields
<1>5. QED
  BY <1>4 DEF p

LEMMA RequeuedPending ==
    ASSUME Sound(queue), NEW k \in Keys, ~queue.down
    PROVE  /\ Sound(Requeued(k)) /\ Requeued(k).dirty = queue.dirty
           /\ Requeued(k).waiting = queue.waiting \cup {k}
<1> DEFINE q == RateLimited(queue, k)
<1>1. Sound(q) /\ q.dirty = queue.dirty /\ q.waiting = queue.waiting \cup {k}
  BY RateLimitedSound, RateLimitedPending
<1> HIDE DEF q
<1>2. Requeued(k) = q \/ Requeued(k) = [q EXCEPT !.requeues = EmptyQueue.requeues]
  BY DEF Requeued, q
<1>3. QED
  BY <1>1, <1>2, UncountedSound, UncountedPending

LEMMA ForgottenPending ==
    ASSUME NEW q, Sound(q), NEW k
    PROVE  Forgotten(q, k).dirty = q.dirty /\ Forgotten(q, k).waiting = q.waiting
BY UncountedPending DEF Forgotten

LEMMA ElapsedPending ==
    ASSUME NEW q, Sound(q), NEW k \in Keys, ~q.down
    PROVE  /\ Elapsed(q, k).dirty = q.dirty \cup {k}
           /\ Elapsed(q, k).waiting = q.waiting \ {k}
<1> DEFINE W == q.waiting \ {k}
           p == [q EXCEPT !.waiting = W]
<1>1. /\ IsQueue(q) /\ q.down \in BOOLEAN /\ W \in SUBSET Keys /\ (q.down => W = {})
      /\ q.requeues \in [DOMAIN q.requeues -> Nat]
  BY DEF Sound, IsQueue
<1>2. Elapsed(q, k) = Added(p, k)
  BY DEF Elapsed
<1> HIDE DEF W
<1>3. Fields(p, q.items, q.dirty, q.processing, W, q.requeues, q.down)
  BY <1>1, WaitingFields
<1> HIDE DEF p
<1>4. Sound(p) /\ p.down = q.down
  BY <1>1, <1>3, ElseSound
<1>5. p.dirty = q.dirty /\ p.waiting = W
  BY <1>3 DEF Fields
<1>6. QED
  BY <1>2, <1>4, <1>5, AddedPending DEF W
Loss == CrdInv /\ CallInv /\ TodoInv /\ OwedInv /\ StaleInv /\ HeldInv

(* A reconciliation ends: a failed one leaves its key in backoff, or gives *)
(* up what it owes.                                                        *)
LEMMA FinishLoss ==
    ASSUME LossInv, NEW w \in Workers, Busy(w), NEW failed, Finish(w, failed),
           failed \/ \A x \in Workloads : <<worker[w].key, x>> \in owed =>
                                              ~UnderWay(w, worker[w].key, x)
    PROVE  Loss'
<1> DEFINE k == worker[w].key
<1>1. /\ Sound(queue) /\ k \in queue.processing /\ k \in Keys
      /\ CrdInv /\ CallInv /\ TodoInv /\ OwedInv /\ StaleInv /\ HeldInv /\ TypeRest
      /\ ClusterAssumption
  BY ClusterAssumption DEF LossInv, Inv, BusyInv, Sound, IsQueue
<1>2. /\ owed' \subseteq owed /\ UNCHANGED <<crd, unlisted, handler, cancelled, cache, workloads>>
  BY DEF Finish, Rest
<1>3. /\ Idle.at = "idle" /\ Idle.key = None /\ Idle.todo = {} /\ ~Idle.failed
      /\ Idle \in Reconciliation
  BY DEF Idle, At, Reconciliation
<1>4. /\ worker'[w] = Idle
      /\ \A v \in Workers : v # w => worker'[v] = worker[v]
  BY <1>1, <1>3 DEF Finish, Enter, TypeRest
<1>5. queue'.down = queue.down
  <2>1. Sound(Forgotten(queue, k)) /\ SameState(Forgotten(queue, k), queue)
    BY <1>1, ForgottenSound
  <2>2. Sound(Requeued(k)) /\ SameState(Requeued(k), queue)
    BY <1>1, RateLimitedSound, UncountedSound DEF Requeued, SameState
  <2>3. queue' = DoneWith(Requeued(k), k) \/ queue' = DoneWith(Forgotten(queue, k), k)
    BY DEF Finish
  <2>4. QED
    BY <1>1, <2>1, <2>2, <2>3, DoneSound DEF SameState
<1>6. ASSUME ~queue.down
      PROVE  queue'.dirty = queue.dirty /\ queue.waiting \subseteq queue'.waiting
  <2>1. Sound(Forgotten(queue, k)) /\ Forgotten(queue, k).dirty = queue.dirty
        /\ Forgotten(queue, k).waiting = queue.waiting
    BY <1>1, ForgottenSound, ForgottenPending
  <2>2. Sound(Requeued(k)) /\ Requeued(k).dirty = queue.dirty
        /\ Requeued(k).waiting = queue.waiting \cup {k}
    BY <1>1, <1>6, RequeuedPending
  <2>3. queue' = DoneWith(Requeued(k), k) \/ queue' = DoneWith(Forgotten(queue, k), k)
    BY DEF Finish
  <2>4. QED
    BY <2>1, <2>2, <2>3, DonePending
<1>7. ASSUME ~queue.down, failed, NEW j \in Keys, j = k
      PROVE  ToCome(j)' \/ \A x : <<j, x>> \notin owed'
  <2>1. CASE ShouldRetry(k)
    <3>1. queue' = DoneWith(Requeued(k), k)
      BY <1>7, <2>1 DEF Finish
    <3>2. Sound(Requeued(k)) /\ Requeued(k).waiting = queue.waiting \cup {k}
      BY <1>1, <1>7, RequeuedPending
    <3>3. QED
      BY <1>7, <3>1, <3>2, DonePending DEF ToCome
  <2>2. CASE ~ShouldRetry(k)
    <3>1. MaxRetries >= 0
      BY <1>1, <2>2 DEF ShouldRetry, ClusterAssumption
    <3>2. CASE ToCome(k)
      BY <1>2, <1>6, <1>7, <3>2 DEF ToCome
    <3>3. CASE ~ToCome(k)
      <4>1. owed' = {d \in owed : d[1] # k}
        BY <1>7, <2>2, <3>1, <3>3 DEF Finish
      <4>2. QED
        BY <1>7, <4>1
    <3>4. QED
      BY <3>2, <3>3
  <2>3. QED
    BY <2>1, <2>2
<1>8. CrdInv' /\ CallInv' /\ TodoInv' /\ OwedInv'
  BY <1>1, <1>2, <1>3, <1>4 DEF CrdInv, CallInv, TodoInv, OwedInv
<1>9. StaleInv'
  BY <1>1, <1>2, <1>3, <1>4, <1>5, <1>6 DEF StaleInv, Past, Again
<1>10. HeldInv'
  <2> SUFFICES ASSUME ~queue.down, NEW j \in Keys, NEW x \in Workloads, <<j, x>> \in owed'
               PROVE  Held(j, x)'
    BY <1>5 DEF HeldInv
  <2>1. Held(j, x) /\ <<j, x>> \in owed
    BY <1>1, <1>2 DEF HeldInv
  <2>2. CASE Settled(j, x)
    BY <1>2, <2>2 DEF Settled, Held
  <2>3. CASE ToCome(j)
    BY <1>2, <1>6, <2>3 DEF Held, ToCome
  <2>4. ASSUME NEW v \in Workers, v # w, UnderWay(v, j, x)
        PROVE  Held(j, x)'
    <3>1. worker'[v] = worker[v] /\ cache' = cache
      BY <1>2, <1>4, <2>4
    <3>2. UnderWay(v, j, x)'
      BY <2>4, <3>1 DEF UnderWay
    <3>3. QED
      BY <3>2 DEF Held
  <2>5. CASE UnderWay(w, j, x)
    <3>1. j = k
      BY <2>5 DEF UnderWay
    <3>2. failed
      BY <2>1, <2>5, <3>1
    <3>3. QED
      BY <1>7, <3>1, <3>2 DEF Held
  <2>6. QED
    BY <2>1, <2>2, <2>3, <2>4, <2>5 DEF Held
<1>11. QED
  BY <1>8, <1>9, <1>10 DEF Loss

(* A worker goes on: what was under way with it still is, or is settled.   *)
LEMMA GoesOnLoss ==
    ASSUME LossInv, NEW w \in Workers, UNCHANGED <<crd, unlisted, handler, cache, queue, workloads, owed>>,
           \A v \in Workers : v # w => worker'[v] = worker[v],
           worker'[w].key = worker[w].key,
           worker[w].key.type = "Update" /\ worker'[w].at # "start" =>
               \/ Past(w) /\ worker'[w].image = worker[w].image
               \/ worker'[w].image = cache[worker[w].key.name],
           \A x \in worker'[w].todo : NamespaceOf[x] = worker[w].key.ns,
           \A x \in Workloads : <<worker[w].key, x>> \in owed /\ UnderWay(w, worker[w].key, x) =>
               UnderWay(w, worker[w].key, x)' \/ Settled(worker[w].key, x)
    PROVE  Loss'
<1> DEFINE k == worker[w].key
<1>1. CrdInv /\ CallInv /\ TodoInv /\ OwedInv /\ StaleInv /\ HeldInv
  BY DEF LossInv
<1>2. CrdInv' /\ CallInv' /\ TodoInv' /\ OwedInv'
  BY <1>1 DEF CrdInv, CallInv, TodoInv, OwedInv
<1>3. StaleInv'
  <2> SUFFICES ASSUME ~queue.down, NEW v \in Workers, NEW x \in Workloads,
                      Past(v)', <<worker'[v].key, x>> \in owed, worker'[v].key.type = "Update"
               PROVE  \/ Again(worker'[v].key)
                      \/ worker'[v].image = cache[worker'[v].key.name]
    BY DEF StaleInv, Again
  <2>1. CASE v # w
    BY <1>1, <2>1 DEF StaleInv, Past
  <2>2. CASE v = w
    BY <1>1, <2>2 DEF StaleInv, Past
  <2>3. QED
    BY <2>1, <2>2
<1>4. HeldInv'
  <2> SUFFICES ASSUME ~queue.down, NEW j \in Keys, NEW x \in Workloads, <<j, x>> \in owed
               PROVE  Held(j, x)'
    BY DEF HeldInv
  <2>1. Held(j, x)
    BY <1>1 DEF HeldInv
  <2>2. Settled(j, x) => Held(j, x)'
    BY DEF Settled, Held
  <2>3. CASE ToCome(j)
    BY <2>3 DEF Held, ToCome
  <2>4. ASSUME NEW v \in Workers, UnderWay(v, j, x)
        PROVE  Held(j, x)'
    <3>1. CASE v # w
      <4>1. UnderWay(v, j, x)'
        BY <2>4, <3>1 DEF UnderWay
      <4>2. QED
        BY <4>1 DEF Held
    <3>2. CASE v = w
      <4>1. j = k
        BY <2>4, <3>2 DEF UnderWay
      <4>2. UnderWay(w, j, x)' \/ Settled(j, x)
        BY <2>4, <3>2, <4>1
      <4>3. QED
        BY <2>2, <4>2 DEF Held
    <3>3. QED
      BY <3>1, <3>2
  <2>5. QED
    BY <2>1, <2>2, <2>3, <2>4 DEF Held
<1>5. QED
  BY <1>2, <1>3, <1>4 DEF Loss
(* A workload of the list is written, or its write fails.  The name of a   *)
(* container and the namespace of a workload give the key, so two keys of  *)
(* a type that meet at a container of a workload are one.                  *)
LEMMA UpdateLoss ==
    ASSUME LossInv, NEW w \in Workers, NEW y \in Workloads, UpdateWorkload(w, y)
    PROVE  Loss'
<1> DEFINE ok  == [worker EXCEPT ![w].todo = @ \ {y}]
           err == [ok EXCEPT ![w].failed = TRUE]
           k   == worker[w].key
           t   == Reconciled(w, workloads[y])
<1>1. /\ CrdInv /\ CallInv /\ TodoInv /\ OwedInv /\ StaleInv /\ HeldInv /\ TypeRest /\ FreshInv
      /\ worker \in [Workers -> Reconciliation] /\ worker[w] \in Reconciliation
      /\ y \in worker[w].todo /\ Busy(w) /\ k \in Keys /\ NamespaceOf[y] = k.ns
      /\ UNCHANGED <<crd, unlisted, handler, cancelled, cache, queue, owed>>
  BY DEF LossInv, Inv, TypeRest, BusyInv, TodoInv, UpdateWorkload, Rest, Sound, IsQueue
<1>2. PICK r, s : /\ r = [worker[w] EXCEPT !.todo = @ \ {y}] /\ s = [r EXCEPT !.failed = TRUE]
                  /\ ok = [worker EXCEPT ![w] = r] /\ err = [worker EXCEPT ![w] = s]
  <2>1. /\ ok = [worker EXCEPT ![w] = [worker[w] EXCEPT !.todo = @ \ {y}]]
        /\ ok[w] = [worker[w] EXCEPT !.todo = @ \ {y}]
    BY <1>1
  <2>2. err = [worker EXCEPT ![w] = [ok[w] EXCEPT !.failed = TRUE]]
    BY <1>1, <2>1
  <2>3. QED
    BY <2>1, <2>2
<1>3. /\ r \in Reconciliation /\ r.at = worker[w].at /\ r.key = k /\ r.image = worker[w].image
      /\ r.todo = worker[w].todo \ {y} /\ r.fresh = worker[w].fresh /\ r.failed = worker[w].failed
  BY <1>1, <1>2 DEF Reconciliation
<1>4. /\ s \in Reconciliation /\ s.at = worker[w].at /\ s.key = k /\ s.image = worker[w].image
      /\ s.todo = worker[w].todo \ {y} /\ s.fresh = worker[w].fresh /\ s.failed = TRUE
  BY <1>2, <1>3 DEF Reconciliation
<1>5. ASSUME NEW ws \in {ok, err}
      PROVE  /\ ws \in [Workers -> Reconciliation]
             /\ \A v \in Workers : v # w => ws[v] = worker[v]
             /\ ws[w] = r \/ ws[w] = s
             /\ ws = err => ws[w] = s
             /\ \A v \in Workers : /\ ws[v].at = worker[v].at /\ ws[v].key = worker[v].key
                                   /\ ws[v].image = worker[v].image
                                   /\ ws[v].fresh = worker[v].fresh
  <2>1. /\ ok[w] = r /\ err[w] = s
        /\ ok \in [Workers -> Reconciliation] /\ err \in [Workers -> Reconciliation]
        /\ \A v \in Workers : v # w => ok[v] = worker[v] /\ err[v] = worker[v]
    BY <1>1, <1>2, <1>3, <1>4
  <2> HIDE DEF ok, err
  <2>2. /\ ws \in [Workers -> Reconciliation] /\ ws[w] \in {r, s} /\ (ws = err => ws[w] = s)
        /\ \A v \in Workers : v # w => ws[v] = worker[v]
    BY <1>5, <2>1
  <2>3. QED
    BY <1>3, <1>4, <2>2
<1>6. t \in Templates \/ ~Acceptable(w, y)
  <2>1. Acceptable(w, y) => workloads[y] \in Templates
    BY <1>1 DEF Acceptable, FreshInv, TypeRest
  <2>2. worker[w].image \in Images \cup {None}
    BY <1>1 DEF Reconciliation
  <2>3. QED
    BY <2>1, <2>2 DEF Reconciled, WithUpdated, WithRemoved, Templates
<1>7. PICK ws \in {ok, err} :
          \/ Acceptable(w, y) /\ Written(ws, y, t)
          \/ ws = err /\ worker' = err /\ UNCHANGED workloads
  BY DEF UpdateWorkload
<1> HIDE DEF ok, err, t
<1>8. \A v \in Workers : \A x \in ws[v].fresh : workloads[x] # None
  BY <1>1, <1>5 DEF FreshInv
<1>9. \A v \in Workers : /\ worker'[v].at = ws[v].at /\ worker'[v].key = ws[v].key
                         /\ worker'[v].todo = ws[v].todo /\ worker'[v].image = ws[v].image
                         /\ worker'[v].failed = ws[v].failed
  <2>1. CASE Acceptable(w, y) /\ Written(ws, y, t)
    <3>1. ws \in [Workers -> Reconciliation] /\ t \in Templates \cup {None}
      BY <1>5, <1>6, <2>1
    <3>2. QED
      BY <1>1, <1>8, <2>1, <3>1, WrittenKeeps
  <2>2. CASE worker' = ws
    BY <2>2
  <2>3. QED
    BY <1>7, <2>1, <2>2
<1>10. \A v \in Workers : worker'[v].at = worker[v].at /\ worker'[v].key = worker[v].key
                          /\ worker'[v].image = worker[v].image
  BY <1>5, <1>9
<1>11. CrdInv' /\ CallInv' /\ OwedInv'
  BY <1>1 DEF CrdInv, CallInv, OwedInv
<1>12. TodoInv'
  <2>1. \A v \in Workers : worker'[v].todo \subseteq worker[v].todo
    BY <1>3, <1>4, <1>5, <1>9
  <2>2. QED
    BY <1>1, <1>10, <2>1 DEF TodoInv
<1>13. StaleInv'
  BY <1>1, <1>10 DEF StaleInv, Past, Again
<1>14. \/ workloads' = workloads
       \/ Acceptable(w, y) /\ workloads' = [workloads EXCEPT ![y] = t]
  BY <1>7 DEF Written
<1>15. /\ \A x \in Workloads : x # y => workloads'[x] = workloads[x]
       /\ workloads'[y] = workloads[y] \/ (Acceptable(w, y) /\ workloads'[y] = t)
  <2>1. workloads \in [Workloads -> Templates \cup {None}]
    BY DEF LossInv, Inv, TypeRest
  <2>2. CASE workloads' = workloads
    BY <2>2
  <2>3. CASE Acceptable(w, y) /\ workloads' = [workloads EXCEPT ![y] = t]
    BY <2>1, <2>3
  <2>4. QED
    BY <1>14, <2>2, <2>3
<1>16. ASSUME Acceptable(w, y), NEW n \in Names
       PROVE  /\ t \in Templates /\ workloads[y] \in Templates /\ workloads[y] # None
              /\ n # k.name => t[n] = workloads[y][n]
              /\ workloads[y][n] = None => t[n] = None
              /\ k.type # "Update" => t[k.name] = None
              /\ k.type = "Update" => t[k.name] \in {None, worker[w].image}
  <2>1. workloads[y] \in Templates /\ workloads[y] # None
    BY <1>1, <1>16 DEF Acceptable, FreshInv, TypeRest
  <2>2. workloads[y] \in [Names -> Images \cup {None}] /\ k.name \in Names
    BY <1>1, <2>1 DEF Templates, Keys, Key
  <2>3. QED
    BY <1>6, <1>16, <2>1, <2>2 DEF t, Reconciled, WithUpdated, WithRemoved
<1>17. HeldInv'
  <2> SUFFICES ASSUME ~queue.down, NEW j \in Keys, NEW x \in Workloads, <<j, x>> \in owed
               PROVE  Held(j, x)'
    BY <1>1 DEF HeldInv
  <2>1. /\ Held(j, x) /\ NamespaceOf[x] = j.ns /\ j.type \in {"Update", "Delete"} /\ j.name \in Names
        /\ j.type = "Update" => j.name \in DOMAIN cache
    <3>1. j.type \in {"Add", "Update", "Delete"} /\ j.name \in Names
      BY DEF Keys, Key
    <3>2. j.type # "Add"
      BY <1>1 DEF TypeRest
    <3>3. QED
      BY <1>1, <3>1, <3>2 DEF HeldInv, OwedInv
  <2>2. CASE x # y
    <3>1. Settled(j, x) => Held(j, x)'
      BY <1>1, <1>15, <2>2 DEF Settled, Held
    <3>2. CASE ToCome(j)
      BY <1>1, <3>2 DEF Held, ToCome
    <3>3. ASSUME NEW v \in Workers, UnderWay(v, j, x)
          PROVE  Held(j, x)'
      <4>1. \/ worker'[v].failed
            \/ worker'[v].failed = worker[v].failed /\ (x \in worker'[v].todo <=> x \in worker[v].todo)
        BY <1>3, <1>4, <1>5, <1>9, <2>2
      <4>2. UnderWay(v, j, x)'
        BY <1>1, <1>10, <3>3, <4>1 DEF UnderWay
      <4>3. QED
        BY <4>2 DEF Held
    <3>4. QED
      BY <2>1, <3>1, <3>2, <3>3 DEF Held
  <2>3. CASE x = y
    <3>1. j.name = k.name /\ j.type = "Update" /\ k.type = "Update" => j = k
      BY <1>1, <2>1, <2>3 DEF Keys, Key
    <3>2. CASE Settled(j, x)
      <4>1. CASE workloads'[y] = workloads[y]
        BY <1>1, <2>3, <3>2, <4>1 DEF Settled, Held
      <4>2. CASE Acceptable(w, y) /\ workloads'[y] = t
        <5>1. CASE workloads[y][j.name] = None \/ j.name # k.name \/ k.type # "Update"
          <6>1. t[j.name] = None \/ t[j.name] = workloads[y][j.name]
            BY <1>16, <2>1, <4>2, <5>1
          <6>2. Settled(j, x)'
            BY <1>1, <1>16, <2>1, <2>3, <3>2, <4>2, <6>1 DEF Settled
          <6>3. QED
            BY <6>2 DEF Held
        <5>2. CASE workloads[y][j.name] # None /\ j.name = k.name /\ k.type = "Update"
          <6>1. j = k
            BY <1>16, <2>1, <2>3, <3>1, <3>2, <4>2, <5>2 DEF Settled
          <6>2. CASE Again(j)
            BY <1>1, <6>2 DEF Held, ToCome, Again
          <6>3. CASE worker[w].image = cache[j.name]
            <7>1. t[j.name] = None \/ t[j.name] = cache[j.name]
              BY <1>16, <2>1, <4>2, <5>2, <6>3
            <7>2. Settled(j, x)'
              BY <1>1, <2>1, <2>3, <4>2, <5>2, <6>1, <7>1 DEF Settled
            <7>3. QED
              BY <7>2 DEF Held
          <6>4. CASE ~Past(w)
            <7>1. worker[w].at = "start"
              BY <1>1, <6>4 DEF Past, Busy, Reconciliation
            <7>2. UnderWay(w, j, x)'
              BY <1>10, <6>1, <7>1 DEF UnderWay
            <7>3. QED
              BY <7>2 DEF Held
          <6>5. QED
            BY <1>1, <5>2, <6>1, <6>2, <6>3, <6>4 DEF StaleInv
        <5>3. QED
          BY <5>1, <5>2
      <4>3. QED
        BY <1>15, <4>1, <4>2
    <3>3. CASE ToCome(j)
      BY <1>1, <3>3 DEF Held, ToCome
    <3>4. ASSUME NEW v \in Workers, v # w, UnderWay(v, j, x)
          PROVE  Held(j, x)'
      <4>1. worker'[v].failed = worker[v].failed /\ worker'[v].todo = worker[v].todo
        BY <1>5, <1>9, <3>4
      <4>2. UnderWay(v, j, x)'
        BY <1>1, <1>10, <3>4, <4>1 DEF UnderWay
      <4>3. QED
        BY <4>2 DEF Held
    <3>5. CASE UnderWay(w, j, x)
      <4>1. j = k
        BY <3>5 DEF UnderWay
      <4>2. CASE worker'[w].failed \/ worker[w].at = "start"
        <5>1. UnderWay(w, j, x)'
          BY <1>10, <4>1, <4>2 DEF UnderWay
        <5>2. QED
          BY <5>1 DEF Held
      <4>3. CASE ~worker'[w].failed /\ worker[w].at # "start"
        <5>1. Acceptable(w, y) /\ workloads' = [workloads EXCEPT ![y] = t]
          BY <1>4, <1>5, <1>7, <1>9, <4>3 DEF Written
        <5>2. workloads'[y] = t
          BY <1>1, <5>1 DEF TypeRest
        <5>3. ~worker[w].failed
          BY <1>3, <1>4, <1>5, <1>9, <4>3
        <5>4. k.type = "Update" => worker[w].image = cache[k.name]
          BY <3>5, <4>1, <4>3, <5>3 DEF UnderWay
        <5>5. t[j.name] = None \/ (j.type = "Update" /\ t[j.name] = cache[j.name])
          BY <1>16, <2>1, <4>1, <5>1, <5>4
        <5>6. Settled(j, x)'
          BY <1>1, <2>1, <2>3, <5>2, <5>5 DEF Settled
        <5>7. QED
          BY <5>6 DEF Held
      <4>4. QED
        BY <4>2, <4>3
    <3>6. QED
      BY <2>1, <3>2, <3>3, <3>4, <3>5 DEF Held
  <2>4. QED
    BY <2>2, <2>3
<1>18. QED
  BY <1>11, <1>12, <1>13, <1>17 DEF Loss
LEMMA WorkerStepLoss ==
    ASSUME LossInv, NEW w \in Workers, WorkerStep(w)
    PROVE  Loss'
<1>1. /\ Inv /\ Sound(queue) /\ TypeRest /\ BusyInv
      /\ CrdInv /\ CallInv /\ TodoInv /\ OwedInv /\ StaleInv /\ HeldInv
      /\ worker \in [Workers -> Reconciliation] /\ worker[w] \in Reconciliation
  BY DEF LossInv, Inv, TypeRest
<1>2. CASE Take(w)
  <2> DEFINE k == Head(queue.items)
  <2>1. /\ queue'.down = queue.down /\ k \in Keys /\ k \notin queue.processing
        /\ queue'.dirty = queue.dirty \ {k} /\ queue'.waiting = queue.waiting
    BY <1>1, <1>2, GotSound, GotPending DEF Take, Taken
  <2>2. PICK r : r = At("start", k, None)
    OBVIOUS
  <2>3. r.at = "start" /\ r.key = k /\ r.todo = {}
    BY <2>2 DEF At
  <2>4. worker' = [worker EXCEPT ![w] = r] /\ UNCHANGED <<crd, handler, cache, workloads, owed>>
    BY <1>2, <2>2 DEF Take, Enter, Rest
  <2> HIDE DEF k
  <2>5. worker'[w] = r /\ \A v \in Workers : v # w => worker'[v] = worker[v]
    BY <1>1, <2>4
  <2>6. worker[w].at = "idle" /\ ~worker[w].failed
    BY <1>2 DEF Take, Idle, At
  <2>7. CrdInv' /\ CallInv' /\ TodoInv' /\ OwedInv'
    BY <1>1, <2>3, <2>4, <2>5 DEF CrdInv, CallInv, TodoInv, OwedInv
  <2>8. StaleInv'
    <3> SUFFICES ASSUME ~queue.down, NEW v \in Workers, NEW x \in Workloads, NEW j,
                        j = worker'[v].key, Past(v)', <<j, x>> \in owed, j.type = "Update"
                 PROVE  \/ Again(j)'
                        \/ worker'[v].image = cache[j.name]
      BY <2>1, <2>4 DEF StaleInv, Again
    <3>1. v # w /\ worker'[v] = worker[v] /\ Past(v)
      BY <2>3, <2>5 DEF Past
    <3>2. j \in queue.processing
      BY <1>1, <3>1 DEF BusyInv, Busy, Past
    <3>3. Again(j) \/ worker[v].image = cache[j.name]
      BY <1>1, <3>1 DEF StaleInv
    <3>4. Again(j) => Again(j)'
      BY <2>1, <2>4, <3>2 DEF Again
    <3>5. QED
      BY <3>1, <3>3, <3>4
  <2>9. HeldInv'
    <3> SUFFICES ASSUME ~queue.down, NEW j \in Keys, NEW x \in Workloads, <<j, x>> \in owed
                 PROVE  Held(j, x)'
      BY <2>1, <2>4 DEF HeldInv
    <3>1. Held(j, x)
      BY <1>1 DEF HeldInv
    <3>2. CASE Settled(j, x)
      BY <2>4, <3>2 DEF Settled, Held
    <3>3. CASE j = k
      <4>1. UnderWay(w, j, x)'
        BY <2>3, <2>5, <3>3 DEF UnderWay
      <4>2. QED
        BY <4>1 DEF Held
    <3>4. CASE j # k /\ ToCome(j)
      BY <2>1, <2>4, <3>4 DEF Held, ToCome
    <3>5. ASSUME NEW v \in Workers, UnderWay(v, j, x)
          PROVE  Held(j, x)'
      <4>1. v # w
        BY <2>6, <3>5 DEF UnderWay
      <4>2. UnderWay(v, j, x)'
        BY <2>4, <2>5, <3>5, <4>1 DEF UnderWay
      <4>3. QED
        BY <4>2 DEF Held
    <3>6. QED
      BY <3>1, <3>2, <3>3, <3>4, <3>5 DEF Held
  <2>10. QED
    BY <2>7, <2>8, <2>9 DEF Loss
<1>3. CASE Stop(w)
  <2>1. /\ Stopped.todo = {}
        /\ worker' = [worker EXCEPT ![w] = Stopped] /\ queue' = queue /\ queue.down
        /\ UNCHANGED <<crd, handler, cache, workloads, owed>>
    BY <1>3 DEF Stop, MayStop, Enter, Stopped, At, Rest
  <2>2. worker'[w] = Stopped /\ \A v \in Workers : v # w => worker'[v] = worker[v]
    BY <1>1, <2>1
  <2>3. QED
    BY <1>1, <2>1, <2>2 DEF Loss, CrdInv, CallInv, TodoInv, OwedInv, StaleInv, HeldInv
<1>4. CASE Begin(w)
  <2> DEFINE k == worker[w].key
  <2>1. Busy(w) /\ k \in Keys /\ worker[w].at = "start"
    BY <1>1, <1>4 DEF Begin, Busy, BusyInv, Sound, IsQueue
  <2>2. CASE k.type = "Add" \/ (k.type = "Update" /\ k.name \notin DOMAIN cache)
    <3>1. Finish(w, FALSE)
      BY <1>4, <2>2 DEF Begin
    <3>2. \A x \in Workloads : <<k, x>> \notin owed
      BY <1>1, <2>1, <2>2 DEF TypeRest, OwedInv
    <3>3. QED
      BY <2>1, <3>1, <3>2, FinishLoss
  <2>3. CASE ~(k.type = "Add" \/ (k.type = "Update" /\ k.name \notin DOMAIN cache))
    <3>1. PICK i : /\ i = (IF k.type = "Update" THEN cache[k.name] ELSE None)
                   /\ Enter(w, At("listing", k, i))
                   /\ UNCHANGED <<Rest, cache, queue, workloads, owed>>
      BY <1>4, <2>3 DEF Begin
    <3>2. PICK r : r = At("listing", k, i)
      OBVIOUS
    <3>3. r.at = "listing" /\ r.key = k /\ r.todo = {} /\ r.image = i
      BY <3>2 DEF At
    <3>4. worker' = [worker EXCEPT ![w] = r]
      BY <3>1, <3>2 DEF Enter
    <3>5. worker'[w] = r /\ \A v \in Workers : v # w => worker'[v] = worker[v]
      BY <1>1, <3>4
    <3>6. k.type = "Update" => worker'[w].image = cache[k.name] /\ k.name \in DOMAIN cache
      BY <2>3, <3>1, <3>3, <3>5
    <3>7. \A x \in Workloads : UnderWay(w, k, x)'
      BY <3>1, <3>3, <3>5, <3>6 DEF UnderWay
    <3>8. QED
      BY <3>1, <3>3, <3>5, <3>6, <3>7, GoesOnLoss DEF Rest
  <2>4. QED
    BY <2>2, <2>3
<1>5. ASSUME NEW kind \in SUBSET Workloads, NEW step \in {"deployments", "statefulsets"},
             Busy(w), Past(w), Listed(w, kind, step),
             \A x \in Workloads : UnderWay(w, worker[w].key, x) /\ ~worker[w].failed =>
                 x \in kind \/ (step = "deployments" /\ x \in StatefulSets)
      PROVE  Loss'
  <2> DEFINE k == worker[w].key
             found == kind \cap Existing(k.ns)
  <2>1. CASE Finish(w, TRUE)
    BY <1>5, <2>1, FinishLoss
  <2>2. CASE ~Finish(w, TRUE)
    <3>1. /\ Enter(w, [worker[w] EXCEPT !.at = step, !.todo = found, !.fresh = found])
          /\ UNCHANGED <<Rest, cache, queue, workloads, owed>>
      BY <1>5, <2>2 DEF Listed
    <3>2. \A x \in found : NamespaceOf[x] = k.ns
      BY DEF Existing
    <3>3. \A x \in kind : x \notin found /\ NamespaceOf[x] = k.ns => workloads[x] = None
      BY <1>5 DEF Existing
    <3> HIDE DEF found
    <3>4. PICK r : r = [worker[w] EXCEPT !.at = step, !.todo = found, !.fresh = found]
      OBVIOUS
    <3>5. /\ r.at = step /\ r.key = worker[w].key /\ r.todo = found
          /\ r.image = worker[w].image /\ r.failed = worker[w].failed
      BY <1>1, <3>4 DEF Reconciliation
    <3>6. worker' = [worker EXCEPT ![w] = r]
      BY <3>1, <3>4 DEF Enter
    <3>7. worker'[w] = r /\ \A v \in Workers : v # w => worker'[v] = worker[v]
      BY <1>1, <3>6
    <3>8. ASSUME NEW x \in Workloads, <<k, x>> \in owed, UnderWay(w, k, x)
          PROVE  UnderWay(w, k, x)' \/ Settled(k, x)
      <4>1. CASE worker[w].failed
        BY <3>5, <3>7, <4>1 DEF UnderWay
      <4>2. CASE ~worker[w].failed
        <5>1. NamespaceOf[x] = k.ns
          BY <1>1, <1>5, <3>8 DEF OwedInv, BusyInv, Sound, IsQueue
        <5>2. k.type = "Update" => k.name \in DOMAIN cache /\ worker[w].image = cache[k.name]
          BY <1>5, <3>8, <4>2 DEF UnderWay, Past
        <5>3. x \in found \/ (step = "deployments" /\ x \in StatefulSets) \/ workloads[x] = None
          BY <1>5, <3>3, <3>8, <4>2, <5>1
        <5>4. (x \in found \/ (step = "deployments" /\ x \in StatefulSets)) => UnderWay(w, k, x)'
          BY <1>5, <3>1, <3>5, <3>7, <5>2 DEF UnderWay
        <5>5. QED
          BY <5>3, <5>4 DEF Settled
      <4>3. QED
        BY <4>1, <4>2
    <3>9. QED
      BY <1>5, <3>1, <3>2, <3>5, <3>7, <3>8, GoesOnLoss DEF Rest
  <2>3. QED
    BY <2>1, <2>2
<1>6. CASE ListDeployments(w)
  <2>1. worker[w].at = "listing" /\ Listed(w, Deployments, "deployments")
    BY <1>6 DEF ListDeployments
  <2>2. QED
    BY <1>5, <2>1 DEF Busy, Past, Workloads
<1>7. CASE ListStatefulSets(w)
  <2>1. /\ worker[w].at = "deployments" /\ worker[w].todo = {}
        /\ Listed(w, StatefulSets, "statefulsets")
    BY <1>7 DEF ListStatefulSets
  <2>2. \A x \in Workloads : UnderWay(w, worker[w].key, x) /\ ~worker[w].failed => x \in StatefulSets
    BY <2>1 DEF UnderWay
  <2>3. QED
    BY <1>5, <2>1, <2>2 DEF Busy, Past, Workloads
<1>8. ASSUME NEW x \in Workloads, UpdateWorkload(w, x)
      PROVE  Loss'
  BY <1>8, UpdateLoss
<1>9. CASE EndReconcile(w)
  <2>1. worker[w].at = "statefulsets" /\ worker[w].todo = {} /\ Finish(w, worker[w].failed)
    BY <1>9 DEF EndReconcile
  <2>2. worker[w].failed \/ \A x \in Workloads : ~UnderWay(w, worker[w].key, x)
    BY <2>1 DEF UnderWay
  <2>3. QED
    BY <2>1, <2>2, FinishLoss DEF Busy
<1>10. QED
  BY <1>2, <1>3, <1>4, <1>6, <1>7, <1>8, <1>9 DEF WorkerStep

(* A report starts a callback that has reached nothing yet. *)
LEMMA ReportLoss ==
    ASSUME LossInv, NEW o \in Objects, NEW s, s # None => s \in Specs(o), Report(o, s)
    PROVE  Loss'
<1>1. /\ TypeRest /\ CrdInv /\ TodoInv /\ OwedInv /\ StaleInv /\ HeldInv
      /\ handler = NoCall /\ UNCHANGED <<cache, queue, workloads, worker, owed>>
      /\ crd' = [crd EXCEPT ![o] = s] /\ NamesOf[o] \subseteq Names
  BY ClusterAssumption DEF LossInv, Inv, Report
<1>2. CrdInv' /\ TodoInv' /\ OwedInv'
  BY <1>1 DEF CrdInv, TodoInv, OwedInv, Specs, TypeRest
<1>3. \A type, spec : spec.name \in NamesOf[o] =>
          /\ Call(type, o, spec).at = "cache"
          /\ Call(type, o, spec).key.name \in NamesOf[o]
          /\ Call(type, o, spec).key.ns = NamespaceOf[o]
  BY DEF Call, Key
<1>4. handler' = NoCall \/ \E type, spec : spec.name \in NamesOf[o] /\ handler' = Call(type, o, spec)
  <2>1. s # None => s.name \in NamesOf[o]
    BY DEF Specs
  <2>2. crd[o] # None => crd[o].name \in NamesOf[o]
    BY <1>1 DEF CrdInv
  <2>3. QED
    BY <2>1, <2>2 DEF Report
<1>5. CallInv'
  BY <1>3, <1>4 DEF CallInv
<1>6. handler.at # "queue"
  BY <1>1 DEF NoCall
<1>7. StaleInv' /\ HeldInv'
  BY <1>1, <1>6 DEF StaleInv, Past, Again, HeldInv, Held, ToCome, Settled, UnderWay
<1>8. QED
  BY <1>2, <1>5, <1>7 DEF Loss

(* A callback adds its key, and what it owes since it wrote the cache took *)
(* the place of what was owed for its container.                           *)
LEMMA CallbackLoss ==
    ASSUME LossInv, OneNamespacePerName, Callback
    PROVE  Loss'
<1>1. /\ Sound(queue) /\ TypeRest /\ CrdInv /\ CallInv /\ TodoInv /\ OwedInv /\ StaleInv /\ HeldInv
      /\ handler \in Calls /\ handler.key \in Keys /\ CallbackIs
      /\ UNCHANGED <<crd, unlisted, workloads, worker, cancelled>>
      /\ handler' = NoCall \/ (handler' \in Calls /\ handler'.at = "queue" /\ handler'.key = handler.key)
  BY CallbackSteps DEF LossInv, Inv
<1>2. PICK new \in Keys : new = handler.key
  BY <1>1
<1>3. PICK o \in Objects : new.name \in NamesOf[o] /\ NamespaceOf[o] = new.ns
  <2>1. handler # NoCall
    BY DEF Callback
  <2>2. QED
    BY <1>1, <1>2, <2>1 DEF CallInv
<1>4. CrdInv' /\ TodoInv' /\ CallInv'
  <2>1. CrdInv' /\ TodoInv'
    BY <1>1 DEF CrdInv, TodoInv
  <2>2. CallInv'
    BY <1>1, <1>2, <1>3 DEF CallInv
  <2>3. QED
    BY <2>1, <2>2
<1>5. CASE UNCHANGED <<cache, owed>> /\ handler.at = "cache" /\ UNCHANGED queue
  <2>1. OwedInv'
    BY <1>1, <1>5 DEF OwedInv
  <2>2. StaleInv' /\ HeldInv'
    BY <1>1, <1>5 DEF StaleInv, Past, Again, HeldInv, Held, ToCome, Settled, UnderWay
  <2>3. QED
    BY <1>4, <2>1, <2>2 DEF Loss
<1>6. CASE enqueue
  <2>1. handler.at = "queue" /\ queue' = Added(queue, new) /\ UNCHANGED <<cache, owed>>
    BY <1>2, <1>6 DEF enqueue
  <2>2. queue'.down = queue.down
    BY <1>1, <2>1, AddedSound DEF SameState
  <2>3. ~queue.down => queue'.dirty = queue.dirty \cup {new} /\ queue'.waiting = queue.waiting
    BY <1>1, <2>1, AddedPending
  <2>4. ~queue.down => \A k : (Again(k) => Again(k)') /\ (ToCome(k) => ToCome(k)')
    BY <1>2, <2>3 DEF Again, ToCome
  <2>5. OwedInv'
    BY <1>1, <2>1 DEF OwedInv
  <2>6. StaleInv'
    <3> SUFFICES ASSUME ~queue.down, NEW w \in Workers, NEW x \in Workloads, NEW k, k = worker[w].key,
                        Past(w), <<k, x>> \in owed, k.type = "Update"
                 PROVE  Again(k)' \/ worker[w].image = cache[k.name]
      BY <1>1, <2>1, <2>2 DEF StaleInv, Past, Again
    <3>1. QED
      BY <1>1, <2>4 DEF StaleInv
  <2>7. HeldInv'
    <3> SUFFICES ASSUME ~queue.down, NEW j \in Keys, NEW x \in Workloads, <<j, x>> \in owed
                 PROVE  Held(j, x)'
      BY <2>1, <2>2 DEF HeldInv
    <3>1. Held(j, x)
      BY <1>1 DEF HeldInv
    <3>2. QED
      BY <1>1, <2>1, <2>4, <3>1 DEF Held, Settled, UnderWay
  <2>8. QED
    BY <1>4, <2>5, <2>6, <2>7 DEF Loss
<1>7. ASSUME handler.at = "cache", UNCHANGED queue, handler' = [handler EXCEPT !.at = "queue"],
             \A m : m # new.name => /\ m \in DOMAIN cache' <=> m \in DOMAIN cache
                                    /\ m \in DOMAIN cache => cache'[m] = cache[m],
             new.type = "Update" => new.name \in DOMAIN cache',
             owed' = NowOwed(new)
      PROVE  Loss'
  <2>1. handler'.at = "queue" /\ handler'.key = new
    BY <1>1, <1>2, <1>7 DEF Calls
  <2>2. Again(new)' /\ ToCome(new)'
    BY <2>1 DEF Again, ToCome
  <2>3. \A k : (Again(k) => Again(k)') /\ (ToCome(k) => ToCome(k)')
    BY <1>7 DEF Again, ToCome
  <2>4. ASSUME NEW j \in Keys, NEW x \in Workloads, <<j, x>> \in owed'
        PROVE  \/ j = new /\ NamespaceOf[x] = new.ns
               \/ <<j, x>> \in owed /\ j.name # new.name
    <3>1. CASE <<j, x>> \in OthersOwed(new)
      <4>1. <<j, x>> \in owed /\ ~(j.ns = new.ns /\ j.name = new.name)
        BY <3>1 DEF OthersOwed
      <4>2. PICK p \in Objects : j.name \in NamesOf[p] /\ NamespaceOf[p] = j.ns
        BY <1>1, <4>1 DEF OwedInv
      <4>3. QED
        BY <4>1, <4>2, <1>3 DEF OneNamespacePerName
    <3>2. CASE <<j, x>> \in {<<new, y>> : y \in Existing(new.ns)}
      BY <3>2 DEF Existing
    <3>3. QED
      BY <1>7, <2>4, <3>1, <3>2, NowOwedIs
  <2>5. OwedInv'
    <3> SUFFICES ASSUME NEW j \in Keys, NEW x \in Workloads, <<j, x>> \in owed'
                 PROVE  /\ NamespaceOf[x] = j.ns
                        /\ \E p \in Objects : j.name \in NamesOf[p] /\ NamespaceOf[p] = j.ns
                        /\ j.type = "Update" => j.name \in DOMAIN cache'
      BY DEF OwedInv
    <3>1. CASE j = new /\ NamespaceOf[x] = new.ns
      BY <1>3, <1>7, <3>1
    <3>2. CASE <<j, x>> \in owed /\ j.name # new.name
      BY <1>1, <1>7, <3>2 DEF OwedInv
    <3>3. QED
      BY <2>4, <3>1, <3>2
  <2>6. StaleInv'
    <3> SUFFICES ASSUME ~queue.down, NEW w \in Workers, NEW x \in Workloads, NEW k, k = worker[w].key,
                        Past(w), <<k, x>> \in owed', k.type = "Update"
                 PROVE  Again(k)' \/ worker[w].image = cache'[k.name]
      BY <1>1, <1>7 DEF StaleInv, Past, Again
    <3>1. k \in Keys
      BY DEF LossInv, Inv, BusyInv, Busy, Past, Sound, IsQueue
    <3>2. CASE k = new
      BY <2>2, <3>2
    <3>3. CASE <<k, x>> \in owed /\ k.name # new.name
      BY <1>1, <1>7, <2>3, <3>1, <3>3 DEF StaleInv, OwedInv
    <3>4. QED
      BY <2>4, <3>1, <3>2, <3>3
  <2>7. HeldInv'
    <3> SUFFICES ASSUME ~queue.down, NEW j \in Keys, NEW x \in Workloads, <<j, x>> \in owed'
                 PROVE  Held(j, x)'
      BY <1>7 DEF HeldInv
    <3>1. CASE j = new
      BY <2>2, <3>1 DEF Held
    <3>2. CASE <<j, x>> \in owed /\ j.name # new.name
      <4>1. Held(j, x) /\ (j.type = "Update" => j.name \in DOMAIN cache)
        BY <1>1, <3>2 DEF HeldInv, OwedInv
      <4>2. /\ j.name \in DOMAIN cache' <=> j.name \in DOMAIN cache
            /\ j.name \in DOMAIN cache => cache'[j.name] = cache[j.name]
        BY <1>7, <3>2
      <4>3. Settled(j, x) => Held(j, x)'
        BY <1>1, <4>2 DEF Settled, Held
      <4>4. ToCome(j) => Held(j, x)'
        BY <2>3 DEF Held
      <4>5. ASSUME NEW w \in Workers, UnderWay(w, j, x)
            PROVE  Held(j, x)'
        <5>1. UnderWay(w, j, x)'
          BY <1>1, <4>2, <4>5 DEF UnderWay
        <5>2. QED
          BY <5>1 DEF Held
      <4>6. QED
        BY <4>1, <4>3, <4>4, <4>5 DEF Held
    <3>3. QED
      BY <2>4, <3>1, <3>2
  <2>8. QED
    BY <1>4, <2>5, <2>6, <2>7 DEF Loss
<1>8. ASSUME NEW c, Cached(c), handler.at = "cache",
             \/ c = CacheAdd(cache, new.name, handler.image) /\ new.type = "Add"
             \/ c = CacheUpdate(cache, new.name, handler.image) /\ new.name \in DOMAIN cache
             \/ c = CacheDelete(cache, new.name) /\ new.type = "Delete"
      PROVE  Loss'
  <2>1. /\ cache' = c /\ owed' = NowOwed(new) /\ UNCHANGED queue
        /\ handler' = [handler EXCEPT !.at = "queue"]
    BY <1>2, <1>8 DEF Cached
  <2>2. /\ \A m : m # new.name => /\ m \in DOMAIN cache' <=> m \in DOMAIN cache
                                  /\ m \in DOMAIN cache => cache'[m] = cache[m]
        /\ new.type = "Update" => new.name \in DOMAIN cache'
    <3>1. CASE c = CacheAdd(cache, new.name, handler.image)
      BY <2>1, <3>1 DEF CacheAdd
    <3>2. CASE c = CacheUpdate(cache, new.name, handler.image) /\ new.name \in DOMAIN cache
      BY <1>1, <2>1, <3>2 DEF CacheUpdate, TypeRest
    <3>3. CASE c = CacheDelete(cache, new.name) /\ new.type = "Delete"
      BY <2>1, <3>3 DEF CacheDelete, Restrict
    <3>4. QED
      BY <1>8, <3>1, <3>2, <3>3
  <2>3. QED
    BY <1>7, <1>8, <2>1, <2>2
<1>9. CASE handler.at = "cache" /\ Skip
  BY <1>5, <1>9 DEF Skip
<1>10. CASE handler.at = "cache" /\ new.type = "Add" /\ Cached(CacheAdd(cache, new.name, handler.image))
  BY <1>8, <1>10
<1>11. CASE handler.at = "cache" /\ new.name \in DOMAIN cache /\ Cached(CacheUpdate(cache, new.name, handler.image))
  BY <1>8, <1>11
<1>12. CASE handler.at = "cache" /\ new.type = "Delete" /\ Cached(CacheDelete(cache, new.name))
  BY <1>8, <1>12
<1>13. QED
  BY <1>1, <1>2, <1>6, <1>9, <1>10, <1>11, <1>12 DEF CallbackIs

LEMMA NextLoss == OneNamespacePerName /\ LossInv /\ [Next]_vars => LossInv'
<1> SUFFICES ASSUME OneNamespacePerName, LossInv, [Next]_vars PROVE Loss'
  BY NextInv DEF LossInv, Loss
<1>1. /\ Sound(queue) /\ TypeRest /\ FreshInv
      /\ CrdInv /\ CallInv /\ TodoInv /\ OwedInv /\ StaleInv /\ HeldInv
  BY DEF LossInv, Inv
<1>2. ASSUME NEW o \in Objects, NEW s \in Specs(o) \cup {None}, Change(o, s)
      PROVE  Loss'
  BY <1>2, ReportLoss DEF Change
<1>3. ASSUME NEW o \in Objects, List(o)
      PROVE  Loss'
  <2>1. crd[o] # None => crd[o] \in Specs(o)
    <3>1. crd[o] # None => crd[o] \in [name : Names, image : Images] /\ crd[o].name \in NamesOf[o]
      BY <1>1 DEF TypeRest, CrdInv
    <3>2. QED
      BY <3>1 DEF Specs
  <2>2. QED
    BY <1>3, <2>1, ReportLoss DEF List
<1>4. ASSUME NEW w \in Workers, WorkerStep(w)
      PROVE  Loss'
  BY <1>4, WorkerStepLoss
<1>5. ASSUME NEW k \in Keys, BackoffElapses(k)
      PROVE  Loss'
  <2>1. /\ queue'.dirty = queue.dirty \cup {k} /\ queue'.waiting = queue.waiting \ {k}
        /\ queue'.down = queue.down
    BY <1>1, <1>5, ElapsedSound, ElapsedPending DEF BackoffElapses, Sound, SameState
  <2>2. UNCHANGED <<crd, handler, cache, workloads, worker, owed>>
    BY <1>5 DEF BackoffElapses, Rest
  <2>3. CrdInv' /\ CallInv' /\ TodoInv' /\ OwedInv' /\ StaleInv'
    BY <1>1, <2>1, <2>2 DEF CrdInv, CallInv, TodoInv, OwedInv, StaleInv, Past, Again
  <2>4. HeldInv'
    BY <1>1, <2>1, <2>2 DEF HeldInv, Held, ToCome, Settled, UnderWay
  <2>5. QED
    BY <2>3, <2>4 DEF Loss
<1>6. CASE Cancel \/ UNCHANGED vars
  <2>1. UNCHANGED <<crd, handler, cache, queue, workloads, worker, owed>>
    BY <1>6 DEF Cancel, vars
  <2>2. QED
    BY <1>1, <2>1 DEF Loss, CrdInv, CallInv, TodoInv, OwedInv, StaleInv, Past, Again, HeldInv, Held, ToCome, Settled, UnderWay
<1>7. CASE Run
  <2>1. queue'.down /\ UNCHANGED <<crd, handler, cache, workloads, worker, owed>>
    BY <1>1, <1>7, ShutDownSound DEF Run, Rest
  <2>2. QED
    BY <1>1, <2>1 DEF Loss, CrdInv, CallInv, TodoInv, OwedInv, StaleInv, HeldInv
<1>8. ASSUME NEW y \in Workloads, NEW t \in Templates \cup {None}, Edit(y, t)
      PROVE  Loss'
  <2>1. /\ Written(worker, y, t) /\ owed' = {d \in owed : d[2] # y}
        /\ UNCHANGED <<crd, unlisted, handler, cancelled, cache, queue>>
    BY <1>8 DEF Edit, Rest
  <2>2. /\ \A w \in Workers : /\ worker'[w].at = worker[w].at /\ worker'[w].key = worker[w].key
                              /\ worker'[w].todo = worker[w].todo
                              /\ worker'[w].image = worker[w].image
                              /\ worker'[w].failed = worker[w].failed
    BY <1>1, <2>1, WrittenKeeps DEF TypeRest, FreshInv
  <2>3. \A x \in Workloads : x # y => workloads'[x] = workloads[x]
    BY <1>1, <2>1 DEF Written, TypeRest
  <2>4. \A j \in Keys, x \in Workloads : <<j, x>> \in owed' => <<j, x>> \in owed /\ x # y
    BY <2>1
  <2>5. CrdInv' /\ CallInv' /\ TodoInv' /\ OwedInv' /\ StaleInv'
    <3>1. CrdInv' /\ CallInv' /\ TodoInv' /\ OwedInv'
      BY <1>1, <2>1, <2>2, <2>4 DEF CrdInv, CallInv, TodoInv, OwedInv
    <3>2. owed' \subseteq owed
      BY <2>1
    <3>3. StaleInv'
      BY <1>1, <2>1, <2>2, <3>2 DEF StaleInv, Past, Again
    <3>4. QED
      BY <3>1, <3>3
  <2>6. HeldInv'
    <3> SUFFICES ASSUME ~queue.down, NEW j \in Keys, NEW x \in Workloads, <<j, x>> \in owed'
                 PROVE  Held(j, x)'
      BY <2>1 DEF HeldInv
    <3>1. Held(j, x) /\ workloads'[x] = workloads[x]
      BY <1>1, <2>3, <2>4 DEF HeldInv
    <3>2. \A w \in Workers : UnderWay(w, j, x) => UnderWay(w, j, x)'
      BY <2>1, <2>2 DEF UnderWay
    <3>3. Settled(j, x) => Settled(j, x)'
      BY <2>1, <3>1 DEF Settled
    <3>4. QED
      BY <2>1, <3>1, <3>2, <3>3 DEF Held, ToCome
  <2>7. QED
    BY <2>5, <2>6 DEF Loss
<1>9. CASE Restart
  <2>1. /\ owed' = {} /\ UNCHANGED crd /\ handler' = NoCall
        /\ \A w \in Workers : worker'[w].todo = {}
    BY <1>9 DEF Restart, Idle, At
  <2>2. QED
    BY <1>1, <2>1 DEF Loss, CrdInv, CallInv, TodoInv, OwedInv, StaleInv, HeldInv
<1>10. CASE Callback
  BY <1>10, CallbackLoss
<1>11. QED
  BY <1>2, <1>3, <1>4, <1>5, <1>6, <1>7, <1>8, <1>9, <1>10 DEF Next, Step

(* No change of a container is lost while the process runs, however        *)
(* handlers, users, other workers, conflicts and failures interleave with  *)
(* the requests of processEvent and with the two accesses of a handler     *)
(* (crd_handlers.go): what a workload does not show yet is about to be     *)
(* added, added, in backoff, or with a worker that has still to write it   *)
(* or knows that it failed.                                                *)
THEOREM NothingIsLost ==
    ASSUME OneNamespacePerName
    PROVE  Spec => []NoChangeIsLost
<1>1. LossInv => NoChangeIsLost
  <2> SUFFICES ASSUME LossInv, ~queue.down, NEW d \in owed
               PROVE  \/ Settled(d[1], d[2])
                      \/ ToCome(d[1])
                      \/ \E w \in Workers : UnderWay(w, d[1], d[2])
    BY DEF NoChangeIsLost
  <2>1. d[1] \in Keys /\ d[2] \in Workloads /\ d = <<d[1], d[2]>>
    BY DEF LossInv, Inv, TypeRest
  <2>2. QED
    BY <2>1 DEF LossInv, HeldInv, Held
<1>2. LossInv /\ [Next]_vars => LossInv'
  BY NextLoss
<1>3. QED
  BY <1>1, <1>2, InitLoss, PTL DEF Spec
-----------------------------------------------------------------------------
(* The cache is what the informer reported, when each object has one name  *)
(* and no two share it.                                                    *)

OneNameEach ==
    \A o, p \in Objects : \A n \in NamesOf[o], m \in NamesOf[p] : n = m <=> o = p

Reported(n, o) == o \in Objects \ unlisted /\ crd[o] # None /\ crd[o].name = n

(* Container n is not the one whose callback has not reached the cache. *)
Seen(n) == handler.at = "cache" => handler.key.name # n

CacheInv ==
    /\ \A n \in Names, o \in Objects : Reported(n, o) /\ Seen(n) =>
           n \in DOMAIN cache /\ cache[n] = crd[o].image
    /\ \A n \in DOMAIN cache : Seen(n) => \E o \in Objects : Reported(n, o)

(* What the callback under way will write is what was reported. *)
PendingInv ==
    handler.at = "cache" =>
        LET n == handler.key.name
        IN  /\ handler.key.type = "Delete" => \A o \in Objects : ~Reported(n, o)
            /\ handler.key.type # "Delete" =>
                   \E o \in Objects : Reported(n, o) /\ crd[o].image = handler.image
            /\ n \in DOMAIN cache <=> handler.key.type # "Add"

LEMMA ReportCache ==
    ASSUME OneNameEach, TypeRest, CrdInv, CacheInv, NEW o \in Objects,
           NEW s, s # None => s \in Specs(o), Report(o, s)
    PROVE  CacheInv' /\ PendingInv'
<1> DEFINE known == IF o \in unlisted THEN None ELSE crd[o]
<1>1. /\ \A p \in Objects : crd'[p] = IF p = o THEN s ELSE crd[p]
      /\ unlisted' = unlisted \ {o} /\ cache' = cache
      /\ handler = NoCall
  BY DEF Report, TypeRest
<1>2. \A n : Seen(n)
  BY <1>1 DEF Seen, NoCall
<1>3. s # None => s.name \in NamesOf[o] /\ s.name \in Names
  BY ClusterAssumption DEF Specs
<1>4. known # None => known = crd[o] /\ o \notin unlisted /\ known.name \in NamesOf[o] /\ known.name \in Names
  BY DEF CrdInv, TypeRest
<1>5. \A n : \A p \in Objects : p # o => (Reported(n, p)' <=> Reported(n, p))
  BY <1>1 DEF Reported
<1>6. \A n \in NamesOf[o] : \A p \in Objects : Reported(n, p) \/ Reported(n, p)' => p = o
  BY <1>1 DEF Reported, OneNameEach, CrdInv
<1>7. \A n : Reported(n, o)' <=> s # None /\ s.name = n
  BY <1>1 DEF Reported
<1>8. \A n : Reported(n, o) <=> known # None /\ known.name = n
  BY DEF Reported
<1> HIDE DEF known
<1>9. ASSUME NEW type \in {"Add", "Update", "Delete"}, NEW spec, handler' = Call(type, o, spec),
             spec.name \in NamesOf[o], spec.name \in Names,
             type = "Delete" => s = None,
             type # "Delete" => s # None /\ s = spec,
             type = "Add" <=> known = None,
             known # None => known.name = spec.name
      PROVE  CacheInv' /\ PendingInv'
  <2>1. /\ handler'.at = "cache" /\ handler'.key.name = spec.name /\ handler'.key.type = type
        /\ handler'.image = spec.image
    BY <1>9 DEF Call, Key
  <2>2. \A n : Seen(n)' <=> n # spec.name
    BY <2>1 DEF Seen
  <2>3. \A n : n # spec.name => ~Reported(n, o) /\ ~Reported(n, o)'
    BY <1>7, <1>8, <1>9
  <2>4. \A p \in Objects : p # o => crd'[p] = crd[p]
    BY <1>1
  <2>5. CacheInv'
    <3>1. \A n \in Names, p \in Objects : Reported(n, p)' /\ Seen(n)' =>
              n \in DOMAIN cache' /\ cache'[n] = crd'[p].image
      BY <1>1, <1>2, <1>5, <2>2, <2>3, <2>4 DEF CacheInv
    <3>2. \A n \in DOMAIN cache' : Seen(n)' => \E p \in Objects : Reported(n, p)'
      BY <1>1, <1>2, <1>5, <2>2, <2>3 DEF CacheInv
    <3>3. QED
      BY <3>1, <3>2 DEF CacheInv
  <2>6. spec.name \in DOMAIN cache <=> type # "Add"
    <3>1. CASE known = None
      <4>1. \A p \in Objects : ~Reported(spec.name, p)
        BY <1>6, <1>8, <1>9, <3>1
      <4>2. QED
        BY <1>2, <1>9, <3>1, <4>1 DEF CacheInv
    <3>2. CASE known # None
      <4>1. Reported(spec.name, o)
        BY <1>8, <1>9, <3>2
      <4>2. QED
        BY <1>2, <1>9, <3>2, <4>1 DEF CacheInv
    <3>3. QED
      BY <3>1, <3>2
  <2>7. type = "Delete" => \A p \in Objects : ~Reported(spec.name, p)'
    BY <1>6, <1>7, <1>9
  <2>8. type # "Delete" => Reported(spec.name, o)' /\ crd'[o].image = spec.image
    BY <1>1, <1>7, <1>9
  <2>9. PendingInv'
    BY <1>1, <2>1, <2>6, <2>7, <2>8 DEF PendingInv
  <2>10. QED
    BY <2>5, <2>9
<1>10. CASE known = None /\ s # None /\ handler' = Call("Add", o, s)
  BY <1>3, <1>9, <1>10
<1>11. CASE known # None /\ s # None /\ handler' = Call("Update", o, s)
  <2>1. known.name = s.name
    BY <1>3, <1>4, <1>11 DEF OneNameEach
  <2>2. QED
    BY <1>3, <1>9, <1>11, <2>1
<1>12. CASE known # None /\ s = None /\ handler' = Call("Delete", o, known)
  BY <1>4, <1>9, <1>12
<1>13. CASE known = None /\ s = None /\ UNCHANGED handler
  <2>1. \A n : ~Reported(n, o) /\ ~Reported(n, o)'
    BY <1>7, <1>8, <1>13
  <2>2. \A n : \A p \in Objects : Reported(n, p)' <=> Reported(n, p)
    BY <1>5, <2>1
  <2>3. \A n : Seen(n)'
    BY <1>1, <1>13 DEF Seen, NoCall
  <2>4. \A p \in Objects : p # o => crd'[p] = crd[p]
    BY <1>1
  <2>5. CacheInv'
    <3>1. \A n \in Names, p \in Objects : Reported(n, p)' /\ Seen(n)' =>
              n \in DOMAIN cache' /\ cache'[n] = crd'[p].image
      BY <1>1, <1>2, <2>1, <2>2, <2>4 DEF CacheInv
    <3>2. \A n \in DOMAIN cache' : Seen(n)' => \E p \in Objects : Reported(n, p)'
      BY <1>1, <1>2, <2>2 DEF CacheInv
    <3>3. QED
      BY <3>1, <3>2 DEF CacheInv
  <2>6. PendingInv'
    BY <1>1, <1>13 DEF PendingInv, NoCall
  <2>7. QED
    BY <2>5, <2>6
<1>14. QED
  BY <1>10, <1>11, <1>12, <1>13 DEF Report, known

LEMMA CallbackCache ==
    ASSUME OneNameEach, Inv, CrdInv, CacheInv, PendingInv, Callback
    PROVE  CacheInv' /\ PendingInv'
<1> DEFINE n == handler.key.name
<1>1. /\ TypeRest /\ CallbackIs /\ handler \in Calls /\ n \in Names
      /\ UNCHANGED <<crd, unlisted>>
      /\ handler' = NoCall \/ (handler' \in Calls /\ handler'.at = "queue")
  BY CallbackSteps DEF Inv
<1>2. handler'.at # "cache"
  BY <1>1 DEF NoCall
<1>3. PendingInv'
  BY <1>2 DEF PendingInv
<1>4. (\A m : Seen(m)') /\ (\A m, o : Reported(m, o)' <=> Reported(m, o))
  BY <1>1, <1>2 DEF Seen, Reported
<1>5. \A m : m # n => Seen(m)
  BY DEF Seen
<1>6. \A o, p \in Objects : Reported(n, o) /\ Reported(n, p) => o = p
  BY DEF Reported, CrdInv, OneNameEach
<1>7. ASSUME \A m : m # n => /\ m \in DOMAIN cache' <=> m \in DOMAIN cache
                             /\ m \in DOMAIN cache => cache'[m] = cache[m],
             \A o \in Objects : Reported(n, o) => n \in DOMAIN cache' /\ cache'[n] = crd[o].image,
             n \in DOMAIN cache' => \E o \in Objects : Reported(n, o)
      PROVE  CacheInv'
  <2>1. \A m \in Names, o \in Objects : Reported(m, o) => m \in DOMAIN cache' /\ cache'[m] = crd[o].image
    BY <1>5, <1>7 DEF CacheInv
  <2>2. \A m \in DOMAIN cache' : \E o \in Objects : Reported(m, o)
    BY <1>5, <1>7 DEF CacheInv
  <2>3. \A m \in Names, o \in Objects : Reported(m, o)' /\ Seen(m)' => m \in DOMAIN cache' /\ cache'[m] = crd'[o].image
    BY <1>1, <1>4, <2>1
  <2>4. \A m \in DOMAIN cache' : Seen(m)' => \E o \in Objects : Reported(m, o)'
    BY <1>4, <2>2
  <2>5. QED
    BY <2>3, <2>4 DEF CacheInv
<1>8. CASE enqueue
  <2>1. cache' = cache /\ handler.at = "queue"
    BY <1>8 DEF enqueue
  <2>2. Seen(n)
    BY <2>1 DEF Seen
  <2>3. QED
    BY <1>1, <1>3, <1>7, <2>1, <2>2 DEF CacheInv
<1>9. CASE handler.at = "cache" /\ Skip /\ n \notin DOMAIN cache
  <2>1. cache' = cache /\ handler.key.type = "Add"
    BY <1>9 DEF Skip, PendingInv
  <2>2. FALSE
    BY <1>1, <1>9, <2>1 DEF Callback, OnAdded, OnUpdated, OnDeleted, Cached, CacheAdd, Skip, enqueue, NoCall
  <2>3. QED
    BY <2>2
<1>10. CASE /\ handler.at = "cache" /\ handler.key.type = "Add"
            /\ Cached(CacheAdd(cache, n, handler.image))
  <2>1. n \notin DOMAIN cache /\ \E o \in Objects : Reported(n, o) /\ crd[o].image = handler.image
    BY <1>10 DEF PendingInv
  <2>2. /\ n \in DOMAIN cache' /\ cache'[n] = handler.image
        /\ \A m : m # n => /\ m \in DOMAIN cache' <=> m \in DOMAIN cache
                           /\ m \in DOMAIN cache => cache'[m] = cache[m]
    BY <1>10, <2>1 DEF Cached, CacheAdd
  <2>3. QED
    BY <1>3, <1>6, <1>7, <2>1, <2>2
<1>11. CASE /\ handler.at = "cache" /\ handler.key.type = "Update" /\ n \in DOMAIN cache
            /\ Cached(CacheUpdate(cache, n, handler.image))
  <2>1. \E o \in Objects : Reported(n, o) /\ crd[o].image = handler.image
    BY <1>11 DEF PendingInv
  <2>2. /\ n \in DOMAIN cache' /\ cache'[n] = handler.image
        /\ \A m : m # n => /\ m \in DOMAIN cache' <=> m \in DOMAIN cache
                           /\ m \in DOMAIN cache => cache'[m] = cache[m]
    BY <1>1, <1>11 DEF Cached, CacheUpdate, TypeRest
  <2>3. QED
    BY <1>3, <1>6, <1>7, <2>1, <2>2
<1>12. CASE /\ handler.at = "cache" /\ handler.key.type = "Delete" /\ n \in DOMAIN cache
            /\ Cached(CacheDelete(cache, n))
  <2>1. \A o \in Objects : ~Reported(n, o)
    BY <1>12 DEF PendingInv
  <2>2. /\ n \notin DOMAIN cache'
        /\ \A m : m # n => /\ m \in DOMAIN cache' <=> m \in DOMAIN cache
                           /\ m \in DOMAIN cache => cache'[m] = cache[m]
    BY <1>12 DEF Cached, CacheDelete, Restrict
  <2>3. QED
    BY <1>3, <1>7, <2>1, <2>2
<1>13. QED
  BY <1>1, <1>8, <1>9, <1>10, <1>11, <1>12 DEF CallbackIs

LEMMA NextCache ==
    OneNameEach /\ LossInv /\ CacheInv /\ PendingInv /\ [Next]_vars => CacheInv' /\ PendingInv'
<1> SUFFICES ASSUME OneNameEach, LossInv, CacheInv, PendingInv, [Next]_vars
             PROVE  CacheInv' /\ PendingInv'
  OBVIOUS
<1>1. Inv /\ TypeRest /\ CrdInv
  BY DEF LossInv, Inv
<1>2. ASSUME NEW o \in Objects, NEW s \in Specs(o) \cup {None}, Change(o, s)
      PROVE  CacheInv' /\ PendingInv'
  BY <1>1, <1>2, ReportCache DEF Change
<1>3. ASSUME NEW o \in Objects, List(o)
      PROVE  CacheInv' /\ PendingInv'
  <2>1. crd[o] # None => crd[o] \in Specs(o)
    <3>1. crd[o] # None => crd[o] \in [name : Names, image : Images] /\ crd[o].name \in NamesOf[o]
      BY <1>1 DEF TypeRest, CrdInv
    <3>2. QED
      BY <3>1 DEF Specs
  <2>2. QED
    BY <1>1, <1>3, <2>1, ReportCache DEF List
<1>4. ASSUME NEW w \in Workers, WorkerStep(w)
      PROVE  UNCHANGED <<crd, unlisted, handler, cache>>
  <2>1. ASSUME NEW failed, Finish(w, failed)
        PROVE  UNCHANGED <<crd, unlisted, handler, cache>>
    BY <2>1 DEF Finish, Rest
  <2>2. CASE Begin(w)
    BY <2>1, <2>2 DEF Begin, Rest
  <2>3. CASE ListDeployments(w) \/ ListStatefulSets(w)
    BY <2>1, <2>3 DEF ListDeployments, ListStatefulSets, Listed, Rest
  <2>4. CASE EndReconcile(w)
    BY <2>1, <2>4 DEF EndReconcile
  <2>5. CASE Take(w) \/ Stop(w) \/ \E x \in Workloads : UpdateWorkload(w, x)
    BY <2>5 DEF Take, Stop, UpdateWorkload, Rest
  <2>6. QED
    BY <1>4, <2>2, <2>3, <2>4, <2>5 DEF WorkerStep
<1>5. CASE Restart
  <2>1. /\ unlisted' = {o \in Objects : crd[o] # None} /\ DOMAIN cache' = {} /\ UNCHANGED crd
        /\ handler' = NoCall
    BY <1>5 DEF Restart
  <2>2. QED
    BY <2>1 DEF CacheInv, PendingInv, Reported, NoCall
<1>6. ASSUME \/ \E k \in Keys : BackoffElapses(k)
             \/ Cancel \/ Run \/ UNCHANGED vars
             \/ \E x \in Workloads, t \in Templates \cup {None} : Edit(x, t)
      PROVE  UNCHANGED <<crd, unlisted, handler, cache>>
  BY <1>6 DEF BackoffElapses, Cancel, Run, Edit, vars, Rest
<1>7. UNCHANGED <<crd, unlisted, handler, cache>> => CacheInv' /\ PendingInv'
  BY DEF CacheInv, PendingInv, Reported, Seen
<1>8. CASE Callback
  BY <1>1, <1>8, CallbackCache
<1>9. QED
  BY <1>2, <1>3, <1>4, <1>5, <1>6, <1>7, <1>8 DEF Next, Step

(* The handlers keep the shared cache equal to what the informer reported  *)
(* (crd_handlers.go), with Containers of names of their own: an addition   *)
(* keeps an entry that exists and an update replaces no missing one, which *)
(* is harmless then.  The object whose callback has not reached the cache  *)
(* is excepted.  Restarts empty the cache until the informer lists.        *)
THEOREM CacheIsReported ==
    ASSUME OneNameEach
    PROVE  Spec => []CacheFollowsCRD
<1>1. OneNamespacePerName
  BY DEF OneNameEach, OneNamespacePerName
<1>2. Init => CacheInv /\ PendingInv
  BY DEF Init, CacheInv, PendingInv, Reported, NoCall
<1>3. LossInv /\ [Next]_vars => LossInv'
  BY <1>1, NextLoss
<1>4. LossInv /\ CacheInv /\ PendingInv /\ [Next]_vars => CacheInv' /\ PendingInv'
  BY NextCache
<1>5. LossInv /\ CacheInv => CacheFollowsCRD
  <2> SUFFICES ASSUME LossInv, CacheInv PROVE CacheFollowsCRD
    OBVIOUS
  <2> DEFINE Entry(n) == [name |-> n, image |-> cache[n]]
             cached   == {Entry(n) : n \in DOMAIN cache}
             known    == {p \in Objects \ unlisted : crd[p] # None}
             Others(specs) == {c \in specs : handler.at = "cache" => c.name # handler.key.name}
  <2>1. TypeRest /\ DOMAIN cache \subseteq Names
    BY DEF LossInv, Inv, TypeRest
  <2>2. ASSUME NEW o \in known, Seen(crd[o].name)
        PROVE  crd[o].name \in DOMAIN cache /\ crd[o] = Entry(crd[o].name)
    <3>1. crd[o] \in [name : Names, image : Images] /\ Reported(crd[o].name, o)
      BY <2>1 DEF TypeRest, Reported
    <3>2. QED
      BY <2>2, <3>1 DEF CacheInv
  <2>3. ASSUME NEW n \in DOMAIN cache, Seen(n)
        PROVE  \E o \in known : crd[o] = Entry(n)
    <3>1. PICK o \in Objects : Reported(n, o)
      BY <2>3 DEF CacheInv
    <3>2. o \in known /\ crd[o].name = n
      BY <3>1 DEF Reported
    <3>3. QED
      BY <2>2, <2>3, <3>2
  <2>4. \A n : Entry(n).name = n
    OBVIOUS
  <2>5. \A n : Seen(n) <=> (handler.at = "cache" => n # handler.key.name)
    BY DEF Seen
  <2>6. CacheFollowsCRD <=> Others(cached) = Others({crd[o] : o \in known})
    BY DEF CacheFollowsCRD
  <2> HIDE DEF Entry, known
  <2>7. Others(cached) \subseteq Others({crd[o] : o \in known})
    BY <2>3, <2>4, <2>5
  <2>8. Others({crd[o] : o \in known}) \subseteq Others(cached)
    BY <2>2, <2>4, <2>5
  <2>9. QED
    BY <2>6, <2>7, <2>8
<1>6. QED
  BY <1>2, <1>3, <1>4, <1>5, InitLoss, PTL DEF Spec

-----------------------------------------------------------------------------
(* The worker at rest, and that it comes to rest *)

(* An idle worker remembers nothing of its last reconciliation. *)
IdleInv == \A w \in Workers : worker[w].at = "idle" => worker[w] = Idle

LEMMA EnterIdle ==
    ASSUME Inv, IdleInv, NEW w \in Workers, NEW state, Enter(w, state),
           state = Idle \/ state.at # "idle"
    PROVE  IdleInv'
<1>1. worker \in [Workers -> Reconciliation]
  BY DEF Inv, TypeRest
<1>2. worker'[w] = state /\ \A v \in Workers \ {w} : worker'[v] = worker[v]
  BY <1>1 DEF Enter
<1>3. QED
  BY <1>2 DEF IdleInv

LEMMA SameFields ==
    ASSUME NEW r \in Reconciliation
    PROVE  r = [at |-> r.at, key |-> r.key, image |-> r.image, todo |-> r.todo,
                fresh |-> r.fresh, failed |-> r.failed]
BY DEF Reconciliation

LEMMA WrittenIdle ==
    ASSUME NEW ws \in [Workers -> Reconciliation], NEW x, NEW t, Written(ws, x, t),
           \A v \in Workers : ws[v].at = "idle" => ws[v] = Idle
    PROVE  IdleInv'
<1>1. CASE worker' = ws
  BY <1>1 DEF IdleInv
<1>2. CASE worker' = [v \in Workers |-> [ws[v] EXCEPT !.fresh = @ \ {x}]]
  <2>1. ASSUME NEW v \in Workers, worker'[v].at = "idle"
        PROVE  worker'[v] = Idle
    <3>1. worker'[v] = [ws[v] EXCEPT !.fresh = @ \ {x}] /\ ws[v] \in Reconciliation
      BY <1>2
    <3>2. ws[v].at = "idle"
      BY <2>1, <3>1 DEF Reconciliation
    <3>3. ws[v] = Idle
      BY <3>2
    <3>4. ws[v].fresh = {} /\ ws[v].fresh \ {x} = {}
      BY <3>3 DEF Idle, At
    <3>5. /\ worker'[v] \in Reconciliation /\ worker'[v].fresh = {}
          /\ worker'[v].at = ws[v].at /\ worker'[v].key = ws[v].key
          /\ worker'[v].image = ws[v].image /\ worker'[v].todo = ws[v].todo
          /\ worker'[v].failed = ws[v].failed
      BY <3>1, <3>4 DEF Reconciliation
    <3>6. worker'[v] = ws[v]
      BY <3>1, <3>4, <3>5, SameFields
    <3>7. QED
      BY <3>3, <3>6
  <2>2. QED
    BY <2>1 DEF IdleInv
<1>3. QED
  BY <1>1, <1>2 DEF Written

LEMMA FinishIdle ==
    ASSUME Inv, IdleInv, NEW w \in Workers, NEW failed, Finish(w, failed)
    PROVE  IdleInv'
<1>1. Enter(w, Idle)
  BY DEF Finish
<1>2. QED
  BY <1>1, EnterIdle

LEMMA ListedIdle ==
    ASSUME Inv, IdleInv, NEW w \in Workers, NEW kind,
           NEW step \in {"deployments", "statefulsets"}, Listed(w, kind, step)
    PROVE  IdleInv'
<1>1. CASE Finish(w, TRUE)
  BY <1>1, FinishIdle
<1>2. ASSUME NEW found, Enter(w, [worker[w] EXCEPT !.at = step, !.todo = found, !.fresh = found])
      PROVE  IdleInv'
  <2> DEFINE r == [worker[w] EXCEPT !.at = step, !.todo = found, !.fresh = found]
  <2>1. worker[w] \in Reconciliation
    BY DEF Inv, TypeRest
  <2>2. r.at # "idle"
    BY <2>1 DEF Reconciliation
  <2> HIDE DEF r
  <2>3. Enter(w, r)
    BY <1>2 DEF r
  <2>4. QED
    BY <2>2, <2>3, EnterIdle
<1>3. QED
  BY <1>1, <1>2 DEF Listed

LEMMA UpdateIdle ==
    ASSUME Inv, IdleInv, NEW w \in Workers, NEW x \in Workloads, UpdateWorkload(w, x)
    PROVE  IdleInv'
<1> DEFINE ok  == [worker EXCEPT ![w].todo = @ \ {x}]
           err == [ok EXCEPT ![w].failed = TRUE]
<1>1. worker \in [Workers -> Reconciliation] /\ worker[w].at # "idle"
  BY DEF Inv, TypeRest, BusyInv, Busy, UpdateWorkload
<1>2. ok \in [Workers -> Reconciliation] /\ ok[w].at = worker[w].at
      /\ \A v \in Workers \ {w} : ok[v] = worker[v]
  BY <1>1 DEF Reconciliation
<1> HIDE DEF ok
<1>3. err \in [Workers -> Reconciliation] /\ err[w].at = worker[w].at
      /\ \A v \in Workers \ {w} : err[v] = worker[v]
  BY <1>2 DEF Reconciliation
<1> HIDE DEF err
<1>4. ASSUME NEW ws \in {ok, err}
      PROVE  ws \in [Workers -> Reconciliation]
             /\ \A v \in Workers : ws[v].at = "idle" => ws[v] = Idle
  BY <1>1, <1>2, <1>3 DEF IdleInv
<1>5. \/ Written(ok, x, Reconciled(w, workloads[x]))
      \/ Written(err, x, Reconciled(w, workloads[x]))
      \/ worker' = err
  BY DEF UpdateWorkload, ok, err
<1>6. CASE worker' = err
  BY <1>4, <1>6 DEF IdleInv
<1>7. QED
  BY <1>4, <1>5, <1>6, WrittenIdle

LEMMA NextIdle == Inv /\ IdleInv /\ [Next]_vars => IdleInv'
<1> SUFFICES ASSUME Inv, IdleInv, [Next]_vars
             PROVE  IdleInv'
  OBVIOUS
<1>1. ASSUME NEW w \in Workers, WorkerStep(w)
      PROVE  IdleInv'
  <2>1. \A k, i : \A step \in {"start", "listing"} : At(step, k, i).at # "idle"
    BY DEF At
  <2>2. CASE Take(w)
    BY <2>1, <2>2, EnterIdle DEF Take
  <2>3. CASE Stop(w)
    <3>1. Enter(w, Stopped) /\ Stopped.at # "idle"
      BY <2>3 DEF Stop, Stopped, At
    <3>2. QED
      BY <3>1, EnterIdle
  <2>4. CASE Begin(w)
    <3>1. CASE Finish(w, FALSE)
      BY <3>1, FinishIdle
    <3>2. CASE \E k, i : Enter(w, At("listing", k, i))
      BY <2>1, <3>2, EnterIdle
    <3>3. QED
      BY <2>4, <3>1, <3>2 DEF Begin
  <2>5. CASE ListDeployments(w) \/ ListStatefulSets(w)
    BY <2>5, ListedIdle DEF ListDeployments, ListStatefulSets
  <2>6. CASE \E x \in Workloads : UpdateWorkload(w, x)
    BY <2>6, UpdateIdle
  <2>7. CASE EndReconcile(w)
    BY <2>7, FinishIdle DEF EndReconcile
  <2>8. QED
    BY <1>1, <2>2, <2>3, <2>4, <2>5, <2>6, <2>7 DEF WorkerStep
<1>2. ASSUME NEW x \in Workloads, NEW t \in Templates \cup {None}, Edit(x, t)
      PROVE  IdleInv'
  <2>1. worker \in [Workers -> Reconciliation] /\ Written(worker, x, t)
    BY <1>2 DEF Inv, TypeRest, Edit
  <2>2. QED
    BY <2>1, WrittenIdle DEF IdleInv
<1>3. CASE Restart
  BY <1>3 DEF Restart, IdleInv
<1>4. CASE UNCHANGED worker
  BY <1>4 DEF IdleInv
<1>5. QED
  BY <1>1, <1>2, <1>3, <1>4 DEF Next, Step, vars, Change, List, Report, Callback, BackoffElapses, Cancel, Run

(* A worker's step is possible, which is when its ENABLED holds: between   *)
(* Take and Finish always, for a request is answered or times out.         *)
WorkerMayStep(w) ==
    Busy(w) \/ (worker[w] = Idle /\ (queue.items # <<>> \/ queue.down))

Unsettled == \E d \in owed : ~Settled(d[1], d[2])

(* What is not settled yet is not stranded. *)
NoChangeIsStranded ==
    ~queue.down /\ Unsettled =>
        queue.waiting # {} \/ handler # NoCall \/ \E w \in Workers : WorkerMayStep(w)

LEMMA LossInvariant ==
    ASSUME OneNamespacePerName
    PROVE  Spec => []LossInv
<1>1. LossInv /\ [Next]_vars => LossInv'
  BY NextLoss
<1>2. QED
  BY <1>1, InitLoss, PTL DEF Spec

(* A change that a workload does not show yet waits for nobody: its        *)
(* backoff runs, the informer's goroutine is in a callback, or a worker    *)
(* can go on (runWorker).  ChangesSettle, under fairness, rests on it.     *)
THEOREM NothingIsStranded ==
    ASSUME OneNamespacePerName, Workers # {}
    PROVE  Spec => []NoChangeIsStranded
<1>1. Init => IdleInv
  BY DEF Init, IdleInv
<1>2. LossInv /\ IdleInv /\ [Next]_vars => IdleInv'
  BY NextIdle DEF LossInv
<1>3. LossInv /\ IdleInv => NoChangeIsStranded
  <2> SUFFICES ASSUME LossInv, IdleInv, ~queue.down, NEW d \in owed, ~Settled(d[1], d[2]),
                      queue.waiting = {}, handler = NoCall
               PROVE  \E w \in Workers : WorkerMayStep(w)
    BY DEF NoChangeIsStranded, Unsettled
  <2>1. /\ TypeRest /\ Sound(queue) /\ BusyInv /\ StopInv
        /\ d[1] \in Keys /\ d[2] \in Workloads /\ d = <<d[1], d[2]>>
    BY DEF LossInv, Inv, TypeRest
  <2>2. d[1] \in queue.dirty \/ \E w \in Workers : UnderWay(w, d[1], d[2])
    BY <2>1 DEF LossInv, HeldInv, Held, ToCome, NoCall
  <2>3. ASSUME NEW w \in Workers, UnderWay(w, d[1], d[2])
        PROVE  WorkerMayStep(w)
    <3>1. worker[w].at # "stopped"
      BY <2>1 DEF StopInv
    <3>2. CASE worker[w].at = "idle"
      <4>1. worker[w].failed = FALSE
        BY <3>2 DEF IdleInv, Idle, At
      <4>2. QED
        BY <2>3, <3>2, <4>1 DEF UnderWay
    <3>3. QED
      BY <3>1, <3>2 DEF Busy, WorkerMayStep
  <2>4. CASE d[1] \in queue.dirty /\ d[1] \in queue.processing
    BY <2>1, <2>4 DEF BusyInv, WorkerMayStep
  <2>5. CASE d[1] \in queue.dirty /\ d[1] \notin queue.processing
    <3>1. queue.items # <<>>
      BY <2>1, <2>5 DEF Sound, IsQueue
    <3>2. PICK w \in Workers : TRUE
      OBVIOUS
    <3>3. worker[w].at # "stopped"
      BY <2>1 DEF StopInv
    <3>4. QED
      BY <3>1, <3>2, <3>3 DEF Busy, IdleInv, WorkerMayStep
  <2>6. QED
    BY <2>2, <2>3, <2>4, <2>5
<1>4. QED
  BY <1>1, <1>2, <1>3, LossInvariant, PTL DEF Spec

Quiet ==
    /\ queue.items = <<>> /\ queue.waiting = {} /\ handler = NoCall
    /\ \A w \in Workers : ~Busy(w)

(* A template that has a container some change was owed to shows what its  *)
(* Container resource specifies; and none that was deleted.                *)
AtRestAsSpecified ==
    ~queue.down /\ Quiet =>
        \A d \in owed :
            workloads[d[2]] # None /\ workloads[d[2]][d[1].name] # None =>
                \E o \in Objects : crd[o] = [name  |-> d[1].name,
                                           image |-> workloads[d[2]][d[1].name]]

(* From the resource to the template: when the queue is empty, no backoff  *)
(* runs and no worker and no callback is busy, the workloads show what the *)
(* Container resources say, by whatever conflicts, retries and events it   *)
(* came about (crd_handlers.go, crd_worker.go; one name for each           *)
(* Container).                                                             *)
THEOREM RestsAsSpecified ==
    ASSUME OneNameEach
    PROVE  Spec => []AtRestAsSpecified
<1>1. OneNamespacePerName
  BY DEF OneNameEach, OneNamespacePerName
<1>2. LossInv /\ IdleInv /\ CacheFollowsCRD => AtRestAsSpecified
  <2> SUFFICES ASSUME LossInv, IdleInv, CacheFollowsCRD, ~queue.down, Quiet, NEW d \in owed,
                      workloads[d[2]] # None, workloads[d[2]][d[1].name] # None
               PROVE  \E o \in Objects : crd[o] = [name  |-> d[1].name,
                                                 image |-> workloads[d[2]][d[1].name]]
    BY DEF AtRestAsSpecified
  <2>1. /\ TypeRest /\ Sound(queue) /\ BusyInv /\ StopInv
        /\ d[1] \in Keys /\ d[2] \in Workloads /\ d = <<d[1], d[2]>>
    BY DEF LossInv, Inv, TypeRest
  <2>2. \A w \in Workers : worker[w].at = "idle" /\ worker[w].failed = FALSE
    BY <2>1 DEF Quiet, Busy, StopInv, IdleInv, Idle, At
  <2>3. \A w \in Workers : ~UnderWay(w, d[1], d[2])
    BY <2>2 DEF UnderWay
  <2>4. queue.processing = {} /\ queue.dirty = {}
    <3>1. queue.processing = {}
      BY <2>1, <2>2 DEF BusyInv, Busy
    <3>2. Len(queue.items) = 0
      BY DEF Quiet
    <3>3. QED
      BY <2>1, <3>1, <3>2 DEF Sound, IsQueue
  <2>5. Settled(d[1], d[2])
    BY <2>1, <2>3, <2>4 DEF LossInv, HeldInv, Held, ToCome, Quiet, NoCall
  <2>6. d[1].name \in DOMAIN cache /\ cache[d[1].name] = workloads[d[2]][d[1].name]
    BY <2>5 DEF Settled
  <2>7. [name |-> d[1].name, image |-> cache[d[1].name]]
            \in {crd[o] : o \in {p \in Objects \ unlisted : crd[p] # None}}
    BY <2>6 DEF CacheFollowsCRD, Quiet, NoCall
  <2>8. QED
    BY <2>6, <2>7
<1>3. Init => IdleInv
  BY DEF Init, IdleInv
<1>4. LossInv /\ IdleInv /\ [Next]_vars => IdleInv'
  BY NextIdle DEF LossInv
<1>5. QED
  BY <1>1, <1>2, <1>3, <1>4, LossInvariant, CacheIsReported, PTL DEF Spec
=============================================================================
