------------------------------- MODULE Breaker -------------------------------
(***************************************************************************)
(* internal/cli/breaker: the circuit breaker the sidecar consults before   *)
(* it calls an endpoint.  Breaker keeps one subBreaker per endpoint key,   *)
(* made at the first use of the key.  A caller (a loadBalance of           *)
(* internal/cli/proxy/http_transport.go) asks Allowed, calls the endpoint  *)
(* when it may, and records the result when the answer or the request      *)
(* timeout arrives, by which time the subBreaker may be in another state.  *)
(*                                                                         *)
(* Allowed and record hold Breaker.mtx from their first line to their      *)
(* last, so each is one action; time.Now() is read under that lock.  Time  *)
(* is counted in seconds and passes between actions.                       *)
(***************************************************************************)
EXTENDS Naturals, FiniteSets, Sequences

CONSTANTS
    Keys,                 (* endpoint keys                                  *)
    Callers,              (* goroutines that send requests                  *)
    WindowCapacity,       (* --window-size: buckets of the ring, and also   *)
                          (* the length of a bucket in seconds              *)
    HalfOpenAllowed,      (* --half-open-allowed                            *)
    MinRequestCount,      (* --min-request-count                            *)
    ThresholdNum,         (* --failure-rate-threshold, as the fraction      *)
    ThresholdDen,         (* ThresholdNum / ThresholdDen                    *)
    HalfOpenMaxDuration,  (* --half-open-max-duration                       *)
    OpenDuration,         (* --open-duration                                *)
    RequestTimeout,       (* seconds until sendRequest gives up             *)
    MaxTime, MaxCalls     (* bounds: seconds modelled, calls admitted       *)

(* A zero window-size divides by zero in advance, a zero half-open-allowed *)
(* closes on any result; neither is rejected by the flags, both are left   *)
(* outside the model.                                                      *)
ASSUME SettingsAssumption ==
    /\ WindowCapacity \in Nat \ {0}
    /\ HalfOpenAllowed \in Nat \ {0}
    /\ MinRequestCount \in Nat
    /\ ThresholdNum \in Nat
    /\ ThresholdDen \in Nat \ {0}
    /\ HalfOpenMaxDuration \in Nat
    /\ OpenDuration \in Nat
    /\ RequestTimeout \in Nat
    /\ MaxTime \in Nat
    /\ MaxCalls \in Nat

VARIABLES
    now,         (* seconds since the breaker was made                      *)
    breakers,    (* Breaker.breakers: key -> subBreaker                     *)
    calls,       (* caller -> the admitted call it has not yet recorded     *)
    issued,      (* how many calls were admitted (for the bound)            *)
    hist         (* key -> what an observer noted; the code never reads it  *)

vars == <<now, breakers, calls, issued, hist>>

Closed   == "closed"
Open     == "open"
HalfOpen == "half-open"

Success         == "success"
BusinessFailure == "business failure"
NetworkFailure  == "network failure"
Timeout         == "timeout"

Metrics == {Success, BusinessFailure, NetworkFailure, Timeout}
Infra   == {NetworkFailure, Timeout}

Interval == WindowCapacity

-----------------------------------------------------------------------------
(* counter.go.  A bucket counts results; "last", the time of the newest    *)
(* of them, is kept for the properties only.                               *)

One(p) == IF p THEN 1 ELSE 0

EmptyUnit == [total |-> 0, failed |-> 0, last |-> 0]

Counted(u, result) ==
    [total  |-> u.total + 1,
     failed |-> u.failed + One(result \in Infra),
     last   |-> now]

(* Mutated form of Enqueue: a full ring grows. *)
EnqueueGrows(units, u) == Append(units, u)

(* CircularQueue.Enqueue: a full ring refuses, and nobody looks at the     *)
(* answer.                                                                 *)
Enqueue(units, u) == IF Len(units) < WindowCapacity THEN Append(units, u) ELSE units

PushEmpty(units, n) ==
    LET room == WindowCapacity - Len(units)
    IN  units \o [i \in 1 .. (IF n < room THEN n ELSE room) |-> EmptyUnit]

(* Summary: a loop over the queued buckets, and the current one. *)
SumOf(counts) ==
    LET sum[n \in 0 .. Len(counts)] == IF n = 0 THEN 0 ELSE sum[n - 1] + counts[n]
    IN  sum[Len(counts)]

Total(s)  == SumOf([i \in 1 .. Len(s.units) |-> s.units[i].total]) + s.current.total
Failed(s) == SumOf([i \in 1 .. Len(s.units) |-> s.units[i].failed]) + s.current.failed

-----------------------------------------------------------------------------
(* subbreaker.go *)

newSubBreaker ==
    [state |-> Closed, openUntil |-> 0, halfOpenSince |-> 0,
     probeUsed |-> 0, probeSuccess |-> 0, lastTick |-> now,
     units |-> <<>>, current |-> EmptyUnit]

Sub(k) == IF k \in DOMAIN breakers THEN breakers[k] ELSE newSubBreaker

(* Whole intervals since lastTick become empty buckets; the bucket that    *)
(* was being filled is queued after them, and lastTick moves to now.       *)
advance(s) ==
    LET elapsed == (now - s.lastTick) \div Interval
    IN  IF elapsed = 0 THEN s
        ELSE [s EXCEPT !.units = Enqueue(PushEmpty(@, elapsed - 1), s.current),
                       !.current = EmptyUnit,
                       !.lastTick = now]

ShouldTrip(s) ==
    /\ Total(s) >= MinRequestCount
    /\ Failed(s) * ThresholdDen > ThresholdNum * Total(s)

(* Mutated form of Opened: the cool-down is forgotten. *)
OpenedForNow(s) == [s EXCEPT !.state = Open, !.openUntil = now]

Opened(s) == [s EXCEPT !.state = Open, !.openUntil = now + OpenDuration]

(* Mutated form of CooledDown: the quota of the last half-open period is   *)
(* not given back, so its successes still count.                           *)
CooledDownKeepsProbes(s) ==
    IF s.state = Open /\ now > s.openUntil
    THEN [s EXCEPT !.state = HalfOpen, !.halfOpenSince = now, !.probeUsed = 0]
    ELSE s

(* An expired Open becomes HalfOpen and falls through to that case. *)
CooledDown(s) ==
    IF s.state = Open /\ now > s.openUntil
    THEN [s EXCEPT !.state = HalfOpen, !.halfOpenSince = now,
                   !.probeUsed = 0, !.probeSuccess = 0]
    ELSE s

-----------------------------------------------------------------------------
(* What an observer notes of each key: when it last opened; of the probes  *)
(* of the latest half-open period, how many were admitted and how they     *)
(* ended; and the results recorded since the key was made or last closed.  *)

NoProbes  == [admitted |-> 0, good |-> 0, bad |-> 0]
NoResults == [total |-> 0, failed |-> 0]
NewHist   == [openedAt |-> {}, probes |-> NoProbes, results |-> NoResults]

Entered(st, old, new) == new.state = st /\ old.state # st

Noted(h, old, new) ==
    [openedAt |-> IF Entered(Open, old, new) THEN {now} ELSE h.openedAt,
     probes   |-> IF Entered(HalfOpen, old, new) THEN NoProbes ELSE h.probes,
     results  |-> IF Entered(Closed, old, new) THEN NoResults ELSE h.results]

(* Calls still under way when their key turns half-open are late.          *)
MarkLate(k, new) ==
    [r \in DOMAIN calls |->
        IF calls[r].key = k /\ Entered(HalfOpen, Sub(k), new)
        THEN [calls[r] EXCEPT !.role = "late"]
        ELSE calls[r]]

Store(k, new) ==
    breakers' = [x \in DOMAIN breakers \cup {k} |-> IF x = k THEN new ELSE breakers[x]]

Refuse(k, new) ==
    /\ Store(k, new)
    /\ hist' = [hist EXCEPT ![k] = Noted(@, Sub(k), new)]
    /\ calls' = MarkLate(k, new)
    /\ UNCHANGED <<now, issued>>

Admit(r, k, new) ==
    LET role == IF new.state = HalfOpen THEN "probe" ELSE "regular"
        old  == MarkLate(k, new)
    IN  /\ issued < MaxCalls
        /\ issued' = issued + 1
        /\ Store(k, new)
        /\ calls' = [x \in DOMAIN calls \cup {r} |->
                        IF x = r THEN [key |-> k, at |-> now, role |-> role] ELSE old[x]]
        /\ hist' = [hist EXCEPT ![k] =
                       LET h == Noted(@, Sub(k), new)
                       IN  IF role = "probe" THEN [h EXCEPT !.probes.admitted = @ + 1] ELSE h]
        /\ UNCHANGED now

-----------------------------------------------------------------------------

Init ==
    /\ now = 0
    /\ breakers = <<>>
    /\ calls = <<>>
    /\ issued = 0
    /\ hist = [k \in Keys |-> NewHist]

(* Time passes; a call under way ends within RequestTimeout. *)
Tick ==
    /\ now < MaxTime
    /\ \A r \in DOMAIN calls : now < calls[r].at + RequestTimeout
    /\ now' = now + 1
    /\ UNCHANGED <<breakers, calls, issued, hist>>

(* Mutated form of AllowedHalfOpen: the probe is not counted when it is    *)
(* admitted (a result would have to count it).                             *)
AllowedHalfOpenUncounted(r, k, s) ==
    /\ s.state = HalfOpen
    /\ \/ /\ now > s.halfOpenSince + HalfOpenMaxDuration
          /\ Refuse(k, Opened(s))
       \/ /\ now <= s.halfOpenSince + HalfOpenMaxDuration
          /\ s.probeUsed >= HalfOpenAllowed
          /\ Refuse(k, s)
       \/ /\ now <= s.halfOpenSince + HalfOpenMaxDuration
          /\ s.probeUsed < HalfOpenAllowed
          /\ Admit(r, k, s)

AllowedHalfOpen(r, k, s) ==
    /\ s.state = HalfOpen
    /\ \/ /\ now > s.halfOpenSince + HalfOpenMaxDuration
          /\ Refuse(k, Opened(s))
       \/ /\ now <= s.halfOpenSince + HalfOpenMaxDuration
          /\ s.probeUsed >= HalfOpenAllowed
          /\ Refuse(k, s)
       \/ /\ now <= s.halfOpenSince + HalfOpenMaxDuration
          /\ s.probeUsed < HalfOpenAllowed
          /\ Admit(r, k, [s EXCEPT !.probeUsed = @ + 1])

AllowedClosed(r, k, s) ==
    /\ s.state = Closed
    /\ \/ ~ShouldTrip(s) /\ Admit(r, k, s)
       \/ ShouldTrip(s) /\ Refuse(k, Opened(s))

AllowedOpen(k, s) == s.state = Open /\ Refuse(k, s)

(* Breaker.Allowed, asked by a caller that has no call under way. *)
Allowed(r, k) ==
    /\ r \notin DOMAIN calls
    /\ LET s == CooledDown(advance(Sub(k)))
       IN  \/ AllowedClosed(r, k, s)
           \/ AllowedOpen(k, s)
           \/ AllowedHalfOpen(r, k, s)

(* The state switch of subBreaker.record.  The success quota is looked at  *)
(* after either result.                                                    *)
Judged(s, result) ==
    IF result \in Infra THEN Opened(s)
    ELSE IF result = Success THEN [s EXCEPT !.probeSuccess = @ + 1]
    ELSE s

(* Mutated form of Settled: the window survives the recovery. *)
SettledKeepsWindow(s) ==
    IF s.probeSuccess >= HalfOpenAllowed THEN [s EXCEPT !.state = Closed] ELSE s

Settled(s) ==
    IF s.probeSuccess >= HalfOpenAllowed
    THEN [s EXCEPT !.state = Closed, !.units = <<>>, !.current = EmptyUnit]
    ELSE s

(* subBreaker.record. *)
recorded(s, result) ==
    LET counted == [advance(s) EXCEPT !.current = Counted(@, result)]
    IN  IF counted.state = HalfOpen THEN Settled(Judged(counted, result)) ELSE counted

WithResult(h, role, result) ==
    [openedAt |-> h.openedAt,
     probes   |-> [admitted |-> h.probes.admitted,
                   good     |-> h.probes.good + One(role = "probe" /\ result = Success),
                   bad      |-> h.probes.bad + One(role = "probe" /\ result \in Infra)],
     results  |-> [total  |-> h.results.total + 1,
                   failed |-> h.results.failed + One(result \in Infra)]]

(* Breaker.record, called by a caller that learned how its call ended. *)
Record(r, result) ==
    /\ r \in DOMAIN calls
    /\ LET k   == calls[r].key
           new == recorded(Sub(k), result)
       IN  /\ Store(k, new)
           /\ hist' = [hist EXCEPT ![k] =
                         Noted(WithResult(@, calls[r].role, result), Sub(k), new)]
    /\ calls' = [x \in DOMAIN calls \ {r} |-> calls[x]]
    /\ UNCHANGED <<now, issued>>

Next ==
    \/ Tick
    \/ \E r \in Callers, k \in Keys : Allowed(r, k)
    \/ \E r \in Callers, result \in Metrics : Record(r, result)

Spec == Init /\ [][Next]_vars

-----------------------------------------------------------------------------
(* Properties *)

Unit == [total : Nat, failed : Nat, last : Nat]

SubBreaker ==
    [state : {Closed, Open, HalfOpen}, openUntil : Nat, halfOpenSince : Nat,
     probeUsed : 0 .. HalfOpenAllowed, probeSuccess : 0 .. HalfOpenAllowed,
     lastTick : Nat, units : Seq(Unit), current : Unit]

Call == [key : Keys, at : Nat, role : {"regular", "probe", "late"}]

History ==
    [openedAt : SUBSET Nat,
     probes   : [admitted : Nat, good : Nat, bad : Nat],
     results  : [total : Nat, failed : Nat]]

(* Every field has its type; the probe counters stay within the quota and  *)
(* the ring within its capacity.                                           *)
TypeOK ==
    /\ now \in Nat
    /\ issued \in Nat
    /\ DOMAIN breakers \subseteq Keys
    /\ breakers \in [DOMAIN breakers -> SubBreaker]
    /\ \A k \in DOMAIN breakers : Len(breakers[k].units) <= WindowCapacity
    /\ DOMAIN calls \subseteq Callers
    /\ calls \in [DOMAIN calls -> Call]
    /\ hist \in [Keys -> History]

(* The callers admitted by a step. *)
NewlyAdmitted == DOMAIN calls' \ DOMAIN calls

(* An endpoint that tripped is left alone: for OpenDuration after any      *)
(* opening, whatever results come in late, no call to it is admitted.      *)
ShedWhileOpen ==
    [][\A r \in NewlyAdmitted : \A t \in hist[calls'[r].key].openedAt :
          now > t + OpenDuration]_vars

(* A half-open period puts at most HalfOpenAllowed calls at risk, however  *)
(* many callers ask, however the probes end and however late.              *)
ProbeQuota == \A k \in Keys : hist[k].probes.admitted <= HalfOpenAllowed

(* A breaker leaves Closed only on what was recorded since it was made or  *)
(* last recovered: never on results that led to an earlier trip.           *)
TripsOnNewEvidence ==
    [][\A k \in DOMAIN breakers :
          breakers[k].state = Closed /\ breakers'[k].state = Open =>
             /\ hist[k].results.total >= MinRequestCount
             /\ hist[k].results.failed * ThresholdDen > ThresholdNum * MinRequestCount]_vars

(* Where a request cannot outlive an open period, no call admitted before  *)
(* the trip is still under way in half-open: every result recorded there   *)
(* is a probe's.                                                           *)
OnlyProbesUnderWay ==
    \A k \in DOMAIN breakers : breakers[k].state = HalfOpen =>
        \A r \in DOMAIN calls : calls[r].key = k => calls[r].role = "probe"

(* HalfOpen to Closed: the probes reached their number and all of them     *)
(* succeeded (docs/circuit-breaker-design.md 3.2), the result that closes  *)
(* the breaker included.                                                   *)
ClosedByProbes ==
    [][\A k \in DOMAIN breakers :
          breakers[k].state = HalfOpen /\ breakers'[k].state = Closed =>
             /\ hist'[k].probes.good = HalfOpenAllowed
             /\ hist'[k].probes.bad = 0]_vars

(* Statistics always stand for the latest windowDuration, a ring of        *)
(* buckets times the length of a bucket (comment at subbreaker.go:65), so  *)
(* no trip rests on a result older than that and the bucket being filled.  *)
TripsOnRecentResults ==
    [][\A k \in DOMAIN breakers :
          breakers[k].state = Closed /\ breakers'[k].state = Open =>
             \A i \in DOMAIN breakers'[k].units :
                LET u == breakers'[k].units[i]
                IN  u.total > 0 => now <= u.last + (WindowCapacity + 1) * Interval]_vars
=============================================================================
