--------------------------- MODULE Breaker_proofs ---------------------------
(***************************************************************************)
(* For every setting of the breaker, every set of keys and callers and     *)
(* every bound: types, the probe quota, load shedding, trips on new        *)
(* evidence only and, where a request cannot outlive an open period, that  *)
(* only probes decide a half-open period.                                  *)
(*                                                                         *)
(* The argument is the same for each: AllowedCases and RecordCases say     *)
(* what the two operations can do to the subBreaker of a key, as a list of *)
(* cases free of the window's arithmetic; every invariant is then          *)
(* preserved by each case.  What the window counts is a sum over its       *)
(* buckets; the lemmas on SumOf are proved by induction on the length.     *)
(***************************************************************************)
EXTENDS Breaker, SequenceTheorems, WellFoundedInduction, TLAPS

(* The window of a subBreaker is well formed. *)
Sound(s) == /\ s \in SubBreaker
            /\ Len(s.units) <= WindowCapacity
            /\ s.lastTick <= now
            /\ s.state = HalfOpen => s.probeSuccess < HalfOpenAllowed

(* What TypeOK lacks to be inductive: the clock of a subBreaker never runs *)
(* ahead, and a half-open one has not reached its success quota, so one    *)
(* more success stays within it.                                           *)
TypeInv == TypeOK /\ \A k \in DOMAIN breakers : Sound(breakers[k])

(* The fields the window's movement leaves alone. *)
SameControl(s, t) ==
    /\ s.state = t.state
    /\ s.openUntil = t.openUntil
    /\ s.halfOpenSince = t.halfOpenSince
    /\ s.probeUsed = t.probeUsed
    /\ s.probeSuccess = t.probeSuccess

-----------------------------------------------------------------------------
(* The window *)

LEMMA DivNat ==
    ASSUME NEW a \in Nat, NEW b \in Nat \ {0}
    PROVE  a \div b \in Nat
<1>1. a \div b \in Int
  OBVIOUS
<1>2. a % b \in 0 .. b - 1 /\ a = b * (a \div b) + (a % b)
  OBVIOUS
<1>3. QED
  BY <1>1, <1>2, Z3

LEMMA EmptyUnitType == EmptyUnit \in Unit
BY DEF EmptyUnit, Unit

LEMMA EnqueueType ==
    ASSUME NEW units \in Seq(Unit), Len(units) <= WindowCapacity, NEW u \in Unit
    PROVE  Enqueue(units, u) \in Seq(Unit) /\ Len(Enqueue(units, u)) <= WindowCapacity
BY SettingsAssumption DEF Enqueue

LEMMA PushEmptyType ==
    ASSUME NEW units \in Seq(Unit), Len(units) <= WindowCapacity, NEW n \in Nat
    PROVE  PushEmpty(units, n) \in Seq(Unit) /\ Len(PushEmpty(units, n)) <= WindowCapacity
<1> DEFINE room == WindowCapacity - Len(units)
           m    == IF n < room THEN n ELSE room
           pad  == [i \in 1 .. m |-> EmptyUnit]
<1>1. m \in Nat /\ m <= room
  BY SettingsAssumption, LenProperties
<1>2. pad \in Seq(Unit) /\ Len(pad) = m
  <2>1. pad \in [1 .. m -> Unit]
    BY EmptyUnitType
  <2> HIDE DEF m
  <2>2. QED
    BY <1>1, <2>1
<1>3. PushEmpty(units, n) = units \o pad
  BY DEF PushEmpty
<1>4. units \o pad \in Seq(Unit) /\ Len(units \o pad) = Len(units) + m
  <2> HIDE DEF pad, m
  <2>1. QED
    BY <1>1, <1>2, ConcatProperties
<1>5. QED
  <2> HIDE DEF pad, m
  <2>1. QED
    BY <1>1, <1>3, <1>4, SettingsAssumption, LenProperties

LEMMA AdvanceSound ==
    ASSUME now \in Nat, NEW s, Sound(s)
    PROVE  Sound(advance(s)) /\ SameControl(advance(s), s)
<1> DEFINE elapsed == (now - s.lastTick) \div Interval
<1>1. elapsed \in Nat
  BY DivNat, SettingsAssumption DEF Interval, Sound, SubBreaker
<1>2. CASE elapsed = 0
  BY <1>2 DEF advance, SameControl
<1>3. CASE elapsed # 0
  <2> DEFINE pushed == PushEmpty(s.units, elapsed - 1)
  <2>1. pushed \in Seq(Unit) /\ Len(pushed) <= WindowCapacity
    <3> HIDE DEF elapsed
    <3>1. elapsed - 1 \in Nat
      BY <1>1, <1>3
    <3>2. QED
      BY <3>1, PushEmptyType DEF Sound, SubBreaker
  <2>2. /\ Enqueue(pushed, s.current) \in Seq(Unit)
        /\ Len(Enqueue(pushed, s.current)) <= WindowCapacity
    <3> HIDE DEF pushed
    <3>1. QED
      BY <2>1, EnqueueType DEF Sound, SubBreaker
  <2>3. advance(s) = [s EXCEPT !.units = Enqueue(pushed, s.current),
                               !.current = EmptyUnit, !.lastTick = now]
    BY <1>3 DEF advance
  <2>4. QED
    <3> HIDE DEF pushed, elapsed
    <3>0. s \in SubBreaker
      BY DEF Sound
    <3>1. advance(s) \in SubBreaker
      BY <3>0, <2>2, <2>3, EmptyUnitType DEF SubBreaker
    <3>2. SameControl(advance(s), s)
      BY <3>0, <2>3 DEF SubBreaker, SameControl
    <3>3. /\ advance(s).units = Enqueue(pushed, s.current)
          /\ advance(s).lastTick = now
      BY <3>0, <2>3 DEF SubBreaker
    <3>4. QED
      BY <3>1, <3>2, <3>3, <2>2 DEF Sound, SameControl
<1>4. QED
  BY <1>2, <1>3

-----------------------------------------------------------------------------
(* The cases of the two operations *)

(* What a refused and an admitted Allowed do to the subBreaker.            *)
RefusedTo(old, new) ==
    \/ /\ old.state \in {Closed, HalfOpen}
       /\ new.state = Open
       /\ new.openUntil = now + OpenDuration
    \/ /\ old.state = Open
       /\ new.state = Open
       /\ new.openUntil = old.openUntil
    \/ /\ old.state = HalfOpen
       /\ new.state = HalfOpen
       /\ new.probeUsed = old.probeUsed
       /\ new.probeSuccess = old.probeSuccess

AdmittedTo(old, new) ==
    \/ /\ old.state = Closed
       /\ new.state = Closed
    \/ /\ old.state = HalfOpen
       /\ new.state = HalfOpen
       /\ new.probeUsed = old.probeUsed + 1
       /\ new.probeSuccess = old.probeSuccess
    \/ /\ old.state = Open
       /\ now > old.openUntil
       /\ new.state = HalfOpen
       /\ new.probeUsed = 1
       /\ new.probeSuccess = 0

RecordedTo(old, new, result) ==
    \/ /\ old.state # HalfOpen
       /\ new.state = old.state
       /\ new.openUntil = old.openUntil
    \/ /\ old.state = HalfOpen
       /\ result \in Infra
       /\ new.state = Open
       /\ new.openUntil = now + OpenDuration
    \/ /\ old.state = HalfOpen
       /\ result = BusinessFailure
       /\ new.state = HalfOpen
       /\ new.probeUsed = old.probeUsed
       /\ new.probeSuccess = old.probeSuccess
    \/ /\ old.state = HalfOpen
       /\ result = Success
       /\ new.state = HalfOpen
       /\ new.probeUsed = old.probeUsed
       /\ new.probeSuccess = old.probeSuccess + 1
    \/ /\ old.state = HalfOpen
       /\ result = Success
       /\ new.state = Closed
       /\ old.probeSuccess + 1 = HalfOpenAllowed

LEMMA StatesDistinct ==
    /\ Closed # Open /\ Closed # HalfOpen /\ Open # HalfOpen
    /\ BusinessFailure \notin Infra /\ Success \notin Infra
    /\ Success # BusinessFailure
    /\ Metrics = {Success, BusinessFailure} \cup Infra
BY DEF Closed, Open, HalfOpen, Success, BusinessFailure, NetworkFailure, Timeout,
       Infra, Metrics

LEMMA SubSound ==
    ASSUME TypeInv, NEW k \in Keys
    PROVE  Sound(Sub(k))
<1>1. CASE k \in DOMAIN breakers
  BY <1>1 DEF TypeInv, Sub
<1>2. CASE k \notin DOMAIN breakers
  <2>1. newSubBreaker \in SubBreaker /\ Len(newSubBreaker.units) = 0
    BY EmptyUnitType, SettingsAssumption, EmptySeq
       DEF newSubBreaker, SubBreaker, TypeInv, TypeOK
  <2>2. newSubBreaker.state # HalfOpen /\ newSubBreaker.lastTick = now
    BY StatesDistinct DEF newSubBreaker
  <2>3. Sound(newSubBreaker)
    BY <2>1, <2>2, SettingsAssumption DEF Sound, TypeInv, TypeOK
  <2>4. QED
    BY <1>2, <2>3 DEF Sub
<1>3. QED
  BY <1>1, <1>2

LEMMA OpenedSound ==
    ASSUME now \in Nat, NEW s, Sound(s)
    PROVE  /\ Sound(Opened(s))
           /\ Opened(s).state = Open
           /\ Opened(s).openUntil = now + OpenDuration
<1>0. s \in SubBreaker
  BY DEF Sound
<1>1. Opened(s) \in SubBreaker
  <2>1. now + OpenDuration \in Nat
    BY SettingsAssumption
  <2>2. QED
    BY <1>0, <2>1 DEF Opened, SubBreaker
<1>2. /\ Opened(s).state = Open
      /\ Opened(s).openUntil = now + OpenDuration
      /\ Opened(s).units = s.units
      /\ Opened(s).lastTick = s.lastTick
  BY <1>0 DEF Opened, SubBreaker
<1>3. QED
  BY <1>1, <1>2, StatesDistinct DEF Sound

(* CooledDown turns an expired Open into a fresh HalfOpen, and nothing else. *)
LEMMA CooledDownCases ==
    ASSUME now \in Nat, NEW s, Sound(s)
    PROVE  /\ Sound(CooledDown(s))
           /\ \/ CooledDown(s) = s /\ ~(s.state = Open /\ now > s.openUntil)
              \/ /\ s.state = Open /\ now > s.openUntil
                 /\ CooledDown(s).state = HalfOpen
                 /\ CooledDown(s).halfOpenSince = now
                 /\ CooledDown(s).probeUsed = 0
                 /\ CooledDown(s).probeSuccess = 0
<1>1. CASE ~(s.state = Open /\ now > s.openUntil)
  BY <1>1 DEF CooledDown
<1>2. CASE s.state = Open /\ now > s.openUntil
  <2>0. s \in SubBreaker
    BY DEF Sound
  <2> DEFINE t == [s EXCEPT !.state = HalfOpen, !.halfOpenSince = now,
                            !.probeUsed = 0, !.probeSuccess = 0]
  <2>1. t \in SubBreaker
    <3>1. 0 \in 0 .. HalfOpenAllowed
      BY SettingsAssumption
    <3>2. QED
      BY <2>0, <3>1 DEF SubBreaker
  <2>2. /\ t.state = HalfOpen /\ t.halfOpenSince = now
        /\ t.probeUsed = 0 /\ t.probeSuccess = 0
        /\ t.units = s.units /\ t.lastTick = s.lastTick
    BY <2>0 DEF SubBreaker
  <2>3. CooledDown(s) = t
    BY <1>2 DEF CooledDown
  <2>4. QED
    <3> HIDE DEF t
    <3>1. QED
      BY <1>2, <2>1, <2>2, <2>3, SettingsAssumption DEF Sound
<1>3. QED
  BY <1>1, <1>2

LEMMA AllowedCases ==
    ASSUME TypeInv, NEW r \in Callers, NEW k \in Keys, Allowed(r, k)
    PROVE  /\ r \notin DOMAIN calls
           /\ \E new : /\ Sound(new)
                       /\ \/ Refuse(k, new) /\ RefusedTo(Sub(k), new)
                          \/ Admit(r, k, new) /\ AdmittedTo(Sub(k), new)
<1> DEFINE a == advance(Sub(k))
           s == CooledDown(a)
<1>0. now \in Nat
  BY DEF TypeInv, TypeOK
<1>1. Sound(a) /\ SameControl(a, Sub(k))
  BY <1>0, SubSound, AdvanceSound
<1>2. /\ Sound(s)
      /\ \/ s = a /\ ~(a.state = Open /\ now > a.openUntil)
         \/ /\ a.state = Open /\ now > a.openUntil
            /\ s.state = HalfOpen /\ s.halfOpenSince = now
            /\ s.probeUsed = 0 /\ s.probeSuccess = 0
  BY <1>0, <1>1, CooledDownCases
<1>3. /\ r \notin DOMAIN calls
      /\ AllowedClosed(r, k, s) \/ AllowedOpen(k, s) \/ AllowedHalfOpen(r, k, s)
  BY DEF Allowed
<1> HIDE DEF a, s
<1>4. CASE AllowedClosed(r, k, s)
  <2>1. s.state = Closed /\ Sub(k).state = Closed
    BY <1>1, <1>2, <1>4, StatesDistinct DEF AllowedClosed, SameControl
  <2>2. CASE Admit(r, k, s)
    BY <1>2, <1>3, <2>1, <2>2 DEF AdmittedTo
  <2>3. CASE Refuse(k, Opened(s))
    BY <1>0, <1>2, <1>3, <2>1, <2>3, OpenedSound DEF RefusedTo
  <2>4. QED
    BY <1>4, <2>2, <2>3 DEF AllowedClosed
<1>5. CASE AllowedOpen(k, s)
  <2>1. /\ s.state = Open /\ Sub(k).state = Open /\ s.openUntil = Sub(k).openUntil
        /\ Refuse(k, s)
    BY <1>1, <1>2, <1>5, StatesDistinct DEF AllowedOpen, SameControl
  <2>2. QED
    BY <1>2, <1>3, <2>1 DEF RefusedTo
<1>6. CASE AllowedHalfOpen(r, k, s)
  <2>1. s.state = HalfOpen
    BY <1>6 DEF AllowedHalfOpen
  <2>2. s \in SubBreaker
    BY <1>2 DEF Sound
  <2>3. CASE now > s.halfOpenSince + HalfOpenMaxDuration /\ Refuse(k, Opened(s))
    <3>1. s = a
      BY <1>0, <1>2, <2>3, SettingsAssumption
    <3>2. Sub(k).state = HalfOpen
      BY <1>1, <2>1, <3>1 DEF SameControl
    <3>3. QED
      BY <1>0, <1>2, <1>3, <2>3, <3>2, OpenedSound DEF RefusedTo
  <2>4. CASE s.probeUsed >= HalfOpenAllowed /\ Refuse(k, s)
    <3>1. s = a
      BY <1>2, <2>4, SettingsAssumption
    <3>2. /\ Sub(k).state = HalfOpen /\ s.probeUsed = Sub(k).probeUsed
          /\ s.probeSuccess = Sub(k).probeSuccess
      BY <1>1, <2>1, <3>1 DEF SameControl
    <3>3. QED
      BY <1>2, <1>3, <2>1, <2>4, <3>2 DEF RefusedTo
  <2>5. CASE s.probeUsed < HalfOpenAllowed /\ Admit(r, k, [s EXCEPT !.probeUsed = @ + 1])
    <3> DEFINE t == [s EXCEPT !.probeUsed = @ + 1]
    <3>1. t \in SubBreaker
      <4>0. s.probeUsed \in Nat /\ HalfOpenAllowed \in Nat
        BY <2>2, SettingsAssumption DEF SubBreaker
      <4>1. s.probeUsed + 1 \in 0 .. HalfOpenAllowed
        BY <2>5, <4>0
      <4>2. QED
        BY <2>2, <4>1 DEF SubBreaker
    <3>2. /\ t.state = s.state /\ t.probeUsed = s.probeUsed + 1
          /\ t.probeSuccess = s.probeSuccess /\ t.units = s.units
          /\ t.lastTick = s.lastTick
      BY <2>2 DEF SubBreaker
    <3> HIDE DEF t
    <3>3. Sound(t)
      BY <1>2, <3>1, <3>2 DEF Sound
    <3>4. AdmittedTo(Sub(k), t)
      BY <1>1, <1>2, <2>1, <3>2 DEF AdmittedTo, SameControl
    <3>5. Admit(r, k, t)
      BY <2>5 DEF t
    <3>6. QED
      BY <1>3, <3>3, <3>4, <3>5
  <2>6. QED
    BY <1>6, <2>3, <2>4, <2>5 DEF AllowedHalfOpen
<1>7. QED
  BY <1>3, <1>4, <1>5, <1>6

LEMMA CountedType ==
    ASSUME now \in Nat, NEW u \in Unit, NEW result
    PROVE  Counted(u, result) \in Unit
BY DEF Counted, Unit, One

LEMMA RecordCases ==
    ASSUME now \in Nat, NEW s, Sound(s), NEW result \in Metrics
    PROVE  Sound(recorded(s, result)) /\ RecordedTo(s, recorded(s, result), result)
<1> DEFINE a == advance(s)
           c == [a EXCEPT !.current = Counted(@, result)]
<1>1. Sound(a) /\ SameControl(a, s)
  BY AdvanceSound
<1>2. a \in SubBreaker
  BY <1>1 DEF Sound
<1> HIDE DEF a
<1>3. c \in SubBreaker
  <2>1. Counted(a.current, result) \in Unit
    BY <1>2, CountedType DEF SubBreaker
  <2>2. QED
    BY <1>2, <2>1 DEF SubBreaker
<1>4. /\ c.state = s.state /\ c.openUntil = s.openUntil /\ c.probeUsed = s.probeUsed
      /\ c.probeSuccess = s.probeSuccess /\ c.units = a.units /\ c.lastTick = a.lastTick
  BY <1>1, <1>2 DEF SubBreaker, SameControl
<1>5. Sound(c)
  BY <1>1, <1>3, <1>4 DEF Sound, SameControl
<1>6. recorded(s, result) =
         IF c.state = HalfOpen THEN Settled(Judged(c, result)) ELSE c
  BY DEF recorded, a
<1> HIDE DEF c
<1>7. CASE c.state # HalfOpen
  BY <1>4, <1>5, <1>6, <1>7 DEF RecordedTo
<1>8. CASE c.state = HalfOpen
  <2>0. c.probeSuccess \in 0 .. HalfOpenAllowed - 1
    <3>1. c.probeSuccess \in Nat
      BY <1>3 DEF SubBreaker
    <3>2. c.probeSuccess < HalfOpenAllowed
      BY <1>5, <1>8 DEF Sound
    <3>3. QED
      BY <3>1, <3>2, SettingsAssumption
  <2>1. CASE result \in Infra
    <3>1. Judged(c, result) = Opened(c)
      BY <2>1 DEF Judged
    <3>2. Opened(c).probeSuccess = c.probeSuccess
      BY <1>3 DEF Opened, SubBreaker
    <3>3. recorded(s, result) = Opened(c)
      BY <1>6, <1>8, <2>0, <3>1, <3>2, SettingsAssumption DEF Settled
    <3>4. QED
      BY <1>4, <1>5, <1>8, <2>1, <3>3, OpenedSound DEF RecordedTo
  <2>2. CASE result = BusinessFailure
    <3>1. Judged(c, result) = c
      BY <2>2, StatesDistinct DEF Judged
    <3>2. recorded(s, result) = c
      BY <1>6, <1>8, <2>0, <3>1, SettingsAssumption DEF Settled
    <3>3. QED
      BY <1>4, <1>5, <1>8, <2>2, <3>2 DEF RecordedTo
  <2>3. CASE result = Success
    <3> DEFINE t == [c EXCEPT !.probeSuccess = @ + 1]
    <3>1. Judged(c, result) = t
      BY <2>3, StatesDistinct DEF Judged
    <3>2. t \in SubBreaker
      <4>1. c.probeSuccess + 1 \in 0 .. HalfOpenAllowed
        BY <2>0, SettingsAssumption
      <4>2. QED
        BY <1>3, <4>1 DEF SubBreaker
    <3>3. /\ t.state = HalfOpen /\ t.probeUsed = s.probeUsed
          /\ t.probeSuccess = s.probeSuccess + 1
          /\ t.units = c.units /\ t.lastTick = c.lastTick
      BY <1>3, <1>4, <1>8 DEF SubBreaker
    <3> HIDE DEF t
    <3>4. recorded(s, result) = Settled(t)
      BY <1>6, <1>8, <3>1
    <3>5. CASE t.probeSuccess >= HalfOpenAllowed
      <4> DEFINE z == [t EXCEPT !.state = Closed, !.units = <<>>, !.current = EmptyUnit]
      <4>1. recorded(s, result) = z
        BY <3>4, <3>5 DEF Settled
      <4>2. z \in SubBreaker
        <5>1. <<>> \in Seq(Unit)
          BY EmptySeq
        <5>2. QED
          BY <3>2, <5>1, EmptyUnitType DEF SubBreaker
      <4>3. z.state = Closed /\ z.units = <<>> /\ z.lastTick = t.lastTick
        BY <3>2 DEF SubBreaker
      <4> HIDE DEF z
      <4>4. Len(z.units) <= WindowCapacity
        BY <4>3, SettingsAssumption, EmptySeq
      <4>5. Sound(z)
        BY <1>5, <3>3, <4>2, <4>3, <4>4, StatesDistinct DEF Sound
      <4>6. s.probeSuccess + 1 = HalfOpenAllowed
        BY <1>4, <2>0, <3>3, <3>5, SettingsAssumption
      <4>7. QED
        BY <1>4, <1>8, <2>3, <4>1, <4>3, <4>5, <4>6 DEF RecordedTo
    <3>6. CASE ~(t.probeSuccess >= HalfOpenAllowed)
      <4>1. recorded(s, result) = t
        BY <3>4, <3>6 DEF Settled
      <4>2. t.probeSuccess < HalfOpenAllowed
        BY <1>4, <2>0, <3>3, <3>6, SettingsAssumption
      <4>3. Sound(t)
        BY <1>5, <3>2, <3>3, <4>2 DEF Sound
      <4>4. QED
        BY <1>4, <1>8, <2>3, <3>3, <4>1, <4>3 DEF RecordedTo
    <3>7. QED
      BY <3>5, <3>6
  <2>4. QED
    BY <2>1, <2>2, <2>3, StatesDistinct
<1>9. QED
  BY <1>7, <1>8

-----------------------------------------------------------------------------
(* Types *)

LEMMA NotedType ==
    ASSUME now \in Nat, NEW h \in History, NEW old, NEW new
    PROVE  Noted(h, old, new) \in History
BY DEF Noted, History, NoProbes, NoResults

LEMMA WithResultType ==
    ASSUME NEW h \in History, NEW role, NEW result
    PROVE  WithResult(h, role, result) \in History
<1>1. \A p : One(p) \in Nat
  BY DEF One
<1>2. QED
  BY <1>1 DEF WithResult, History

LEMMA MarkLateType ==
    ASSUME TypeInv, NEW k, NEW new
    PROVE  /\ DOMAIN MarkLate(k, new) = DOMAIN calls
           /\ \A r \in DOMAIN calls :
                 /\ MarkLate(k, new)[r] \in Call
                 /\ MarkLate(k, new)[r].key = calls[r].key
                 /\ MarkLate(k, new)[r].at = calls[r].at
BY DEF MarkLate, TypeInv, TypeOK, Call

LEMMA StoreType ==
    ASSUME TypeInv, NEW k \in Keys, NEW new, Sound(new), Store(k, new), now' = now
    PROVE  /\ DOMAIN breakers' \subseteq Keys
           /\ breakers' \in [DOMAIN breakers' -> SubBreaker]
           /\ \A x \in DOMAIN breakers' : Sound(breakers[x])'
           /\ \A x \in DOMAIN breakers' : Len(breakers'[x].units) <= WindowCapacity
<1>1. DOMAIN breakers' = DOMAIN breakers \cup {k}
  BY DEF Store
<1>2. \A x \in DOMAIN breakers' : breakers'[x] = IF x = k THEN new ELSE breakers[x]
  BY DEF Store
<1>3. \A x \in DOMAIN breakers' : Sound(breakers'[x])
  BY <1>1, <1>2 DEF TypeInv
<1>4. \A x \in DOMAIN breakers' : breakers'[x] \in SubBreaker
  BY <1>3 DEF Sound
<1>5. breakers' = [x \in DOMAIN breakers' |-> breakers'[x]]
  BY <1>1 DEF Store
<1>6. QED
  BY <1>1, <1>3, <1>4, <1>5 DEF TypeInv, TypeOK, Sound

LEMMA RefuseType ==
    ASSUME TypeInv, NEW k \in Keys, NEW new, Sound(new), Refuse(k, new)
    PROVE  TypeInv'
<1>1. now' = now /\ issued' = issued /\ Store(k, new) /\ calls' = MarkLate(k, new)
        /\ hist' = [hist EXCEPT ![k] = Noted(@, Sub(k), new)]
  BY DEF Refuse
<1>2. hist' \in [Keys -> History]
  BY <1>1, NotedType DEF TypeInv, TypeOK
<1>3. DOMAIN calls' \subseteq Callers /\ calls' \in [DOMAIN calls' -> Call]
  <2>1. calls' = [r \in DOMAIN calls' |-> calls'[r]]
    BY <1>1 DEF MarkLate
  <2>2. QED
    BY <1>1, <2>1, MarkLateType DEF TypeInv, TypeOK
<1>4. QED
  BY <1>1, <1>2, <1>3, StoreType DEF TypeInv, TypeOK

LEMMA AdmitType ==
    ASSUME TypeInv, NEW r \in Callers, NEW k \in Keys, NEW new, Sound(new),
           Admit(r, k, new)
    PROVE  TypeInv'
<1> DEFINE role == IF new.state = HalfOpen THEN "probe" ELSE "regular"
           c    == [key |-> k, at |-> now, role |-> role]
           h    == Noted(hist[k], Sub(k), new)
           h2   == IF role = "probe" THEN [h EXCEPT !.probes.admitted = @ + 1] ELSE h
<1>1. /\ now' = now /\ issued' = issued + 1 /\ Store(k, new)
      /\ calls' = [x \in DOMAIN calls \cup {r} |->
                      IF x = r THEN c ELSE MarkLate(k, new)[x]]
      /\ hist' = [hist EXCEPT ![k] = h2]
  BY DEF Admit, TypeInv, TypeOK
<1>2. hist' \in [Keys -> History]
  <2>1. h \in History
    BY NotedType DEF TypeInv, TypeOK
  <2>2. h2 \in History
    <3> HIDE DEF h
    <3>1. QED
      BY <2>1 DEF History
  <2>3. QED
    <3> HIDE DEF h2
    <3>1. QED
      BY <1>1, <2>2 DEF TypeInv, TypeOK
<1>3. DOMAIN calls' \subseteq Callers /\ calls' \in [DOMAIN calls' -> Call]
  <2>1. c \in Call
    BY DEF Call, TypeInv, TypeOK
  <2>2. calls' = [x \in DOMAIN calls' |-> calls'[x]] /\ DOMAIN calls' = DOMAIN calls \cup {r}
    BY <1>1
  <2>3. \A x \in DOMAIN calls' : calls'[x] \in Call
    <3> HIDE DEF c
    <3>1. QED
      BY <1>1, <2>1, <2>2, MarkLateType
  <2>4. QED
    BY <2>2, <2>3 DEF TypeInv, TypeOK
<1>4. now' \in Nat /\ issued' \in Nat
  BY <1>1 DEF TypeInv, TypeOK
<1>5. QED
  <2> HIDE DEF c, h2
  <2>1. QED
    BY <1>1, <1>2, <1>3, <1>4, StoreType DEF TypeInv, TypeOK

LEMMA RecordType ==
    ASSUME TypeInv, NEW r \in Callers, NEW result \in Metrics, Record(r, result)
    PROVE  TypeInv'
<1> DEFINE k   == calls[r].key
           new == recorded(Sub(k), result)
<1>1. /\ r \in DOMAIN calls /\ now' = now /\ issued' = issued /\ Store(k, new)
      /\ hist' = [hist EXCEPT ![k] =
                    Noted(WithResult(@, calls[r].role, result), Sub(k), new)]
      /\ calls' = [x \in DOMAIN calls \ {r} |-> calls[x]]
  BY DEF Record
<1>2. k \in Keys
  BY <1>1 DEF TypeInv, TypeOK, Call
<1>3. Sound(new)
  <2> HIDE DEF k
  <2>1. QED
    BY <1>2, SubSound, RecordCases DEF TypeInv, TypeOK
<1>4. hist' \in [Keys -> History]
  <2> HIDE DEF new, k
  <2>1. WithResult(hist[k], calls[r].role, result) \in History
    BY <1>2, WithResultType DEF TypeInv, TypeOK
  <2>2. Noted(WithResult(hist[k], calls[r].role, result), Sub(k), new) \in History
    BY <2>1, NotedType DEF TypeInv, TypeOK
  <2>3. QED
    BY <1>1, <1>2, <2>2 DEF TypeInv, TypeOK
<1>5. DOMAIN calls' \subseteq Callers /\ calls' \in [DOMAIN calls' -> Call]
  BY <1>1 DEF TypeInv, TypeOK
<1>6. QED
  <2> HIDE DEF new, k
  <2>1. QED
    BY <1>1, <1>2, <1>3, <1>4, <1>5, StoreType DEF TypeInv, TypeOK

LEMMA TypeInitial == Init => TypeInv
BY SettingsAssumption DEF Init, TypeInv, TypeOK, NewHist, History, NoProbes, NoResults

LEMMA TypeStep == TypeInv /\ [Next]_vars => TypeInv'
<1> SUFFICES ASSUME TypeInv, [Next]_vars
             PROVE  TypeInv'
  OBVIOUS
<1>1. CASE Tick
  <2>1. /\ now \in Nat /\ now' = now + 1
        /\ UNCHANGED <<breakers, calls, issued, hist>>
    BY <1>1 DEF Tick, TypeInv, TypeOK
  <2>2. ASSUME NEW k \in DOMAIN breakers'
        PROVE  Sound(breakers[k])'
    <3>1. Sound(breakers[k]) /\ breakers[k].lastTick \in Nat
      BY <2>1, <2>2 DEF TypeInv, Sound, SubBreaker
    <3>2. QED
      BY <2>1, <3>1 DEF Sound
  <2>3. TypeOK'
    BY <2>1 DEF TypeInv, TypeOK
  <2>4. QED
    BY <2>2, <2>3 DEF TypeInv
<1>2. ASSUME NEW r \in Callers, NEW k \in Keys, Allowed(r, k)
      PROVE  TypeInv'
  BY <1>2, AllowedCases, RefuseType, AdmitType
<1>3. ASSUME NEW r \in Callers, NEW result \in Metrics, Record(r, result)
      PROVE  TypeInv'
  BY <1>3, RecordType
<1>4. CASE UNCHANGED vars
  BY <1>4 DEF vars, TypeInv, TypeOK, Sound
<1>5. QED
  BY <1>1, <1>2, <1>3, <1>4 DEF Next

LEMMA TypeInvariant == Spec => []TypeInv
BY TypeInitial, TypeStep, PTL DEF Spec

(* For every setting: no counter leaves its range, no window outgrows its  *)
(* ring, and every call under way belongs to a known key.                  *)
THEOREM TypeCorrect == Spec => []TypeOK
<1>1. TypeInv => TypeOK
  BY DEF TypeInv
<1>2. QED
  BY <1>1, TypeInvariant, PTL

-----------------------------------------------------------------------------
(* The probe quota and load shedding *)

(* The admitted probes of the current half-open period are the ones the    *)
(* code counted.                                                           *)
QuotaInv(k) ==
    /\ hist[k].probes.admitted <= HalfOpenAllowed
    /\ Sub(k).state = HalfOpen => hist[k].probes.admitted = Sub(k).probeUsed

(* The latest opening is OpenDuration before openUntil while the breaker   *)
(* is open, and further back than that in any other state.                 *)
ShedInv(k) ==
    \A t \in hist[k].openedAt :
        IF Sub(k).state = Open THEN Sub(k).openUntil = t + OpenDuration
                               ELSE now > t + OpenDuration

KeyInv == TypeInv /\ \A k \in Keys : QuotaInv(k) /\ ShedInv(k)

LEMMA StoreSub ==
    ASSUME TypeInv, NEW k \in Keys, NEW new, Store(k, new), now' = now
    PROVE  /\ Sub(k)' = new
           /\ \A x \in Keys \ {k} : Sub(x)' = Sub(x)
BY DEF Store, Sub, newSubBreaker

LEMMA RefuseStep ==
    ASSUME KeyInv, NEW k \in Keys, NEW new, Sound(new),
           Refuse(k, new), RefusedTo(Sub(k), new)
    PROVE  \A x \in Keys : QuotaInv(x)' /\ ShedInv(x)'
<1>1. /\ now' = now /\ Store(k, new)
      /\ hist' = [hist EXCEPT ![k] = Noted(@, Sub(k), new)]
  BY DEF Refuse
<1>2. Sub(k)' = new /\ \A x \in Keys \ {k} : Sub(x)' = Sub(x)
  BY <1>1, StoreSub DEF KeyInv
<1>3. hist'[k] = Noted(hist[k], Sub(k), new) /\ \A x \in Keys \ {k} : hist'[x] = hist[x]
  BY <1>1 DEF KeyInv, TypeInv, TypeOK
<1>4. ASSUME NEW x \in Keys \ {k} PROVE QuotaInv(x)' /\ ShedInv(x)'
  BY <1>1, <1>2, <1>3 DEF KeyInv, QuotaInv, ShedInv
<1>5. QuotaInv(k) /\ ShedInv(k)
  BY DEF KeyInv
<1>6. hist'[k].probes = hist[k].probes
  BY <1>3, StatesDistinct DEF Noted, Entered, RefusedTo
<1>7. QuotaInv(k)'
  BY <1>2, <1>5, <1>6, StatesDistinct DEF QuotaInv, RefusedTo
<1>8. ShedInv(k)'
  <2>1. CASE Sub(k).state \in {Closed, HalfOpen} /\ new.state = Open
               /\ new.openUntil = now + OpenDuration
    <3>1. hist'[k].openedAt = {now}
      BY <1>3, <2>1, StatesDistinct DEF Noted, Entered
    <3>2. QED
      BY <1>1, <1>2, <2>1, <3>1 DEF ShedInv
  <2>2. CASE Sub(k).state = Open /\ new.state = Open /\ new.openUntil = Sub(k).openUntil
    <3>1. hist'[k].openedAt = hist[k].openedAt
      BY <1>3, <2>2 DEF Noted, Entered
    <3>2. QED
      BY <1>1, <1>2, <1>5, <2>2, <3>1 DEF ShedInv
  <2>3. CASE Sub(k).state = HalfOpen /\ new.state = HalfOpen
    <3>1. hist'[k].openedAt = hist[k].openedAt
      BY <1>3, <2>3, StatesDistinct DEF Noted, Entered
    <3>2. QED
      BY <1>1, <1>2, <1>5, <2>3, <3>1, StatesDistinct DEF ShedInv
  <2>4. QED
    BY <2>1, <2>2, <2>3 DEF RefusedTo
<1>9. QED
  BY <1>4, <1>7, <1>8

LEMMA AdmitEffect ==
    ASSUME TypeInv, NEW r \in Callers, NEW k \in Keys, NEW new,
           Admit(r, k, new), AdmittedTo(Sub(k), new)
    PROVE  /\ now' = now /\ Store(k, new)
           /\ \A x \in Keys \ {k} : hist'[x] = hist[x]
           /\ hist'[k].openedAt = hist[k].openedAt
           /\ hist'[k].probes.admitted =
                 IF new.state # HalfOpen THEN hist[k].probes.admitted
                 ELSE IF Sub(k).state = HalfOpen THEN hist[k].probes.admitted + 1
                 ELSE 1
           /\ hist'[k].probes.good =
                 IF new.state = HalfOpen /\ Sub(k).state # HalfOpen THEN 0
                 ELSE hist[k].probes.good
           /\ hist'[k].probes.bad =
                 IF new.state = HalfOpen /\ Sub(k).state # HalfOpen THEN 0
                 ELSE hist[k].probes.bad
<1> DEFINE role == IF new.state = HalfOpen THEN "probe" ELSE "regular"
           h    == Noted(hist[k], Sub(k), new)
           h2   == IF role = "probe" THEN [h EXCEPT !.probes.admitted = @ + 1] ELSE h
<1>1. now' = now /\ Store(k, new) /\ hist' = [hist EXCEPT ![k] = h2]
  BY DEF Admit, TypeInv, TypeOK
<1>2. h \in History
  BY NotedType DEF TypeInv, TypeOK
<1>3. hist'[k] = h2 /\ \A x \in Keys \ {k} : hist'[x] = hist[x]
  <2> HIDE DEF h2
  <2>1. QED
    BY <1>1 DEF TypeInv, TypeOK
<1>4. /\ h2.openedAt = h.openedAt
      /\ h2.probes.admitted = IF new.state = HalfOpen THEN h.probes.admitted + 1
                              ELSE h.probes.admitted
      /\ h2.probes.good = h.probes.good /\ h2.probes.bad = h.probes.bad
  <2> HIDE DEF h
  <2>1. QED
    BY <1>2 DEF History
<1>5. /\ h.openedAt = hist[k].openedAt
      /\ h.probes = IF new.state = HalfOpen /\ Sub(k).state # HalfOpen THEN NoProbes
                    ELSE hist[k].probes
  BY StatesDistinct DEF Noted, Entered, AdmittedTo
<1>6. NoProbes.admitted = 0 /\ NoProbes.good = 0 /\ NoProbes.bad = 0
  BY DEF NoProbes
<1>7. QED
  <2> HIDE DEF h, h2
  <2>1. QED
    BY <1>1, <1>3, <1>4, <1>5, <1>6

LEMMA AdmitStep ==
    ASSUME KeyInv, NEW r \in Callers, NEW k \in Keys, NEW new, Sound(new),
           Admit(r, k, new), AdmittedTo(Sub(k), new)
    PROVE  /\ \A x \in Keys : QuotaInv(x)' /\ ShedInv(x)'
           /\ \A t \in hist[k].openedAt : now > t + OpenDuration
<1>1. /\ now' = now /\ Store(k, new)
      /\ \A x \in Keys \ {k} : hist'[x] = hist[x]
      /\ hist'[k].openedAt = hist[k].openedAt
      /\ hist'[k].probes.admitted =
            IF new.state # HalfOpen THEN hist[k].probes.admitted
            ELSE IF Sub(k).state = HalfOpen THEN hist[k].probes.admitted + 1
            ELSE 1
  BY AdmitEffect DEF KeyInv
<1>2. Sub(k)' = new /\ \A x \in Keys \ {k} : Sub(x)' = Sub(x)
  BY <1>1, StoreSub DEF KeyInv
<1>3. ASSUME NEW x \in Keys \ {k} PROVE QuotaInv(x)' /\ ShedInv(x)'
  BY <1>1, <1>2, <1>3 DEF KeyInv, QuotaInv, ShedInv
<1>4. QuotaInv(k) /\ ShedInv(k)
  BY DEF KeyInv
<1>5. QuotaInv(k)'
  <2>1. new.probeUsed <= HalfOpenAllowed
    BY SettingsAssumption DEF Sound, SubBreaker
  <2>2. CASE new.state = Closed
    BY <1>1, <1>2, <1>4, <2>2, StatesDistinct DEF QuotaInv
  <2>3. CASE Sub(k).state = HalfOpen /\ new.state = HalfOpen
               /\ new.probeUsed = Sub(k).probeUsed + 1
    BY <1>1, <1>2, <1>4, <2>1, <2>3 DEF QuotaInv
  <2>4. CASE Sub(k).state = Open /\ new.state = HalfOpen /\ new.probeUsed = 1
    BY <1>1, <1>2, <2>1, <2>4, StatesDistinct DEF QuotaInv
  <2>5. QED
    BY <2>2, <2>3, <2>4 DEF AdmittedTo
<1>6. \A t \in hist[k].openedAt : now > t + OpenDuration
  BY <1>4, StatesDistinct DEF AdmittedTo, ShedInv
<1>7. ShedInv(k)'
  <2>1. new.state # Open
    BY StatesDistinct, Zenon DEF AdmittedTo
  <2>2. QED
    BY <1>1, <1>2, <1>6, <2>1 DEF ShedInv
<1>8. QED
  BY <1>3, <1>5, <1>6, <1>7

LEMMA RecordEffect ==
    ASSUME TypeInv, NEW r \in Callers, NEW result \in Metrics, Record(r, result),
           NEW k \in Keys, k = calls[r].key
    PROVE  \E new :
              /\ Sound(new) /\ RecordedTo(Sub(k), new, result)
              /\ now' = now /\ Store(k, new)
              /\ \A x \in Keys \ {k} : hist'[x] = hist[x]
              /\ hist'[k].openedAt = IF Entered(Open, Sub(k), new) THEN {now}
                                     ELSE hist[k].openedAt
              /\ hist'[k].probes.admitted = hist[k].probes.admitted
              /\ hist'[k].probes.good = hist[k].probes.good
                    + One(calls[r].role = "probe" /\ result = Success)
              /\ hist'[k].probes.bad = hist[k].probes.bad
                    + One(calls[r].role = "probe" /\ result \in Infra)
<1> DEFINE new == recorded(Sub(k), result)
           h   == WithResult(hist[k], calls[r].role, result)
<1>1. /\ now' = now /\ Store(k, new)
      /\ hist' = [hist EXCEPT ![k] = Noted(h, Sub(k), new)]
  BY DEF Record, TypeInv, TypeOK
<1>2. Sound(new) /\ RecordedTo(Sub(k), new, result)
  BY SubSound, RecordCases DEF TypeInv, TypeOK
<1>3. /\ h.openedAt = hist[k].openedAt
      /\ h.probes.admitted = hist[k].probes.admitted
      /\ h.probes.good = hist[k].probes.good
            + One(calls[r].role = "probe" /\ result = Success)
      /\ h.probes.bad = hist[k].probes.bad
            + One(calls[r].role = "probe" /\ result \in Infra)
  BY DEF WithResult
<1> HIDE DEF h, new
<1>4. hist'[k] = Noted(h, Sub(k), new) /\ \A x \in Keys \ {k} : hist'[x] = hist[x]
  BY <1>1 DEF TypeInv, TypeOK
<1>5. ~Entered(HalfOpen, Sub(k), new)
  BY <1>2, StatesDistinct DEF RecordedTo, Entered
<1>6. /\ hist'[k].probes = h.probes
      /\ hist'[k].openedAt = IF Entered(Open, Sub(k), new) THEN {now} ELSE h.openedAt
  BY <1>4, <1>5 DEF Noted
<1>7. QED
  BY <1>1, <1>2, <1>3, <1>4, <1>6

LEMMA RecordStep ==
    ASSUME KeyInv, NEW r \in Callers, NEW result \in Metrics, Record(r, result)
    PROVE  \A x \in Keys : QuotaInv(x)' /\ ShedInv(x)'
<1>1. PICK k \in Keys : k = calls[r].key
  BY DEF Record, KeyInv, TypeInv, TypeOK, Call
<1>2. PICK new :
         /\ Sound(new) /\ RecordedTo(Sub(k), new, result)
         /\ now' = now /\ Store(k, new)
         /\ \A x \in Keys \ {k} : hist'[x] = hist[x]
         /\ hist'[k].openedAt = IF Entered(Open, Sub(k), new) THEN {now}
                                ELSE hist[k].openedAt
         /\ hist'[k].probes.admitted = hist[k].probes.admitted
  BY <1>1, RecordEffect DEF KeyInv
<1>3. Sub(k)' = new /\ \A x \in Keys \ {k} : Sub(x)' = Sub(x)
  BY <1>1, <1>2, StoreSub DEF KeyInv
<1>4. ASSUME NEW x \in Keys \ {k} PROVE QuotaInv(x)' /\ ShedInv(x)'
  BY <1>2, <1>3, <1>4 DEF KeyInv, QuotaInv, ShedInv
<1>5. QuotaInv(k) /\ ShedInv(k)
  BY <1>1 DEF KeyInv
<1>6. QuotaInv(k)'
  BY <1>2, <1>3, <1>5, StatesDistinct DEF QuotaInv, RecordedTo
<1>7. ShedInv(k)'
  <2>1. CASE Entered(Open, Sub(k), new)
    <3>1. hist'[k].openedAt = {now} /\ new.state = Open
      BY <1>2, <2>1 DEF Entered
    <3>2. new.openUntil = now + OpenDuration
      BY <1>2, <2>1, StatesDistinct DEF RecordedTo, Entered
    <3>3. QED
      BY <1>2, <1>3, <3>1, <3>2 DEF ShedInv
  <2>2. CASE ~Entered(Open, Sub(k), new)
    <3>1. hist'[k].openedAt = hist[k].openedAt
      BY <1>2, <2>2
    <3>2. CASE new.state = Open
      <4>1. Sub(k).state = Open /\ new.openUntil = Sub(k).openUntil
        BY <1>2, <2>2, <3>2, StatesDistinct DEF RecordedTo, Entered
      <4>2. QED
        BY <1>2, <1>3, <1>5, <3>1, <3>2, <4>1 DEF ShedInv
    <3>3. CASE new.state # Open
      <4>1. Sub(k).state # Open
        BY <1>2, <3>3, StatesDistinct DEF RecordedTo
      <4>2. QED
        BY <1>2, <1>3, <1>5, <3>1, <3>3, <4>1 DEF ShedInv
    <3>4. QED
      BY <3>2, <3>3
  <2>3. QED
    BY <2>1, <2>2
<1>8. QED
  BY <1>4, <1>6, <1>7

(* Time passing, and a breaker being made, change no control field. *)
LEMMA TickSub ==
    ASSUME Tick, NEW k \in Keys
    PROVE  /\ SameControl(Sub(k)', Sub(k))
           /\ k \notin DOMAIN breakers => Sub(k).state = Closed
BY DEF Tick, Sub, newSubBreaker, SameControl

LEMMA TickStep ==
    ASSUME KeyInv, Tick
    PROVE  \A x \in Keys : QuotaInv(x)' /\ ShedInv(x)'
<1> SUFFICES ASSUME NEW x \in Keys PROVE QuotaInv(x)' /\ ShedInv(x)'
  OBVIOUS
<1>1. now \in Nat /\ now' = now + 1 /\ hist' = hist /\ hist[x].openedAt \subseteq Nat
  BY DEF Tick, KeyInv, TypeInv, TypeOK, History
<1>2. SameControl(Sub(x)', Sub(x))
  BY TickSub
<1>3. QuotaInv(x) /\ ShedInv(x)
  BY DEF KeyInv
<1>4. QuotaInv(x)'
  BY <1>1, <1>2, <1>3 DEF QuotaInv, SameControl
<1>5. ShedInv(x)'
  BY <1>1, <1>2, <1>3, SettingsAssumption DEF ShedInv, SameControl
<1>6. QED
  BY <1>4, <1>5

LEMMA KeyInitial == Init => KeyInv
<1> SUFFICES ASSUME Init PROVE KeyInv
  OBVIOUS
<1>1. ASSUME NEW k \in Keys PROVE QuotaInv(k) /\ ShedInv(k)
  <2>1. Sub(k).state = Closed
    BY DEF Init, Sub, newSubBreaker
  <2>2. hist[k].openedAt = {} /\ hist[k].probes.admitted = 0
    BY DEF Init, NewHist, NoProbes
  <2>3. QED
    BY <2>1, <2>2, StatesDistinct, SettingsAssumption DEF QuotaInv, ShedInv
<1>2. QED
  BY <1>1, TypeInitial DEF KeyInv

LEMMA KeyStep == KeyInv /\ [Next]_vars => KeyInv'
<1> SUFFICES ASSUME KeyInv, [Next]_vars
             PROVE  \A x \in Keys : QuotaInv(x)' /\ ShedInv(x)'
  BY TypeStep DEF KeyInv
<1>1. CASE Tick
  BY <1>1, TickStep
<1>2. ASSUME NEW r \in Callers, NEW k \in Keys, Allowed(r, k)
      PROVE  \A x \in Keys : QuotaInv(x)' /\ ShedInv(x)'
  BY <1>2, AllowedCases, RefuseStep, AdmitStep DEF KeyInv
<1>3. ASSUME NEW r \in Callers, NEW result \in Metrics, Record(r, result)
      PROVE  \A x \in Keys : QuotaInv(x)' /\ ShedInv(x)'
  BY <1>3, RecordStep
<1>4. CASE UNCHANGED vars
  BY <1>4 DEF vars, KeyInv, QuotaInv, ShedInv, Sub, newSubBreaker
<1>5. QED
  BY <1>1, <1>2, <1>3, <1>4 DEF Next

LEMMA KeyInvariant == Spec => []KeyInv
BY KeyInitial, KeyStep, PTL DEF Spec

(* However many callers ask at once and however their calls end, no more   *)
(* than HalfOpenAllowed of them are let through in one half-open period.   *)
THEOREM QuotaCorrect == Spec => []ProbeQuota
<1>1. KeyInv => ProbeQuota
  BY DEF KeyInv, QuotaInv, ProbeQuota
<1>2. QED
  BY <1>1, KeyInvariant, PTL

(* No call is admitted to a key for OpenDuration after the key opened,     *)
(* whichever results come in meanwhile.                                    *)
THEOREM ShedCorrect == Spec => ShedWhileOpen
<1> DEFINE Shed == \A r \in NewlyAdmitted : \A t \in hist[calls'[r].key].openedAt :
                      now > t + OpenDuration
<1>1. ASSUME KeyInv, [Next]_vars PROVE Shed
  <2>1. CASE Tick
    BY <2>1 DEF Tick, NewlyAdmitted
  <2>2. ASSUME NEW r \in Callers, NEW k \in Keys, Allowed(r, k)
        PROVE  Shed
    <3>1. PICK new : /\ Sound(new)
                     /\ \/ Refuse(k, new) /\ RefusedTo(Sub(k), new)
                        \/ Admit(r, k, new) /\ AdmittedTo(Sub(k), new)
      BY <1>1, <2>2, AllowedCases DEF KeyInv
    <3>2. CASE Refuse(k, new)
      BY <3>2 DEF Refuse, MarkLate, NewlyAdmitted
    <3>3. CASE Admit(r, k, new) /\ AdmittedTo(Sub(k), new)
      <4>1. NewlyAdmitted \subseteq {r} /\ calls'[r].key = k
        BY <3>3 DEF Admit, NewlyAdmitted
      <4>2. \A t \in hist[k].openedAt : now > t + OpenDuration
        BY <1>1, <3>1, <3>3, AdmitStep
      <4>3. QED
        BY <4>1, <4>2
    <3>4. QED
      BY <3>1, <3>2, <3>3
  <2>3. ASSUME NEW r \in Callers, NEW result \in Metrics, Record(r, result)
        PROVE  Shed
    BY <2>3 DEF Record, NewlyAdmitted
  <2>4. CASE UNCHANGED vars
    BY <2>4 DEF vars, NewlyAdmitted
  <2>5. QED
    BY <1>1, <2>1, <2>2, <2>3, <2>4 DEF Next
<1>2. KeyInv /\ [Next]_vars => [Shed]_vars
  BY <1>1
<1>3. QED
  BY <1>2, KeyInvariant, PTL DEF Spec, ShedWhileOpen

-----------------------------------------------------------------------------
(* Who decides a half-open period, where RequestTimeout <= OpenDuration    *)

(* A call under way at an opening ends before the cool-down does, so none  *)
(* is left when the key turns half-open.                                   *)
CallInv(r, k) ==
    calls[r].key = k =>
       /\ calls[r].at <= now
       /\ now <= calls[r].at + RequestTimeout
       /\ Sub(k).state = Open => calls[r].at + OpenDuration <= Sub(k).openUntil
       /\ Sub(k).state = HalfOpen => calls[r].role = "probe"

(* While half-open, the successes the code counted are the probes', and no *)
(* probe has failed.                                                       *)
GoodInv(k) ==
    Sub(k).state = HalfOpen =>
       /\ hist[k].probes.good = Sub(k).probeSuccess
       /\ hist[k].probes.bad = 0

ProbeInv ==
    /\ TypeInv
    /\ \A r \in DOMAIN calls, k \in Keys : CallInv(r, k)
    /\ \A k \in Keys : GoodInv(k)

LEMMA RefuseProbes ==
    ASSUME ProbeInv, NEW k \in Keys, NEW new, Sound(new),
           Refuse(k, new), RefusedTo(Sub(k), new)
    PROVE  /\ \A x \in DOMAIN calls', y \in Keys : CallInv(x, y)'
           /\ \A y \in Keys : GoodInv(y)'
<1>0. ~Entered(HalfOpen, Sub(k), new)
  BY StatesDistinct DEF RefusedTo, Entered
<1>1. /\ now' = now /\ Store(k, new) /\ calls' = calls
      /\ hist' = [hist EXCEPT ![k] = Noted(@, Sub(k), new)]
  BY <1>0 DEF Refuse, MarkLate, ProbeInv, TypeInv, TypeOK
<1>2. Sub(k)' = new /\ \A y \in Keys \ {k} : Sub(y)' = Sub(y)
  BY <1>1, StoreSub DEF ProbeInv
<1>3. hist'[k].probes = hist[k].probes /\ \A y \in Keys \ {k} : hist'[y] = hist[y]
  BY <1>0, <1>1 DEF ProbeInv, TypeInv, TypeOK, Noted
<1>4. ASSUME NEW y \in Keys PROVE GoodInv(y)'
  <2>1. GoodInv(y)
    BY DEF ProbeInv
  <2>2. CASE y = k
    BY <1>2, <1>3, <2>1, <2>2, StatesDistinct DEF GoodInv, RefusedTo
  <2>3. CASE y # k
    BY <1>2, <1>3, <2>1, <2>3 DEF GoodInv
  <2>4. QED
    BY <2>2, <2>3
<1>5. ASSUME NEW x \in DOMAIN calls', NEW y \in Keys PROVE CallInv(x, y)'
  <2>1. CallInv(x, y) /\ calls[x].at \in Nat
    BY <1>1 DEF ProbeInv, TypeInv, TypeOK, Call
  <2>2. CASE y = k
    <3>1. calls[x].at <= now /\ now' = now /\ now \in Nat /\ OpenDuration \in Nat
          => calls[x].at + OpenDuration <= now + OpenDuration
      BY <2>1
    <3>2. calls[x].key = k => calls[x].at <= now /\ calls[x].at + OpenDuration <= now + OpenDuration
      BY <1>1, <2>1, <2>2, <3>1, SettingsAssumption DEF CallInv, ProbeInv, TypeInv, TypeOK
    <3>3. QED
      BY <1>1, <1>2, <2>1, <2>2, <3>2, StatesDistinct DEF CallInv, RefusedTo
  <2>3. CASE y # k
    BY <1>1, <1>2, <2>1, <2>3 DEF CallInv
  <2>4. QED
    BY <2>2, <2>3
<1>6. QED
  BY <1>4, <1>5

LEMMA AdmitProbes ==
    ASSUME RequestTimeout <= OpenDuration,
           ProbeInv, NEW r \in Callers, NEW k \in Keys, NEW new, Sound(new),
           r \notin DOMAIN calls, Admit(r, k, new), AdmittedTo(Sub(k), new)
    PROVE  /\ \A x \in DOMAIN calls', y \in Keys : CallInv(x, y)'
           /\ \A y \in Keys : GoodInv(y)'
<1>1. /\ now' = now /\ Store(k, new)
      /\ \A y \in Keys \ {k} : hist'[y] = hist[y]
      /\ hist'[k].probes.good =
            IF new.state = HalfOpen /\ Sub(k).state # HalfOpen THEN 0
            ELSE hist[k].probes.good
      /\ hist'[k].probes.bad =
            IF new.state = HalfOpen /\ Sub(k).state # HalfOpen THEN 0
            ELSE hist[k].probes.bad
  BY AdmitEffect DEF ProbeInv
<1>2. Sub(k)' = new /\ \A y \in Keys \ {k} : Sub(y)' = Sub(y)
  BY <1>1, StoreSub DEF ProbeInv
<1>3. /\ DOMAIN calls' = DOMAIN calls \cup {r}
      /\ calls'[r] = [key |-> k, at |-> now,
                      role |-> IF new.state = HalfOpen THEN "probe" ELSE "regular"]
      /\ \A x \in DOMAIN calls : calls'[x] = MarkLate(k, new)[x]
  BY DEF Admit
<1>4. now \in Nat
  BY DEF ProbeInv, TypeInv, TypeOK
<1>5. ASSUME NEW y \in Keys PROVE GoodInv(y)'
  <2>1. GoodInv(y)
    BY DEF ProbeInv
  <2>2. CASE y = k
    BY <1>1, <1>2, <2>1, <2>2, StatesDistinct DEF GoodInv, AdmittedTo
  <2>3. CASE y # k
    BY <1>1, <1>2, <2>1, <2>3 DEF GoodInv
  <2>4. QED
    BY <2>2, <2>3
(* At the turn to half-open the key has no call under way. *)
<1>6. ASSUME NEW x \in DOMAIN calls, calls[x].key = k
      PROVE  Sub(k).state # Open
  <2>1. CallInv(x, k) /\ calls[x].at \in Nat
    BY DEF ProbeInv, TypeInv, TypeOK, Call
  <2>2. SUFFICES ASSUME Sub(k).state = Open PROVE FALSE
    OBVIOUS
  <2>3. now > Sub(k).openUntil /\ Sub(k).openUntil \in Nat
    BY <2>2, SubSound, StatesDistinct DEF AdmittedTo, ProbeInv, Sound, SubBreaker
  <2>4. QED
    BY <1>4, <1>6, <2>1, <2>2, <2>3, SettingsAssumption DEF CallInv
<1>7. ASSUME NEW x \in DOMAIN calls PROVE calls'[x] = calls[x]
  <2>1. ~(calls[x].key = k /\ Entered(HalfOpen, Sub(k), new))
    BY <1>6, StatesDistinct DEF Entered, AdmittedTo
  <2>2. QED
    BY <1>3, <2>1 DEF MarkLate
<1>8. ASSUME NEW x \in DOMAIN calls, NEW y \in Keys PROVE CallInv(x, y)'
  <2>1. CallInv(x, y) /\ calls'[x] = calls[x]
    BY <1>7 DEF ProbeInv
  <2>2. CASE y = k
    <3>1. calls[x].key = k => Sub(k).state # Open /\ new.state # Open
      BY <1>6, StatesDistinct DEF AdmittedTo
    <3>2. calls[x].key = k /\ new.state = HalfOpen => Sub(k).state = HalfOpen
      BY <1>6, StatesDistinct DEF AdmittedTo
    <3>3. QED
      BY <1>1, <1>2, <2>1, <2>2, <3>1, <3>2 DEF CallInv
  <2>3. CASE y # k
    BY <1>1, <1>2, <2>1, <2>3 DEF CallInv
  <2>4. QED
    BY <2>2, <2>3
<1>9. ASSUME NEW y \in Keys PROVE CallInv(r, y)'
  <2>1. calls'[r].key = k /\ calls'[r].at = now
          /\ (new.state = HalfOpen => calls'[r].role = "probe")
    BY <1>3
  <2>2. new.state # Open
    BY StatesDistinct DEF AdmittedTo
  <2>3. QED
    BY <1>1, <1>2, <1>4, <2>1, <2>2, SettingsAssumption DEF CallInv
<1>10. QED
  BY <1>3, <1>5, <1>8, <1>9

LEMMA RecordProbes ==
    ASSUME ProbeInv, NEW r \in Callers, NEW result \in Metrics, Record(r, result)
    PROVE  /\ \A x \in DOMAIN calls', y \in Keys : CallInv(x, y)'
           /\ \A y \in Keys : GoodInv(y)'
           /\ \A y \in Keys : Sub(y).state = HalfOpen /\ Sub(y)'.state = Closed =>
                 /\ hist'[y].probes.good = HalfOpenAllowed
                 /\ hist'[y].probes.bad = 0
<1>0. r \in DOMAIN calls
  BY DEF Record
<1>1. PICK k \in Keys : k = calls[r].key
  BY <1>0 DEF ProbeInv, TypeInv, TypeOK, Call
<1>2. PICK new :
         /\ Sound(new) /\ RecordedTo(Sub(k), new, result)
         /\ now' = now /\ Store(k, new)
         /\ \A x \in Keys \ {k} : hist'[x] = hist[x]
         /\ hist'[k].probes.good = hist[k].probes.good
               + One(calls[r].role = "probe" /\ result = Success)
         /\ hist'[k].probes.bad = hist[k].probes.bad
               + One(calls[r].role = "probe" /\ result \in Infra)
  BY <1>1, RecordEffect DEF ProbeInv
<1>3. Sub(k)' = new /\ \A x \in Keys \ {k} : Sub(x)' = Sub(x)
  BY <1>1, <1>2, StoreSub DEF ProbeInv
<1>4. DOMAIN calls' \subseteq DOMAIN calls /\ \A x \in DOMAIN calls' : calls'[x] = calls[x]
  BY DEF Record
<1>5. GoodInv(k) /\ CallInv(r, k) /\ now \in Nat
  BY <1>0 DEF ProbeInv, TypeInv, TypeOK
<1>6. Sub(k).state = HalfOpen =>
         /\ result = Success =>
               hist'[k].probes.good = Sub(k).probeSuccess + 1 /\ hist'[k].probes.bad = 0
         /\ result = BusinessFailure =>
               hist'[k].probes.good = Sub(k).probeSuccess /\ hist'[k].probes.bad = 0
  <2>1. SUFFICES ASSUME Sub(k).state = HalfOpen
                 PROVE  /\ result = Success =>
                              /\ hist'[k].probes.good = Sub(k).probeSuccess + 1
                              /\ hist'[k].probes.bad = 0
                        /\ result = BusinessFailure =>
                              /\ hist'[k].probes.good = Sub(k).probeSuccess
                              /\ hist'[k].probes.bad = 0
    OBVIOUS
  <2>2. /\ calls[r].role = "probe"
        /\ hist[k].probes.good = Sub(k).probeSuccess /\ hist[k].probes.bad = 0
        /\ Sub(k).probeSuccess \in Nat
    BY <1>1, <1>5, <2>1, SubSound DEF CallInv, GoodInv, ProbeInv, Sound, SubBreaker
  <2>3. QED
    BY <1>2, <2>2, StatesDistinct DEF One
<1>7. GoodInv(k)'
  BY <1>2, <1>3, <1>6, StatesDistinct DEF GoodInv, RecordedTo
<1>8. Sub(k).state = HalfOpen /\ new.state = Closed =>
         hist'[k].probes.good = HalfOpenAllowed /\ hist'[k].probes.bad = 0
  BY <1>2, <1>6, StatesDistinct DEF RecordedTo
<1>9. ASSUME NEW y \in Keys \ {k}
      PROVE  GoodInv(y)' /\ ~(Sub(y).state = HalfOpen /\ Sub(y)'.state = Closed)
  <2>1. GoodInv(y)
    BY DEF ProbeInv
  <2>2. QED
    BY <1>2, <1>3, <2>1, StatesDistinct DEF GoodInv
<1>10. ASSUME NEW x \in DOMAIN calls', NEW y \in Keys PROVE CallInv(x, y)'
  <2>1. CallInv(x, y) /\ calls'[x] = calls[x] /\ calls[x].at \in Nat
    BY <1>4 DEF ProbeInv, TypeInv, TypeOK, Call
  <2>2. CASE y = k
    <3>1. new.state = HalfOpen => Sub(k).state = HalfOpen
      BY <1>2, StatesDistinct DEF RecordedTo
    <3>2. new.state = Open => \/ Sub(k).state = Open /\ new.openUntil = Sub(k).openUntil
                              \/ new.openUntil = now + OpenDuration
      BY <1>2, StatesDistinct DEF RecordedTo
    <3>3. calls[x].at <= now => calls[x].at + OpenDuration <= now + OpenDuration
      BY <1>5, <2>1, SettingsAssumption
    <3>4. QED
      BY <1>2, <1>3, <2>1, <2>2, <3>1, <3>2, <3>3 DEF CallInv
  <2>3. CASE y # k
    BY <1>2, <1>3, <2>1, <2>3 DEF CallInv
  <2>4. QED
    BY <2>2, <2>3
<1>11. QED
  BY <1>3, <1>7, <1>8, <1>9, <1>10

LEMMA TickProbes ==
    ASSUME ProbeInv, Tick
    PROVE  /\ \A x \in DOMAIN calls', y \in Keys : CallInv(x, y)'
           /\ \A y \in Keys : GoodInv(y)'
<1>1. /\ now \in Nat /\ now' = now + 1 /\ calls' = calls /\ hist' = hist
      /\ \A x \in DOMAIN calls : now < calls[x].at + RequestTimeout
  BY DEF Tick, ProbeInv, TypeInv, TypeOK
<1>2. ASSUME NEW y \in Keys PROVE GoodInv(y)'
  <2>1. GoodInv(y) /\ SameControl(Sub(y)', Sub(y))
    BY TickSub DEF ProbeInv
  <2>2. QED
    BY <1>1, <2>1 DEF GoodInv, SameControl
<1>3. ASSUME NEW x \in DOMAIN calls', NEW y \in Keys PROVE CallInv(x, y)'
  <2>1. CallInv(x, y) /\ calls[x].at \in Nat /\ SameControl(Sub(y)', Sub(y))
    BY <1>1, TickSub DEF ProbeInv, TypeInv, TypeOK, Call
  <2>2. now < calls[x].at + RequestTimeout
    BY <1>1
  <2>3. now' <= calls[x].at + RequestTimeout
    BY <1>1, <2>1, <2>2, SettingsAssumption
  <2>4. calls[x].at <= now => calls[x].at <= now'
    BY <1>1, <2>1
  <2>5. QED
    BY <1>1, <2>1, <2>3, <2>4 DEF CallInv, SameControl
<1>4. QED
  BY <1>2, <1>3

LEMMA ProbeInitial == Init => ProbeInv
<1> SUFFICES ASSUME Init PROVE ProbeInv
  OBVIOUS
<1>1. ASSUME NEW k \in Keys PROVE GoodInv(k)
  <2>1. Sub(k).state = Closed
    BY DEF Init, Sub, newSubBreaker
  <2>2. QED
    BY <2>1, StatesDistinct DEF GoodInv
<1>2. DOMAIN calls = {}
  BY DEF Init
<1>3. QED
  BY <1>1, <1>2, TypeInitial DEF ProbeInv

LEMMA ProbeStep ==
    ASSUME RequestTimeout <= OpenDuration
    PROVE  ProbeInv /\ [Next]_vars => ProbeInv'
<1> SUFFICES ASSUME ProbeInv, [Next]_vars
             PROVE  /\ \A x \in DOMAIN calls', y \in Keys : CallInv(x, y)'
                    /\ \A y \in Keys : GoodInv(y)'
  BY TypeStep DEF ProbeInv
<1> DEFINE Goal == /\ \A x \in DOMAIN calls', y \in Keys : CallInv(x, y)'
                   /\ \A y \in Keys : GoodInv(y)'
<1>1. CASE Tick
  BY <1>1, TickProbes
<1>2. ASSUME NEW r \in Callers, NEW k \in Keys, Allowed(r, k)
      PROVE  Goal
  <2>1. PICK new : /\ r \notin DOMAIN calls
                   /\ Sound(new)
                   /\ \/ Refuse(k, new) /\ RefusedTo(Sub(k), new)
                      \/ Admit(r, k, new) /\ AdmittedTo(Sub(k), new)
    BY <1>2, AllowedCases DEF ProbeInv
  <2>2. QED
    BY <2>1, RefuseProbes, AdmitProbes
<1>3. ASSUME NEW r \in Callers, NEW result \in Metrics, Record(r, result)
      PROVE  Goal
  BY <1>3, RecordProbes
<1>4. CASE UNCHANGED vars
  BY <1>4 DEF vars, ProbeInv, CallInv, GoodInv, Sub, newSubBreaker
<1>5. QED
  BY <1>1, <1>2, <1>3, <1>4 DEF Next

(* Where a request ends no later than the cool-down it may fall into, a    *)
(* half-open endpoint has only probes under way.                           *)
THEOREM OnlyProbes ==
    ASSUME RequestTimeout <= OpenDuration
    PROVE  Spec => []OnlyProbesUnderWay
<1>1. ProbeInv => OnlyProbesUnderWay
  BY DEF ProbeInv, CallInv, OnlyProbesUnderWay, Sub, TypeInv, TypeOK
<1>2. QED
  BY <1>1, ProbeInitial, ProbeStep, PTL DEF Spec

(* Under the same condition a breaker recovers exactly when all the probes *)
(* of the half-open period succeeded.                                      *)
THEOREM ClosingCorrect ==
    ASSUME RequestTimeout <= OpenDuration
    PROVE  Spec => ClosedByProbes
<1> DEFINE Closing ==
       \A k \in DOMAIN breakers :
          breakers[k].state = HalfOpen /\ breakers'[k].state = Closed =>
             /\ hist'[k].probes.good = HalfOpenAllowed
             /\ hist'[k].probes.bad = 0
<1>1. ASSUME ProbeInv, [Next]_vars PROVE Closing
  <2>0. DOMAIN breakers \subseteq Keys
    BY <1>1 DEF ProbeInv, TypeInv, TypeOK
  <2>1. CASE Tick \/ UNCHANGED vars
    BY <2>1, StatesDistinct DEF Tick, vars
  <2>2. ASSUME NEW r \in Callers, NEW k \in Keys, Allowed(r, k)
        PROVE  Closing
    <3>1. PICK new : /\ Store(k, new)
                     /\ RefusedTo(Sub(k), new) \/ AdmittedTo(Sub(k), new)
      BY <1>1, <2>2, AllowedCases DEF ProbeInv, Refuse, Admit
    <3>2. ~(Sub(k).state = HalfOpen /\ new.state = Closed)
      BY <3>1, StatesDistinct DEF RefusedTo, AdmittedTo
    <3>3. QED
      BY <3>1, <3>2, StatesDistinct DEF Store, Sub
  <2>3. ASSUME NEW r \in Callers, NEW result \in Metrics, Record(r, result)
        PROVE  Closing
    <3>1. \A y \in Keys : Sub(y).state = HalfOpen /\ Sub(y)'.state = Closed =>
             hist'[y].probes.good = HalfOpenAllowed /\ hist'[y].probes.bad = 0
      BY <1>1, <2>3, RecordProbes
    <3>2. DOMAIN breakers \subseteq DOMAIN breakers'
      BY <2>3 DEF Record, Store
    <3>3. \A y \in DOMAIN breakers : Sub(y) = breakers[y] /\ Sub(y)' = breakers'[y]
      BY <3>2 DEF Sub
    <3>4. QED
      BY <2>0, <3>1, <3>3
  <2>4. QED
    BY <1>1, <2>1, <2>2, <2>3 DEF Next
<1>2. ProbeInv /\ [Next]_vars => [Closing]_vars
  BY <1>1
<1>3. QED
  BY <1>2, ProbeInitial, ProbeStep, PTL DEF Spec, ClosedByProbes

-----------------------------------------------------------------------------
(* What the window counts, and what it may trip on. *)

(* A set of naturals with 0 and with the successors of its members.  The   *)
(* least number outside it would have its predecessor inside.              *)
LEMMA SetInduction ==
    ASSUME NEW T \in SUBSET Nat, 0 \in T, \A n \in T : n + 1 \in T
    PROVE  T = Nat
<1> DEFINE R == OpToRel(<, Nat)
           U == Nat \ T
<1>1. ASSUME U # {} PROVE FALSE
  <2>1. IsWellFoundedOn(R, Nat)
    BY NatLessThanWellFounded
  <2> HIDE DEF R
  <2>2. PICK x \in U : \A y \in U : ~ (<<y, x>> \in R)
    BY <1>1, <2>1, WFMin
  <2>3. x # 0 /\ x \in Nat /\ x - 1 \in Nat
    BY <2>2
  <2>4. <<x - 1, x>> \in R
    BY <2>3 DEF R, OpToRel
  <2>5. x - 1 \in T
    BY <2>2, <2>3, <2>4
  <2>6. x \in T
    BY <2>3, <2>5
  <2>7. QED
    BY <2>2, <2>6
<1>2. QED
  BY <1>1

Loop(counts, sum) ==
    sum = [n \in 0 .. Len(counts) |-> IF n = 0 THEN 0 ELSE sum[n - 1] + counts[n]]

(* The first m rounds of the loop. *)
Rounds(counts, m, sum) ==
    \A n \in 0 .. m : sum[n] = IF n = 0 THEN 0 ELSE sum[n - 1] + counts[n]

Summed(counts, m) == \E sum \in [0 .. m -> Nat] : Rounds(counts, m, sum)

(* The loop is defined: there are partial sums for each length. *)
LEMMA LoopDefined ==
    ASSUME NEW counts \in Seq(Nat)
    PROVE  \E sum \in [0 .. Len(counts) -> Nat] : Loop(counts, sum)
<1> DEFINE T == {m \in Nat : m <= Len(counts) => Summed(counts, m)}
<1>1. 0 \in T
  <2>1. [n \in 0 .. 0 |-> 0] \in [0 .. 0 -> Nat] /\ Rounds(counts, 0, [n \in 0 .. 0 |-> 0])
    BY DEF Rounds
  <2>2. QED
    BY <2>1 DEF Summed
<1>2. ASSUME NEW m \in T PROVE m + 1 \in T
  <2>0. m \in Nat /\ Len(counts) \in Nat
    BY <1>2, LenProperties
  <2>1. SUFFICES ASSUME m + 1 <= Len(counts)
                 PROVE  Summed(counts, m + 1)
    BY <2>0
  <2>2. PICK old \in [0 .. m -> Nat] : Rounds(counts, m, old)
    <3>1. m <= Len(counts)
      BY <2>0, <2>1
    <3>2. QED
      BY <1>2, <3>1, Zenon DEF Summed
  <2>3. counts[m + 1] \in Nat
    BY <2>0, <2>1, ElementOfSeq
  <2> DEFINE new == [n \in 0 .. m + 1 |-> IF n = m + 1 THEN old[m] + counts[m + 1] ELSE old[n]]
  <2>4. new \in [0 .. m + 1 -> Nat]
    BY <2>0, <2>2, <2>3
  <2>5. ASSUME NEW n \in 0 .. m + 1
        PROVE  new[n] = IF n = 0 THEN 0 ELSE new[n - 1] + counts[n]
    <3>1. CASE n = m + 1
      <4>1. n # 0 /\ n - 1 = m /\ n - 1 \in 0 .. m + 1 /\ n - 1 # m + 1
        BY <2>0, <3>1
      <4>2. new[n - 1] = old[m] /\ new[n] = old[m] + counts[m + 1]
        BY <3>1, <4>1
      <4>3. QED
        BY <3>1, <4>1, <4>2
    <3>2. CASE n # m + 1
      <4>1. n \in 0 .. m /\ (n # 0 => n - 1 \in 0 .. m)
        BY <2>0, <3>2
      <4>2. new[n] = old[n] /\ (n # 0 => new[n - 1] = old[n - 1])
        BY <2>0, <3>2, <4>1
      <4>3. QED
        BY <2>2, <4>1, <4>2 DEF Rounds
    <3>3. QED
      BY <3>1, <3>2
  <2>6. QED
    BY <2>4, <2>5 DEF Rounds, Summed
<1>3. Len(counts) \in T
  BY <1>1, <1>2, SetInduction, LenProperties
<1>4. PICK sum \in [0 .. Len(counts) -> Nat] : Rounds(counts, Len(counts), sum)
  BY <1>3, LenProperties DEF Summed
<1>5. Loop(counts, sum)
  BY <1>4 DEF Loop, Rounds
<1>6. QED
  BY <1>5

Partial(counts) == CHOOSE sum : Loop(counts, sum)

LEMMA PartialSums ==
    ASSUME NEW counts \in Seq(Nat)
    PROVE  /\ SumOf(counts) = Partial(counts)[Len(counts)]
           /\ Partial(counts) \in [0 .. Len(counts) -> Nat]
           /\ Partial(counts)[0] = 0
           /\ \A n \in 1 .. Len(counts) :
                 Partial(counts)[n] = Partial(counts)[n - 1] + counts[n]
<1> DEFINE sum == Partial(counts)
           T   == {n \in Nat : n <= Len(counts) => sum[n] \in Nat}
<1>0. Len(counts) \in Nat
  BY LenProperties
<1>1. Loop(counts, sum)
  BY LoopDefined DEF Partial
<1>2. SumOf(counts) = sum[Len(counts)]
  BY DEF SumOf, Partial, Loop
<1> HIDE DEF sum
<1>3. /\ DOMAIN sum = 0 .. Len(counts)
      /\ sum[0] = 0
      /\ \A n \in 1 .. Len(counts) : sum[n] = sum[n - 1] + counts[n]
      /\ sum = [n \in 0 .. Len(counts) |-> sum[n]]
  BY <1>0, <1>1 DEF Loop
<1>4. T = Nat
  <2>1. 0 \in T
    BY <1>3
  <2>2. ASSUME NEW n \in T PROVE n + 1 \in T
    <3>1. n \in Nat
      BY <2>2
    <3>2. CASE n + 1 <= Len(counts)
      <4>1. sum[n] \in Nat /\ n + 1 \in 1 .. Len(counts) /\ (n + 1) - 1 = n
        BY <1>0, <2>2, <3>1, <3>2
      <4>2. sum[n + 1] = sum[n] + counts[n + 1] /\ counts[n + 1] \in Nat
        BY <1>3, <3>1, <4>1, ElementOfSeq
      <4>3. QED
        BY <3>1, <4>1, <4>2
    <3>3. QED
      BY <3>1, <3>2
  <2>3. QED
    BY <2>1, <2>2, SetInduction
<1>5. \A n \in 0 .. Len(counts) : sum[n] \in Nat
  BY <1>0, <1>4
<1>6. sum \in [0 .. Len(counts) -> Nat]
  BY <1>3, <1>5
<1>7. QED
  BY <1>2, <1>3, <1>6 DEF sum

(* Zeros at the end add nothing. *)
LEMMA SumPadded ==
    ASSUME NEW short \in Seq(Nat), NEW long \in Seq(Nat), Len(short) <= Len(long),
           \A i \in 1 .. Len(long) :
              long[i] = IF i <= Len(short) THEN short[i] ELSE 0
    PROVE  SumOf(long) = SumOf(short)
<1> DEFINE a == Partial(short)
           b == Partial(long)
           T == {n \in Nat : n <= Len(long) =>
                    b[n] = a[IF n <= Len(short) THEN n ELSE Len(short)]}
<1>0. Len(short) \in Nat /\ Len(long) \in Nat
  BY LenProperties
<1>1. /\ a[0] = 0 /\ \A n \in 1 .. Len(short) : a[n] = a[n - 1] + short[n]
      /\ a \in [0 .. Len(short) -> Nat]
      /\ SumOf(short) = a[Len(short)]
  BY PartialSums
<1>2. /\ b[0] = 0 /\ \A n \in 1 .. Len(long) : b[n] = b[n - 1] + long[n]
      /\ SumOf(long) = b[Len(long)]
  BY PartialSums
<1> HIDE DEF a, b
<1>3. 0 \in T
  BY <1>0, <1>1, <1>2
<1>4. ASSUME NEW n \in T PROVE n + 1 \in T
  <2>1. SUFFICES ASSUME n + 1 <= Len(long)
                 PROVE  b[n + 1] = a[IF n + 1 <= Len(short) THEN n + 1 ELSE Len(short)]
    OBVIOUS
  <2>2. b[n + 1] = b[n] + long[n + 1] /\ b[n] = a[IF n <= Len(short) THEN n ELSE Len(short)]
    BY <2>1, <1>2, <1>0
  <2>3. CASE n + 1 <= Len(short)
    BY <2>1, <2>2, <2>3, <1>0, <1>1
  <2>4. CASE ~(n + 1 <= Len(short))
    <3>1. long[n + 1] = 0
      BY <2>1, <2>4, <1>0
    <3>2. (IF n <= Len(short) THEN n ELSE Len(short)) = Len(short)
      BY <2>4, <1>0
    <3>3. a[Len(short)] \in Nat
      BY <1>0, <1>1
    <3>4. QED
      BY <2>2, <2>4, <3>1, <3>2, <3>3
  <2>5. QED
    BY <2>3, <2>4
<1>5. Len(long) \in T
  BY <1>0, <1>3, <1>4, SetInduction
<1>6. QED
  BY <1>0, <1>1, <1>2, <1>5

(* One more count is added. *)
LEMMA SumAppended ==
    ASSUME NEW counts \in Seq(Nat), NEW more \in Seq(Nat), Len(more) = Len(counts) + 1,
           \A i \in 1 .. Len(counts) : more[i] = counts[i]
    PROVE  SumOf(more) = SumOf(counts) + more[Len(more)]
<1> DEFINE a == Partial(counts)
           b == Partial(more)
           T == {n \in Nat : n <= Len(counts) => b[n] = a[n]}
<1>0. Len(counts) \in Nat
  BY LenProperties
<1>1. /\ a[0] = 0 /\ \A n \in 1 .. Len(counts) : a[n] = a[n - 1] + counts[n]
      /\ SumOf(counts) = a[Len(counts)]
  BY PartialSums
<1>2. /\ b[0] = 0 /\ \A n \in 1 .. Len(more) : b[n] = b[n - 1] + more[n]
      /\ SumOf(more) = b[Len(more)]
  BY <1>0, PartialSums
<1> HIDE DEF a, b
<1>3. 0 \in T
  BY <1>1, <1>2
<1>4. ASSUME NEW n \in T PROVE n + 1 \in T
  BY <1>0, <1>1, <1>2
<1>5. Len(counts) \in T
  BY <1>0, <1>3, <1>4, SetInduction
<1>6. QED
  BY <1>0, <1>1, <1>2, <1>5
-----------------------------------------------------------------------------
(* The window and the results it stands for *)

Totals(units)   == [i \in 1 .. Len(units) |-> units[i].total]
Failures(units) == [i \in 1 .. Len(units) |-> units[i].failed]

LEMMA ColumnsType ==
    ASSUME NEW units \in Seq(Unit)
    PROVE  /\ Totals(units) \in Seq(Nat) /\ Len(Totals(units)) = Len(units)
           /\ Failures(units) \in Seq(Nat) /\ Len(Failures(units)) = Len(units)
           /\ \A i \in 1 .. Len(units) : /\ Totals(units)[i] = units[i].total
                                         /\ Failures(units)[i] = units[i].failed
<1>1. Len(units) \in Nat /\ \A i \in 1 .. Len(units) : units[i] \in Unit
  BY LenProperties, ElementOfSeq
<1>2. Totals(units) \in [1 .. Len(units) -> Nat] /\ Failures(units) \in [1 .. Len(units) -> Nat]
  BY <1>1 DEF Totals, Failures, Unit
<1>3. QED
  BY <1>1, <1>2, SeqDef, LenProperties DEF Totals, Failures

LEMMA SumType ==
    ASSUME NEW counts \in Seq(Nat)
    PROVE  SumOf(counts) \in Nat
BY PartialSums, LenProperties

LEMMA SummaryType ==
    ASSUME NEW s \in SubBreaker
    PROVE  /\ Total(s) = SumOf(Totals(s.units)) + s.current.total
           /\ Failed(s) = SumOf(Failures(s.units)) + s.current.failed
           /\ SumOf(Totals(s.units)) \in Nat /\ SumOf(Failures(s.units)) \in Nat
           /\ s.current.total \in Nat /\ s.current.failed \in Nat
           /\ Total(s) \in Nat /\ Failed(s) \in Nat
<1>1. s.units \in Seq(Unit) /\ s.current \in Unit
  BY DEF SubBreaker
<1>2. /\ Total(s) = SumOf(Totals(s.units)) + s.current.total
      /\ Failed(s) = SumOf(Failures(s.units)) + s.current.failed
  BY DEF Total, Failed, Totals, Failures
<1>3. SumOf(Totals(s.units)) \in Nat /\ SumOf(Failures(s.units)) \in Nat
  BY <1>1, ColumnsType, SumType
<1>4. QED
  BY <1>1, <1>2, <1>3 DEF Unit

(* Empty buckets add nothing to either sum. *)
LEMMA PushEmptySums ==
    ASSUME NEW units \in Seq(Unit), Len(units) <= WindowCapacity, NEW n \in Nat
    PROVE  /\ SumOf(Totals(PushEmpty(units, n))) = SumOf(Totals(units))
           /\ SumOf(Failures(PushEmpty(units, n))) = SumOf(Failures(units))
<1> DEFINE p    == PushEmpty(units, n)
           room == WindowCapacity - Len(units)
           m    == IF n < room THEN n ELSE room
           pad  == [i \in 1 .. m |-> EmptyUnit]
<1>0. p \in Seq(Unit) /\ Len(units) \in Nat
  BY PushEmptyType, LenProperties
<1>1. m \in Nat
  BY <1>0, SettingsAssumption
<1>2. p = units \o pad
  BY DEF PushEmpty
<1> HIDE DEF m
<1>3. pad \in Seq(Unit) /\ Len(pad) = m
  <2>1. pad \in [1 .. m -> Unit]
    BY EmptyUnitType
  <2>2. QED
    BY <1>1, <2>1, SeqDef, LenProperties
<1>4. /\ Len(p) = Len(units) + m
      /\ \A i \in 1 .. Len(p) : p[i] = IF i <= Len(units) THEN units[i] ELSE EmptyUnit
  <2>1. \A i \in 1 .. m : pad[i] = EmptyUnit
    OBVIOUS
  <2> HIDE DEF pad, p
  <2>2. /\ Len(p) = Len(units) + Len(pad)
        /\ \A i \in 1 .. Len(units) + Len(pad) :
              p[i] = IF i <= Len(units) THEN units[i] ELSE pad[i - Len(units)]
    BY <1>2, <1>3, ConcatProperties
  <2>3. QED
    BY <1>0, <1>1, <1>3, <2>1, <2>2
<1> HIDE DEF p, pad
<1>5. EmptyUnit.total = 0 /\ EmptyUnit.failed = 0
  BY DEF EmptyUnit
<1>6. SumOf(Totals(p)) = SumOf(Totals(units))
  <2> DEFINE c == Totals(units)
             d == Totals(p)
  <2>1. /\ c \in Seq(Nat) /\ Len(c) = Len(units)
        /\ \A i \in 1 .. Len(units) : c[i] = units[i].total
    BY ColumnsType
  <2>2. /\ d \in Seq(Nat) /\ Len(d) = Len(p)
        /\ \A i \in 1 .. Len(p) : d[i] = p[i].total
    BY <1>0, ColumnsType
  <2> HIDE DEF c, d
  <2>3. ASSUME NEW i \in 1 .. Len(d)
        PROVE  d[i] = IF i <= Len(c) THEN c[i] ELSE 0
    <3>1. d[i] = (IF i <= Len(units) THEN units[i] ELSE EmptyUnit).total
      BY <1>4, <2>2
    <3>2. CASE i <= Len(units)
      <4>1. i \in 1 .. Len(units)
        BY <1>0, <1>1, <1>4, <2>2, <3>2
      <4>2. QED
        BY <2>1, <3>1, <3>2, <4>1
    <3>3. CASE ~(i <= Len(units))
      BY <1>5, <2>1, <3>1, <3>3
    <3>4. QED
      BY <3>2, <3>3
  <2>4. SumOf(d) = SumOf(c)
    <3>1. Len(c) <= Len(d)
      BY <1>0, <1>1, <1>4, <2>1, <2>2
    <3>2. QED
      BY <2>1, <2>2, <2>3, <3>1, SumPadded
  <2>5. QED
    BY <2>4 DEF c, d
<1>7. SumOf(Failures(p)) = SumOf(Failures(units))
  <2> DEFINE c == Failures(units)
             d == Failures(p)
  <2>1. /\ c \in Seq(Nat) /\ Len(c) = Len(units)
        /\ \A i \in 1 .. Len(units) : c[i] = units[i].failed
    BY ColumnsType
  <2>2. /\ d \in Seq(Nat) /\ Len(d) = Len(p)
        /\ \A i \in 1 .. Len(p) : d[i] = p[i].failed
    BY <1>0, ColumnsType
  <2> HIDE DEF c, d
  <2>3. ASSUME NEW i \in 1 .. Len(d)
        PROVE  d[i] = IF i <= Len(c) THEN c[i] ELSE 0
    <3>1. d[i] = (IF i <= Len(units) THEN units[i] ELSE EmptyUnit).failed
      BY <1>4, <2>2
    <3>2. CASE i <= Len(units)
      <4>1. i \in 1 .. Len(units)
        BY <1>0, <1>1, <1>4, <2>2, <3>2
      <4>2. QED
        BY <2>1, <3>1, <3>2, <4>1
    <3>3. CASE ~(i <= Len(units))
      BY <1>5, <2>1, <3>1, <3>3
    <3>4. QED
      BY <3>2, <3>3
  <2>4. SumOf(d) = SumOf(c)
    <3>1. Len(c) <= Len(d)
      BY <1>0, <1>1, <1>4, <2>1, <2>2
    <3>2. QED
      BY <2>1, <2>2, <2>3, <3>1, SumPadded
  <2>5. QED
    BY <2>4 DEF c, d
<1>8. QED
  BY <1>6, <1>7 DEF p

(* A full ring refuses the bucket, and its counts are lost. *)
LEMMA EnqueueSums ==
    ASSUME NEW units \in Seq(Unit), NEW u \in Unit
    PROVE  /\ SumOf(Totals(Enqueue(units, u))) <= SumOf(Totals(units)) + u.total
           /\ SumOf(Failures(Enqueue(units, u))) <= SumOf(Failures(units)) + u.failed
<1>0. /\ SumOf(Totals(units)) \in Nat /\ SumOf(Failures(units)) \in Nat
      /\ u.total \in Nat /\ u.failed \in Nat
  BY ColumnsType, SumType DEF Unit
<1>1. CASE Enqueue(units, u) = units
  BY <1>0, <1>1
<1>2. CASE Enqueue(units, u) = Append(units, u)
  <2> DEFINE e == Append(units, u)
  <2>1. /\ e \in Seq(Unit) /\ Len(e) = Len(units) + 1 /\ Len(units) \in Nat
        /\ \A i \in 1 .. Len(units) : e[i] = units[i]
        /\ e[Len(units) + 1] = u
    BY AppendProperties, LenProperties
  <2> HIDE DEF e
  <2>2. SumOf(Totals(e)) = SumOf(Totals(units)) + u.total
    <3> DEFINE c == Totals(units)
               d == Totals(e)
    <3>1. /\ c \in Seq(Nat) /\ Len(c) = Len(units)
          /\ \A i \in 1 .. Len(units) : c[i] = units[i].total
      BY ColumnsType
    <3>2. /\ d \in Seq(Nat) /\ Len(d) = Len(e)
          /\ \A i \in 1 .. Len(e) : d[i] = e[i].total
      BY <2>1, ColumnsType
    <3> HIDE DEF c, d
    <3>3. ASSUME NEW i \in 1 .. Len(c) PROVE d[i] = c[i]
      <4>1. i \in 1 .. Len(units) /\ i \in 1 .. Len(e)
        BY <2>1, <3>1
      <4>2. c[i] = units[i].total /\ d[i] = e[i].total /\ e[i] = units[i]
        BY <2>1, <3>1, <3>2, <4>1
      <4>3. QED
        BY <4>2
    <3>4. d[Len(d)] = u.total
      <4>1. Len(units) + 1 \in 1 .. Len(e)
        BY <2>1
      <4>2. QED
        BY <2>1, <3>2, <4>1
    <3>5. SumOf(d) = SumOf(c) + d[Len(d)]
      BY <2>1, <3>1, <3>2, <3>3, SumAppended
    <3>6. QED
      BY <3>4, <3>5 DEF c, d
  <2>3. SumOf(Failures(e)) = SumOf(Failures(units)) + u.failed
    <3> DEFINE c == Failures(units)
               d == Failures(e)
    <3>1. /\ c \in Seq(Nat) /\ Len(c) = Len(units)
          /\ \A i \in 1 .. Len(units) : c[i] = units[i].failed
      BY ColumnsType
    <3>2. /\ d \in Seq(Nat) /\ Len(d) = Len(e)
          /\ \A i \in 1 .. Len(e) : d[i] = e[i].failed
      BY <2>1, ColumnsType
    <3> HIDE DEF c, d
    <3>3. ASSUME NEW i \in 1 .. Len(c) PROVE d[i] = c[i]
      <4>1. i \in 1 .. Len(units) /\ i \in 1 .. Len(e)
        BY <2>1, <3>1
      <4>2. c[i] = units[i].failed /\ d[i] = e[i].failed /\ e[i] = units[i]
        BY <2>1, <3>1, <3>2, <4>1
      <4>3. QED
        BY <4>2
    <3>4. d[Len(d)] = u.failed
      <4>1. Len(units) + 1 \in 1 .. Len(e)
        BY <2>1
      <4>2. QED
        BY <2>1, <3>2, <4>1
    <3>5. SumOf(d) = SumOf(c) + d[Len(d)]
      BY <2>1, <3>1, <3>2, <3>3, SumAppended
    <3>6. QED
      BY <3>4, <3>5 DEF c, d
  <2>4. QED
    BY <1>0, <1>2, <2>2, <2>3 DEF e
<1>3. QED
  BY <1>1, <1>2 DEF Enqueue

(* new counts nothing that old does not count. *)
Within(new, old) == Total(new) <= Total(old) /\ Failed(new) <= Failed(old)

LEMMA AdvanceWithin ==
    ASSUME now \in Nat, NEW s, Sound(s)
    PROVE  Within(advance(s), s)
<1> DEFINE elapsed == (now - s.lastTick) \div Interval
<1>0. s \in SubBreaker /\ Len(s.units) <= WindowCapacity /\ elapsed \in Nat
  BY DivNat, SettingsAssumption DEF Interval, Sound, SubBreaker
<1>1. /\ s.units \in Seq(Unit) /\ s.current \in Unit
      /\ Total(s) \in Nat /\ Failed(s) \in Nat
  BY <1>0, SummaryType DEF SubBreaker
<1>2. CASE elapsed = 0
  BY <1>1, <1>2 DEF advance, Within
<1>3. CASE elapsed # 0
  <2> DEFINE pushed == PushEmpty(s.units, elapsed - 1)
             t == [s EXCEPT !.units = Enqueue(pushed, s.current),
                            !.current = EmptyUnit, !.lastTick = now]
  <2>1. advance(s) = t
    BY <1>3 DEF advance
  <2>2. elapsed - 1 \in Nat
    BY <1>0, <1>3
  <2> HIDE DEF elapsed
  <2>3. pushed \in Seq(Unit)
    BY <1>0, <1>1, <2>2, PushEmptyType
  <2>4. /\ SumOf(Totals(pushed)) = SumOf(Totals(s.units))
        /\ SumOf(Failures(pushed)) = SumOf(Failures(s.units))
    BY <1>0, <1>1, <2>2, PushEmptySums
  <2> HIDE DEF pushed
  <2>5. t.units = Enqueue(pushed, s.current) /\ t.current = EmptyUnit
    BY <1>0 DEF SubBreaker
  <2>6. t \in SubBreaker
    BY <2>1, AdvanceSound DEF Sound
  <2> HIDE DEF t
  <2>7. /\ SumOf(Totals(t.units)) <= SumOf(Totals(s.units)) + s.current.total
        /\ SumOf(Failures(t.units)) <= SumOf(Failures(s.units)) + s.current.failed
    BY <1>1, <2>3, <2>4, <2>5, EnqueueSums
  <2>8. t.current.total = 0 /\ t.current.failed = 0
    BY <2>5 DEF EmptyUnit
  <2>9. /\ Total(t) = SumOf(Totals(t.units)) /\ Failed(t) = SumOf(Failures(t.units))
    BY <2>6, <2>8, SummaryType
  <2>10. QED
    BY <1>0, <2>1, <2>7, <2>9, SummaryType DEF Within
<1>4. QED
  BY <1>2, <1>3

(* What the control fields are does not matter to the sums. *)
LEMMA SameWindow ==
    ASSUME NEW s, NEW t, t.units = s.units, t.current = s.current
    PROVE  Total(t) = Total(s) /\ Failed(t) = Failed(s)
BY DEF Total, Failed
LEMMA NothingSummed == SumOf(Totals(<<>>)) = 0 /\ SumOf(Failures(<<>>)) = 0
<1>1. /\ <<>> \in Seq(Unit) /\ Len(<<>>) = 0
  BY EmptySeq
<1>2. /\ Totals(<<>>) \in Seq(Nat) /\ Len(Totals(<<>>)) = 0
      /\ Failures(<<>>) \in Seq(Nat) /\ Len(Failures(<<>>)) = 0
  BY <1>1, ColumnsType
<1>3. QED
  BY <1>2, PartialSums

(* Whatever Allowed answers, its key has the window advance left, and it   *)
(* opens from Closed on that window only.                                  *)
LEMMA AllowedWindow ==
    ASSUME TypeInv, NEW r \in Callers, NEW k \in Keys, Allowed(r, k)
    PROVE  LET a == advance(Sub(k))
           IN  /\ Sub(k)'.units = a.units
               /\ Sub(k)'.current = a.current
               /\ Sub(k).state = Closed /\ Sub(k)'.state = Open => ShouldTrip(a)
<1> DEFINE a == advance(Sub(k))
           s == CooledDown(a)
<1>0. now \in Nat
  BY DEF TypeInv, TypeOK
<1>1. Sound(a) /\ SameControl(a, Sub(k))
  BY <1>0, SubSound, AdvanceSound
<1>2. Sound(s) /\ s \in SubBreaker /\ a \in SubBreaker
  BY <1>0, <1>1, CooledDownCases DEF Sound
<1>3. s.units = a.units /\ s.current = a.current /\ (a.state = Closed => s = a)
  BY <1>2, StatesDistinct DEF CooledDown, SubBreaker
<1>4. AllowedClosed(r, k, s) \/ AllowedOpen(k, s) \/ AllowedHalfOpen(r, k, s)
  BY DEF Allowed
<1> DEFINE u == [s EXCEPT !.probeUsed = @ + 1]
<1>5. /\ Opened(s).units = s.units /\ Opened(s).current = s.current
      /\ u.units = s.units /\ u.current = s.current
      /\ u.state = s.state
  BY <1>2 DEF Opened, SubBreaker
<1> HIDE DEF a, s, u
<1>6. \A x : Refuse(k, x) \/ Admit(r, k, x) => Sub(k)' = x
  BY StoreSub DEF Refuse, Admit
<1>7. CASE AllowedClosed(r, k, s)
  <2>1. CASE ~ShouldTrip(s) /\ Admit(r, k, s)
    BY <1>3, <1>6, <1>7, <2>1, StatesDistinct DEF AllowedClosed, a
  <2>2. CASE ShouldTrip(s) /\ Refuse(k, Opened(s))
    <3>1. Sub(k)' = Opened(s)
      BY <1>6, <2>2
    <3>2. Sub(k).state = Closed => ShouldTrip(a)
      BY <1>1, <1>3, <2>2 DEF SameControl
    <3>3. QED
      BY <1>3, <1>5, <3>1, <3>2 DEF a
  <2>3. QED
    BY <1>7, <2>1, <2>2 DEF AllowedClosed
<1>8. CASE AllowedOpen(k, s)
  <2>1. Sub(k)' = s /\ s.state = Open
    BY <1>6, <1>8 DEF AllowedOpen
  <2>2. Sub(k).state # Closed
    BY <1>1, <1>3, <2>1, StatesDistinct DEF SameControl
  <2>3. QED
    BY <1>3, <2>1, <2>2 DEF a
<1>9. CASE AllowedHalfOpen(r, k, s)
  <2>1. Sub(k)' = Opened(s) \/ Sub(k)' = s \/ Sub(k)' = u
    BY <1>6, <1>9 DEF AllowedHalfOpen, u
  <2>2. Sub(k).state # Closed
    BY <1>1, <1>3, <1>9, StatesDistinct DEF SameControl, AllowedHalfOpen
  <2>3. QED
    BY <1>3, <1>5, <2>1, <2>2 DEF a
<1>10. QED
  BY <1>4, <1>7, <1>8, <1>9

(* A result is counted in the window once; a recovery clears the window.   *)
LEMMA RecordedWindow ==
    ASSUME now \in Nat, NEW s, Sound(s), NEW result \in Metrics
    PROVE  LET new == recorded(s, result)
           IN  \/ /\ Entered(Closed, s, new)
                  /\ Total(new) = 0 /\ Failed(new) = 0
               \/ /\ ~Entered(Closed, s, new)
                  /\ Total(new) <= Total(s) + 1
                  /\ Failed(new) <= Failed(s) + One(result \in Infra)
<1> DEFINE a == advance(s)
           c == [a EXCEPT !.current = Counted(@, result)]
           j == Judged(c, result)
           new == recorded(s, result)
<1>0. /\ a \in SubBreaker /\ s \in SubBreaker /\ SameControl(a, s) /\ Within(a, s)
      /\ Sound(new) /\ RecordedTo(s, new, result)
  BY AdvanceSound, AdvanceWithin, RecordCases DEF Sound
<1> HIDE DEF a
<1>1. c \in SubBreaker
  <2>1. Counted(a.current, result) \in Unit
    BY <1>0, CountedType DEF SubBreaker
  <2>2. QED
    BY <1>0, <2>1 DEF SubBreaker
<1>2. /\ c.state = s.state /\ c.units = a.units
      /\ c.current.total = a.current.total + 1
      /\ c.current.failed = a.current.failed + One(result \in Infra)
  BY <1>0 DEF SubBreaker, SameControl, Counted
<1>3. One(result \in Infra) \in Nat
  BY DEF One
<1>4. Total(c) = Total(a) + 1 /\ Failed(c) = Failed(a) + One(result \in Infra)
  <2> HIDE DEF c
  <2>1. QED
    BY <1>0, <1>1, <1>2, <1>3, SummaryType
<1>5. Total(c) <= Total(s) + 1 /\ Failed(c) <= Failed(s) + One(result \in Infra)
  <2> HIDE DEF c
  <2>1. /\ Total(a) \in Nat /\ Failed(a) \in Nat /\ Total(s) \in Nat /\ Failed(s) \in Nat
    BY <1>0, SummaryType
  <2>2. QED
    BY <1>0, <1>3, <1>4, <2>1 DEF Within
<1>6. new = IF c.state = HalfOpen THEN Settled(j) ELSE c
  BY DEF recorded, a
<1>7. j = Opened(c) \/ j = [c EXCEPT !.probeSuccess = @ + 1] \/ j = c
  BY DEF Judged
<1> DEFINE z == [j EXCEPT !.state = Closed, !.units = <<>>, !.current = EmptyUnit]
<1>8. /\ j.units = c.units /\ j.current = c.current /\ j.state \in {Open, c.state}
      /\ z.units = <<>> /\ z.current = EmptyUnit /\ z.state = Closed
  <2> HIDE DEF c, j
  <2>1. CASE j = Opened(c)
    BY <1>1, <2>1 DEF Opened, SubBreaker
  <2>2. CASE j = [c EXCEPT !.probeSuccess = @ + 1]
    BY <1>1, <2>2 DEF SubBreaker
  <2>3. CASE j = c
    BY <1>1, <2>3 DEF SubBreaker
  <2>4. QED
    BY <1>7, <2>1, <2>2, <2>3
<1> HIDE DEF c, j
<1>9. CASE c.state # HalfOpen
  <2>1. new = c
    BY <1>6, <1>9
  <2>2. ~Entered(Closed, s, c)
    BY <1>2 DEF Entered
  <2>3. QED
    BY <1>5, <2>1, <2>2
<1>10. CASE c.state = HalfOpen /\ ~(j.probeSuccess >= HalfOpenAllowed)
  <2>1. new = j
    BY <1>6, <1>10 DEF Settled
  <2>2. ~Entered(Closed, s, j)
    BY <1>8, <1>10, StatesDistinct DEF Entered
  <2>3. Total(j) = Total(c) /\ Failed(j) = Failed(c)
    BY <1>8, SameWindow
  <2>4. QED
    BY <1>5, <2>1, <2>2, <2>3
<1>11. CASE c.state = HalfOpen /\ j.probeSuccess >= HalfOpenAllowed
  <2>1. new = z
    BY <1>6, <1>11 DEF Settled
  <2>2. Entered(Closed, s, new)
    BY <1>2, <1>8, <1>11, <2>1, StatesDistinct DEF Entered
  <2>3. new \in SubBreaker /\ new.units = <<>> /\ new.current = EmptyUnit
    BY <1>0, <1>8, <2>1 DEF Sound
  <2>4. SumOf(Totals(<<>>)) = 0 /\ SumOf(Failures(<<>>)) = 0
    BY NothingSummed
  <2>5. Total(new) = 0 /\ Failed(new) = 0
    <3> HIDE DEF new
    <3>1. QED
      BY <2>3, <2>4, SummaryType DEF EmptyUnit
  <2>6. QED
    BY <2>2, <2>5
<1>12. QED
  BY <1>9, <1>10, <1>11

(* What the window of a key counts was recorded since the key was made or  *)
(* last closed: buckets are dropped, never counted again.                  *)
EvidenceInv ==
    /\ TypeInv
    /\ \A k \in Keys : /\ Total(Sub(k)) <= hist[k].results.total
                       /\ Failed(Sub(k)) <= hist[k].results.failed

LEMMA EvidenceInitial == Init => EvidenceInv
<1> SUFFICES ASSUME Init PROVE EvidenceInv
  OBVIOUS
<1>1. ASSUME NEW k \in Keys
      PROVE  Total(Sub(k)) = 0 /\ Failed(Sub(k)) = 0 /\ hist[k].results = NoResults
  <2>1. Sub(k).units = <<>> /\ Sub(k).current = EmptyUnit
    BY DEF Init, Sub, newSubBreaker
  <2>2. hist[k].results = NoResults
    BY DEF Init, NewHist
  <2>3. QED
    BY <2>1, <2>2, NothingSummed DEF Total, Failed, Totals, Failures, EmptyUnit
<1>2. QED
  BY <1>1, TypeInitial DEF EvidenceInv, NoResults

LEMMA AllowedEvidence ==
    ASSUME EvidenceInv, NEW r \in Callers, NEW k \in Keys, Allowed(r, k)
    PROVE  EvidenceInv'
<1> DEFINE a == advance(Sub(k))
<1>0. TypeInv /\ TypeInv' /\ now \in Nat
  BY TypeStep DEF EvidenceInv, TypeInv, TypeOK, Next
<1>1. PICK new : /\ Refuse(k, new) \/ Admit(r, k, new)
                 /\ RefusedTo(Sub(k), new) \/ AdmittedTo(Sub(k), new)
  BY <1>0, AllowedCases
<1>2. Sub(k)' = new /\ \A x \in Keys \ {k} : Sub(x)' = Sub(x)
  BY <1>0, <1>1, StoreSub DEF Refuse, Admit
<1>3. ~Entered(Closed, Sub(k), new)
  BY <1>1, StatesDistinct DEF RefusedTo, AdmittedTo, Entered
<1>4. hist'[k].results = hist[k].results /\ \A x \in Keys \ {k} : hist'[x] = hist[x]
  <2> DEFINE h  == Noted(hist[k], Sub(k), new)
             h2 == [h EXCEPT !.probes.admitted = @ + 1]
  <2>1. hist \in [Keys -> History] /\ h \in History
    BY <1>0, NotedType DEF TypeInv, TypeOK
  <2>2. h.results = hist[k].results
    BY <1>3 DEF Noted
  <2>3. h2.results = h.results
    <3> HIDE DEF h
    <3>1. QED
      BY <2>1 DEF History
  <2>4. hist' = [hist EXCEPT ![k] = h] \/ hist' = [hist EXCEPT ![k] = h2]
    BY <1>1 DEF Refuse, Admit
  <2> HIDE DEF h, h2
  <2>5. QED
    BY <2>1, <2>2, <2>3, <2>4
<1>5. Total(new) = Total(a) /\ Failed(new) = Failed(a)
  BY <1>0, <1>2, AllowedWindow, SameWindow
<1>6. Within(a, Sub(k))
  BY <1>0, SubSound, AdvanceWithin
<1>7. Total(a) \in Nat /\ Failed(a) \in Nat /\ Total(Sub(k)) \in Nat /\ Failed(Sub(k)) \in Nat
  BY <1>0, SubSound, AdvanceSound, SummaryType DEF Sound
<1>8. hist[k] \in History
  BY <1>0 DEF TypeInv, TypeOK
<1> HIDE DEF a
<1>9. ASSUME NEW x \in Keys
      PROVE  (Total(Sub(x)) <= hist[x].results.total /\ Failed(Sub(x)) <= hist[x].results.failed)'
  <2>0. Total(Sub(x)) <= hist[x].results.total /\ Failed(Sub(x)) <= hist[x].results.failed
    BY DEF EvidenceInv
  <2>1. CASE x = k
    <3>1. Total(Sub(k))' = Total(a) /\ Failed(Sub(k))' = Failed(a)
      BY <1>2, <1>5 DEF Total, Failed
    <3>2. QED
      BY <1>4, <1>6, <1>7, <1>8, <2>0, <2>1, <3>1 DEF Within, History
  <2>2. CASE x # k
    <3>1. PICK y : y = Sub(x)
      OBVIOUS
    <3>2. Sub(x)' = y
      BY <1>2, <2>2, <3>1
    <3>3. Total(Sub(x))' = Total(y) /\ Failed(Sub(x))' = Failed(y)
      BY <3>2 DEF Total, Failed
    <3>4. QED
      BY <1>4, <2>0, <2>2, <3>1, <3>3
  <2>3. QED
    BY <2>1, <2>2
<1>10. QED
  BY <1>0, <1>9 DEF EvidenceInv

LEMMA Monotone ==
    \A a, b, c \in Nat : a <= b => a * c <= b * c /\ c * a <= c * b
OBVIOUS


LEMMA RecordEvidence ==
    ASSUME EvidenceInv, NEW r \in Callers, NEW result \in Metrics, Record(r, result)
    PROVE  EvidenceInv'
<1>0. TypeInv /\ TypeInv' /\ now \in Nat
  BY TypeStep DEF EvidenceInv, TypeInv, TypeOK, Next
<1>1. PICK k \in Keys : k = calls[r].key
  BY <1>0 DEF Record, TypeInv, TypeOK, Call
<1> DEFINE old == Sub(k)
           h   == WithResult(hist[k], calls[r].role, result)
<1>2. PICK new : new = recorded(old, result)
  OBVIOUS
<1>3. /\ now' = now /\ Store(k, new)
      /\ hist' = [hist EXCEPT ![k] = Noted(h, old, new)]
  BY <1>0, <1>1, <1>2 DEF Record, TypeInv, TypeOK
<1>4. Sub(k)' = new /\ \A x \in Keys \ {k} : Sub(x)' = Sub(x)
  BY <1>0, <1>3, StoreSub
<1>5. /\ hist[k] \in History
      /\ h.results.total = hist[k].results.total + 1
      /\ h.results.failed = hist[k].results.failed + One(result \in Infra)
  BY <1>0 DEF TypeInv, TypeOK, WithResult
<1>6. \/ /\ Entered(Closed, old, new)
         /\ Total(new) = 0 /\ Failed(new) = 0
      \/ /\ ~Entered(Closed, old, new)
         /\ Total(new) <= Total(old) + 1
         /\ Failed(new) <= Failed(old) + One(result \in Infra)
  BY <1>0, <1>2, SubSound, RecordedWindow
<1>7. /\ Total(new) \in Nat /\ Failed(new) \in Nat
      /\ Total(old) \in Nat /\ Failed(old) \in Nat
      /\ One(result \in Infra) \in Nat
  BY <1>0, <1>2, SubSound, RecordCases, SummaryType DEF Sound, One
<1>8. /\ hist'[k].results = IF Entered(Closed, old, new) THEN NoResults ELSE h.results
      /\ \A x \in Keys \ {k} : hist'[x] = hist[x]
  <2> HIDE DEF old, h
  <2>1. QED
    BY <1>0, <1>3 DEF TypeInv, TypeOK, Noted
<1>9. Total(old) <= hist[k].results.total /\ Failed(old) <= hist[k].results.failed
  BY DEF EvidenceInv
<1>10. Total(new) <= hist'[k].results.total /\ Failed(new) <= hist'[k].results.failed
  <2> HIDE DEF old, h
  <2>1. CASE Entered(Closed, old, new)
    BY <1>6, <1>8, <2>1 DEF NoResults
  <2>2. CASE ~Entered(Closed, old, new)
    BY <1>5, <1>6, <1>7, <1>8, <1>9, <2>2 DEF History
  <2>3. QED
    BY <2>1, <2>2
<1> HIDE DEF old, h
<1>11. ASSUME NEW x \in Keys
       PROVE  (Total(Sub(x)) <= hist[x].results.total /\ Failed(Sub(x)) <= hist[x].results.failed)'
  <2>1. CASE x = k
    <3>1. Total(Sub(k))' = Total(new) /\ Failed(Sub(k))' = Failed(new)
      BY <1>4 DEF Total, Failed
    <3>2. QED
      BY <1>10, <2>1, <3>1
  <2>2. CASE x # k
    <3>1. PICK y : y = Sub(x)
      OBVIOUS
    <3>2. Sub(x)' = y
      BY <1>4, <2>2, <3>1
    <3>3. Total(Sub(x))' = Total(y) /\ Failed(Sub(x))' = Failed(y)
      BY <3>2 DEF Total, Failed
    <3>4. Total(Sub(x)) <= hist[x].results.total /\ Failed(Sub(x)) <= hist[x].results.failed
      BY DEF EvidenceInv
    <3>5. QED
      BY <1>8, <2>2, <3>1, <3>3, <3>4
  <2>3. QED
    BY <2>1, <2>2
<1>12. QED
  BY <1>0, <1>11 DEF EvidenceInv

LEMMA TickEvidence ==
    ASSUME EvidenceInv, Tick
    PROVE  EvidenceInv'
<1>0. TypeInv'
  BY TypeStep DEF EvidenceInv, Next
<1>1. ASSUME NEW x \in Keys
      PROVE  (Total(Sub(x)) <= hist[x].results.total /\ Failed(Sub(x)) <= hist[x].results.failed)'
  <2>1. PICK y : y = Sub(x)
    OBVIOUS
  <2>2. PICK z : z = Sub(x)'
    OBVIOUS
  <2>3. z.units = y.units /\ z.current = y.current
    BY <2>1, <2>2 DEF Tick, Sub, newSubBreaker
  <2>4. Total(Sub(x))' = Total(z) /\ Failed(Sub(x))' = Failed(z)
    BY <2>2 DEF Total, Failed
  <2>5. Total(Sub(x))' = Total(y) /\ Failed(Sub(x))' = Failed(y)
    BY <2>3, <2>4 DEF Total, Failed
  <2>6. hist'[x] = hist[x]
    BY DEF Tick
  <2>7. Total(y) <= hist[x].results.total /\ Failed(y) <= hist[x].results.failed
    BY <2>1 DEF EvidenceInv
  <2>8. QED
    BY <2>5, <2>6, <2>7
<1>2. QED
  BY <1>0, <1>1 DEF EvidenceInv

LEMMA EvidenceStep == EvidenceInv /\ [Next]_vars => EvidenceInv'
<1> SUFFICES ASSUME EvidenceInv, [Next]_vars PROVE EvidenceInv'
  OBVIOUS
<1>1. CASE UNCHANGED vars
  <2>1. TypeInv'
    BY TypeStep DEF EvidenceInv
  <2>2. ASSUME NEW x \in Keys
        PROVE  (Total(Sub(x)) <= hist[x].results.total
                  /\ Failed(Sub(x)) <= hist[x].results.failed)'
    <3>0. PICK y : y = Sub(x)
      OBVIOUS
    <3>1. Sub(x)' = y
      BY <1>1, <3>0 DEF vars, Sub, newSubBreaker
    <3>2. Total(Sub(x))' = Total(y) /\ Failed(Sub(x))' = Failed(y)
      BY <3>1 DEF Total, Failed
    <3>3. QED
      BY <1>1, <3>0, <3>2 DEF vars, EvidenceInv
  <2>3. QED
    BY <2>1, <2>2 DEF EvidenceInv
<1>2. QED
  BY <1>1, TickEvidence, AllowedEvidence, RecordEvidence DEF Next

(* Whatever the callers do and however far time jumps, a breaker that      *)
(* leaves Closed has, since it was made or last recovered, recorded enough *)
(* results, and enough of them failures.                                   *)
THEOREM NewEvidence == Spec => TripsOnNewEvidence
<1> DEFINE Trips ==
       \A k \in DOMAIN breakers :
          breakers[k].state = Closed /\ breakers'[k].state = Open =>
             /\ hist[k].results.total >= MinRequestCount
             /\ hist[k].results.failed * ThresholdDen > ThresholdNum * MinRequestCount
<1>1. ASSUME EvidenceInv, [Next]_vars PROVE Trips
  <2>0. TypeInv /\ now \in Nat
    BY <1>1 DEF EvidenceInv, TypeInv, TypeOK
  <2>1. SUFFICES ASSUME NEW k \in DOMAIN breakers,
                        breakers[k].state = Closed, breakers'[k].state = Open
                 PROVE  /\ hist[k].results.total >= MinRequestCount
                        /\ hist[k].results.failed * ThresholdDen
                              > ThresholdNum * MinRequestCount
    OBVIOUS
  <2>2. k \in Keys /\ Sub(k) = breakers[k]
    BY <2>0 DEF TypeInv, TypeOK, Sub
  <2>3. PICK r \in Callers : Allowed(r, k)
    <3>1. CASE Tick \/ UNCHANGED vars
      BY <2>1, <3>1, StatesDistinct DEF Tick, vars
    <3>2. ASSUME NEW r \in Callers, NEW x \in Keys, Allowed(r, x)
          PROVE  x = k
      <4>1. ASSUME x # k PROVE FALSE
        <5>1. PICK new : Store(x, new)
          BY <2>0, <3>2, AllowedCases DEF Refuse, Admit
        <5>2. breakers'[k] = breakers[k]
          BY <4>1, <5>1 DEF Store
        <5>3. QED
          BY <2>1, <5>2, StatesDistinct
      <4>2. QED
        BY <4>1
    <3>3. ASSUME NEW r \in Callers, NEW result \in Metrics, Record(r, result)
          PROVE  FALSE
      <4>1. PICK x \in Keys : x = calls[r].key
        BY <2>0, <3>3 DEF Record, TypeInv, TypeOK, Call
      <4>2. PICK new : Store(x, new) /\ RecordedTo(Sub(x), new, result)
        BY <2>0, <3>3, <4>1, RecordEffect
      <4>3. breakers'[k] = IF x = k THEN new ELSE breakers[k]
        BY <4>2 DEF Store
      <4>4. QED
        BY <2>1, <2>2, <4>2, <4>3, StatesDistinct DEF RecordedTo
    <3>4. QED
      BY <1>1, <3>1, <3>2, <3>3 DEF Next
  <2>4. PICK new : Store(k, new)
    BY <2>0, <2>2, <2>3, AllowedCases DEF Refuse, Admit
  <2>5. Sub(k)'.state = Open
    BY <2>1, <2>4 DEF Store, Sub
  <2>6. PICK a : a = advance(Sub(k))
    OBVIOUS
  <2>7. ShouldTrip(a)
    BY <2>0, <2>1, <2>2, <2>3, <2>5, <2>6, AllowedWindow
  <2>8. Within(a, Sub(k)) /\ a \in SubBreaker /\ Sub(k) \in SubBreaker
    BY <2>0, <2>2, <2>6, SubSound, AdvanceSound, AdvanceWithin DEF Sound
  <2>9. /\ Total(a) \in Nat /\ Failed(a) \in Nat
        /\ Total(Sub(k)) \in Nat /\ Failed(Sub(k)) \in Nat
    BY <2>8, SummaryType
  <2>10. /\ hist[k].results.total \in Nat /\ hist[k].results.failed \in Nat
         /\ Total(a) <= hist[k].results.total
         /\ Failed(a) <= hist[k].results.failed
    <3>1. hist[k] \in History
      BY <2>0, <2>2 DEF TypeInv, TypeOK
    <3>2. Total(Sub(k)) <= hist[k].results.total /\ Failed(Sub(k)) <= hist[k].results.failed
      BY <1>1, <2>2 DEF EvidenceInv
    <3>3. QED
      BY <2>8, <2>9, <3>1, <3>2 DEF Within, History
  <2>11. /\ Total(a) >= MinRequestCount
         /\ Failed(a) * ThresholdDen > ThresholdNum * Total(a)
    BY <2>7 DEF ShouldTrip
  <2>12. /\ ThresholdNum * MinRequestCount <= ThresholdNum * Total(a)
         /\ Failed(a) * ThresholdDen <= hist[k].results.failed * ThresholdDen
    BY <2>9, <2>10, <2>11, SettingsAssumption, Monotone
  <2>13. QED
    <3> DEFINE p == ThresholdNum * MinRequestCount
               q == ThresholdNum * Total(a)
               x == Failed(a) * ThresholdDen
               y == hist[k].results.failed * ThresholdDen
    <3>1. p \in Nat /\ q \in Nat /\ x \in Nat /\ y \in Nat
      BY <2>9, <2>10, SettingsAssumption
    <3>2. p <= q /\ x <= y /\ x > q
      BY <2>11, <2>12
    <3> HIDE DEF p, q, x, y
    <3>3. y > p
      BY <3>1, <3>2
    <3>4. QED
      BY <2>9, <2>10, <2>11, <3>3, SettingsAssumption DEF p, y
<1>2. QED
  BY <1>1, EvidenceInitial, EvidenceStep, PTL DEF Spec, TripsOnNewEvidence
=============================================================================
