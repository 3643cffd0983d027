------------------------ MODULE CircularQueue_proofs ------------------------
(***************************************************************************)
(* For every Capacity and every set of Values: the indices and slots of    *)
(* CircularQueue keep their types, and the ring implements BoundedFifo.    *)
(* The arithmetic is confined to WrapAround; the sequence reasoning to     *)
(* one lemma per operation that says what it does to List.                 *)
(***************************************************************************)
EXTENDS CircularQueue, SequenceTheorems, TLAPS

(* Every index the code computes is below twice the number of slots, so    *)
(* the remainder is a single conditional subtraction.                      *)
LEMMA WrapAround ==
    ASSUME NEW n \in Nat \ {0}, NEW a \in 0 .. 2 * n - 1
    PROVE  a % n = IF a < n THEN a ELSE a - n
<1>1. CASE a < n
  BY <1>1
<1>2. CASE ~(a < n)
  <2>1. a % n \in 0 .. n - 1
    OBVIOUS
  <2>2. a = n * (a \div n) + (a % n)
    OBVIOUS
  <2>3. a \div n \in Int
    OBVIOUS
  <2>4. a \div n = 1
    BY <1>2, <2>1, <2>2, <2>3, Z3
  <2>5. QED
    BY <1>2, <2>2, <2>4
<1>3. QED
  BY <1>1, <1>2

-----------------------------------------------------------------------------

LEMMA SlotsPositive == Capacity \in Nat /\ Slots \in Nat \ {0} /\ Slots = Capacity + 1
BY CapacityAssumption DEF Slots

LEMMA SlotValue ==
    \A i \in 0 .. Slots - 1, n \in 0 .. Slots :
       Slot(i, n) = IF i + n < Slots THEN i + n ELSE i + n - Slots
<1>1. ASSUME NEW i \in 0 .. Slots - 1, NEW n \in 0 .. Slots
      PROVE  Slot(i, n) = IF i + n < Slots THEN i + n ELSE i + n - Slots
  <2> DEFINE a == i + n
  <2>1. a \in 0 .. 2 * Slots - 1
    BY SlotsPositive
  <2>2. a % Slots = IF a < Slots THEN a ELSE a - Slots
    <3> HIDE DEF a
    <3>1. QED
      BY <2>1, SlotsPositive, WrapAround
  <2>3. QED
    BY <2>2, SlotsPositive DEF Slot
<1>2. QED
  BY <1>1

LEMMA SlotType ==
    \A i \in 0 .. Slots - 1, n \in 0 .. Slots : Slot(i, n) \in 0 .. Slots - 1
BY SlotValue, SlotsPositive

(* Distinct offsets below the number of slots are distinct slots. *)
LEMMA SlotInjective ==
    ASSUME NEW f \in 0 .. Slots - 1,
           NEW i \in 0 .. Slots - 1, NEW j \in 0 .. Slots - 1,
           Slot(f, i) = Slot(f, j)
    PROVE  i = j
BY SlotValue, SlotsPositive

LEMMA AfterValue ==
    \A i \in 0 .. Slots - 1 : /\ After(i) = IF i + 1 < Slots THEN i + 1 ELSE 0
                              /\ After(i) \in 0 .. Slots - 1
BY SlotValue, SlotsPositive DEF After

(* What Size, Full and Empty say of the two indices. *)
LEMMA Occupancy ==
    ASSUME front \in 0 .. Slots - 1, rear \in 0 .. Slots - 1
    PROVE  /\ Size \in 0 .. Capacity
           /\ Full <=> Size = Capacity
           /\ Empty <=> Size = 0
           /\ rear = Slot(front, Size)
<1>1. Size \in 0 .. Capacity
  BY SlotsPositive DEF Size
<1>2. Full <=> Size = Capacity
  BY AfterValue, SlotsPositive DEF Full, Size
<1>3. Empty <=> Size = 0
  BY SlotsPositive DEF Empty, Size
<1>4. rear = Slot(front, Size)
  BY <1>1, SlotValue, SlotsPositive DEF Size
<1>5. QED
  BY <1>1, <1>2, <1>3, <1>4

LEMMA ListType ==
    ASSUME TypeOK
    PROVE  /\ List \in Seq(Values)
           /\ Len(List) = Size
           /\ Size \in 0 .. Capacity
<1>1. Size \in 0 .. Capacity
  BY Occupancy DEF TypeOK
<1>2. List \in [1 .. Size -> Values]
  BY DEF TypeOK, List
<1>3. QED
  BY <1>1, <1>2, CapacityAssumption

-----------------------------------------------------------------------------

(* Each operation, as the change it makes to List. *)

LEMMA EnqueueStep ==
    ASSUME TypeOK, NEW v \in Values, Enqueue(v), ~Full
    PROVE  /\ TypeOK'
           /\ Size' = Size + 1
           /\ List' = Append(List, v)
<1> USE SlotsPositive
<1>0. /\ elements \in [0 .. Slots - 1 -> Values \cup {Zero}]
      /\ front \in 0 .. Slots - 1
      /\ rear \in 0 .. Slots - 1
      /\ reply \in Replies
      /\ \A i \in 1 .. Size : elements[Slot(front, i)] \in Values
  BY DEF TypeOK
<1>a. front \in 0 .. Slots - 1 /\ rear \in 0 .. Slots - 1
  BY <1>0
<1>b. /\ After(rear) = IF rear + 1 < Slots THEN rear + 1 ELSE 0
      /\ After(front) = IF front + 1 < Slots THEN front + 1 ELSE 0
      /\ After(rear) \in 0 .. Slots - 1
      /\ After(front) \in 0 .. Slots - 1
  BY <1>a, AfterValue
<1>1. elements' = [elements EXCEPT ![After(rear)] = v] /\ rear' = After(rear)
        /\ front' = front /\ reply' = Fifo!Done
  BY DEF Enqueue
<1>c. Size \in 0 .. Capacity /\ Size # Capacity /\ rear = Slot(front, Size)
  BY <1>a, Occupancy
<1>2. Size \in 0 .. Capacity - 1
  BY <1>c
<1>3. After(rear) = Slot(front, Size + 1)
  <2>1. Slot(front, Size) = IF front + Size < Slots THEN front + Size
                            ELSE front + Size - Slots
    BY <1>a, <1>2, SlotValue
  <2>2. Slot(front, Size + 1) = IF front + (Size + 1) < Slots THEN front + (Size + 1)
                                ELSE front + (Size + 1) - Slots
    BY <1>a, <1>2, SlotValue
  <2>3. QED
    BY <1>a, <1>b, <1>c, <1>2, <2>1, <2>2
<1>4. Size' = Size + 1
  BY <1>1, <1>a, <1>b DEF Size, Full
<1>5. \A i \in 1 .. Size : Slot(front, i) # After(rear)
  BY <1>0, <1>2, <1>3, SlotInjective
<1>6. \A i \in 1 .. Size :
         elements'[Slot(front, i)] = elements[Slot(front, i)]
  BY <1>0, <1>1, <1>2, <1>5, SlotType
<1>7. elements'[Slot(front, Size + 1)] = v
  BY <1>0, <1>1, <1>b, <1>3
<1>8. List' = [i \in 1 .. Size + 1 |-> elements'[Slot(front, i)]]
  BY <1>1, <1>4 DEF List
<1>9. List' = Append(List, v)
  <2>1. List \in Seq(Values) /\ Len(List) = Size
    BY ListType
  <2>2. DOMAIN Append(List, v) = 1 .. Size + 1
          /\ \A i \in 1 .. Size : Append(List, v)[i] = List[i]
          /\ Append(List, v)[Size + 1] = v
    BY <1>2, <2>1, AppendProperties
  <2>3. \A i \in 1 .. Size + 1 : List'[i] = Append(List, v)[i]
    <3>1. ASSUME NEW i \in 1 .. Size PROVE List'[i] = List[i]
      <4>1. List'[i] = elements'[Slot(front, i)]
        BY <1>2, <1>8
      <4>2. List[i] = elements[Slot(front, i)]
        BY DEF List
      <4>3. QED
        BY <1>6, <4>1, <4>2
    <3>2. List'[Size + 1] = v
      BY <1>2, <1>7, <1>8
    <3>3. QED
      BY <1>2, <2>2, <3>1, <3>2
  <2>4. Append(List, v) \in Seq(Values) /\ Len(Append(List, v)) = Size + 1
    BY <2>1, AppendProperties
  <2>5. List' \in Seq(Values) /\ Len(List') = Size + 1
    <3>1. List' \in [1 .. Size + 1 -> Values]
      <4>1. \A i \in 1 .. Size + 1 : elements'[Slot(front, i)] \in Values
        BY <1>0, <1>2, <1>6, <1>7
      <4>2. QED
        BY <1>8, <4>1
    <3>2. QED
      BY <1>2, <3>1
  <2>6. QED
    BY <2>3, <2>4, <2>5, SeqEqual
<1>10. TypeOK'
  <2>1. reply' \in Replies
    BY <1>1 DEF Replies
  <2>2. \A i \in 1 .. Size' : elements'[Slot(front', i)] \in Values
    BY <1>0, <1>1, <1>2, <1>4, <1>6, <1>7
  <2>3. QED
    BY <1>0, <1>1, <1>b, <2>1, <2>2 DEF TypeOK
<1>11. QED
  BY <1>4, <1>9, <1>10

LEMMA DequeueStep ==
    ASSUME TypeOK, Dequeue, ~Empty
    PROVE  /\ TypeOK'
           /\ List # <<>>
           /\ List' = Tail(List)
           /\ reply' = Fifo!Popped(Head(List))
<1> USE SlotsPositive
<1>0. /\ elements \in [0 .. Slots - 1 -> Values \cup {Zero}]
      /\ front \in 0 .. Slots - 1
      /\ rear \in 0 .. Slots - 1
      /\ reply \in Replies
      /\ \A i \in 1 .. Size : elements[Slot(front, i)] \in Values
  BY DEF TypeOK
<1>a. front \in 0 .. Slots - 1 /\ rear \in 0 .. Slots - 1
  BY <1>0
<1>b. /\ After(rear) = IF rear + 1 < Slots THEN rear + 1 ELSE 0
      /\ After(front) = IF front + 1 < Slots THEN front + 1 ELSE 0
      /\ After(rear) \in 0 .. Slots - 1
      /\ After(front) \in 0 .. Slots - 1
  BY <1>a, AfterValue
<1>1. front' = After(front) /\ reply' = Fifo!Popped(elements[After(front)])
        /\ elements' = elements /\ rear' = rear
  BY DEF Dequeue
<1>c. Size \in 0 .. Capacity /\ Size # 0 /\ rear = Slot(front, Size)
  BY <1>a, Occupancy
<1>2. Size \in 1 .. Capacity
  BY <1>c
<1>3. Size' = Size - 1
  BY <1>1, <1>a, <1>b DEF Size, Empty
<1>4. \A i \in 1 .. Size - 1 : Slot(front', i) = Slot(front, i + 1)
  BY <1>1, <1>a, <1>b, <1>2, SlotValue
<1>5. List' = [i \in 1 .. Size - 1 |-> elements[Slot(front, i + 1)]]
  BY <1>1, <1>3, <1>4 DEF List
<1>6. List \in Seq(Values) /\ Len(List) = Size
  BY ListType
<1>7. List # <<>> /\ Head(List) = elements[After(front)]
  BY <1>2, <1>6 DEF List, After
<1>8. List' = Tail(List)
  <2>1. /\ Tail(List) \in Seq(Values)
        /\ Len(Tail(List)) = Size - 1
        /\ \A i \in 1 .. Size - 1 : Tail(List)[i] = List[i + 1]
    BY <1>6, <1>7, HeadTailProperties
  <2>2. \A i \in 1 .. Size - 1 : List[i + 1] = elements[Slot(front, i + 1)]
    BY <1>2 DEF List
  <2>3. List' \in Seq(Values) /\ Len(List') = Size - 1
    <3>1. List' \in [1 .. Size - 1 -> Values]
      BY <1>0, <1>2, <1>5
    <3>2. QED
      BY <1>2, <3>1
  <2>4. \A i \in 1 .. Size - 1 : List'[i] = Tail(List)[i]
    BY <1>5, <2>1, <2>2
  <2>5. QED
    BY <2>1, <2>3, <2>4, SeqEqual
<1>9. TypeOK'
  <2>1. elements[After(front)] \in Values
    BY <1>0, <1>2 DEF After
  <2>2. reply' \in Replies
    BY <1>1, <2>1 DEF Replies
  <2>3. \A i \in 1 .. Size' : elements'[Slot(front', i)] \in Values
    BY <1>0, <1>1, <1>2, <1>3, <1>4
  <2>4. QED
    BY <1>0, <1>1, <1>b, <2>2, <2>3 DEF TypeOK
<1>10. QED
  BY <1>1, <1>7, <1>8, <1>9

LEMMA ResetStep ==
    ASSUME TypeOK, Reset
    PROVE  TypeOK' /\ List' = <<>> /\ reply' = Fifo!Done
<1>1. Size' = 0
  BY DEF Reset, Size
<1>2. List' = <<>>
  BY <1>1 DEF List
<1>3. TypeOK'
  BY <1>1, SlotsPositive DEF TypeOK, Reset, Replies
<1>4. QED
  BY <1>2, <1>3 DEF Reset

LEMMA InitialState ==
    ASSUME Init
    PROVE  TypeOK /\ List = <<>>
<1>1. Size = 0
  BY DEF Init, NewCircularQueue, Size
<1>2. QED
  BY <1>1, SlotsPositive DEF Init, NewCircularQueue, TypeOK, List, Replies

-----------------------------------------------------------------------------

(* No operation leaves an index outside the slice or reads a slot that     *)
(* holds no queued value, for any capacity.                                *)
THEOREM TypeCorrect == Spec => []TypeOK
<1>1. Init => TypeOK
  BY InitialState
<1>2. ASSUME TypeOK, [Next]_vars PROVE TypeOK'
  <2>1. ASSUME NEW v \in Values, Enqueue(v) PROVE TypeOK'
    <3>1. CASE ~Full
      BY <1>2, <2>1, <3>1, EnqueueStep
    <3>2. CASE Full
      BY <1>2, <2>1, <3>2 DEF Enqueue, TypeOK, Replies, Size
    <3>3. QED
      BY <3>1, <3>2
  <2>2. CASE Dequeue
    <3>1. CASE ~Empty
      BY <1>2, <2>2, <3>1, DequeueStep
    <3>2. CASE Empty
      BY <1>2, <2>2, <3>2 DEF Dequeue, TypeOK, Replies, Size
    <3>3. QED
      BY <3>1, <3>2
  <2>3. CASE Reset
    BY <1>2, <2>3, ResetStep
  <2>4. CASE UNCHANGED vars
    BY <1>2, <2>4 DEF vars, TypeOK, Size
  <2>5. QED
    BY <1>2, <2>1, <2>2, <2>3, <2>4 DEF Next
<1>3. QED
  BY <1>1, <1>2, PTL DEF Spec

(* The ring of the code is a bounded first-in first-out queue: every       *)
(* operation maps to the abstract operation it is named for.               *)
THEOREM Refinement == Spec => ImplementsFifo
<1>1. Init => Fifo!Init
  BY InitialState DEF Fifo!Init, Init, NewCircularQueue
<1>2. ASSUME TypeOK, [Next]_vars PROVE [Fifo!Next]_(Fifo!vars)
  <2>0. Len(List) = Size /\ (Full <=> Size = Capacity) /\ (Empty <=> Size = 0)
          /\ List \in Seq(Values)
    BY <1>2, ListType, Occupancy DEF TypeOK
  <2>1. ASSUME NEW v \in Values, Enqueue(v) PROVE Fifo!Next
    <3>1. CASE ~Full
      <4>1. List' = Append(List, v) /\ Len(List) < Capacity
        BY <1>2, <2>0, <2>1, <3>1, EnqueueStep, ListType, SlotsPositive
      <4>2. Fifo!Put(v)
        BY <2>1, <3>1, <4>1 DEF Enqueue, Fifo!Put
      <4>3. QED
        BY <4>2 DEF Fifo!Next
    <3>2. CASE Full
      <4>1. List' = List
        BY <2>1, <3>2 DEF Enqueue, List, Size
      <4>2. Fifo!RefusePut
        BY <2>0, <2>1, <3>2, <4>1 DEF Enqueue, Fifo!RefusePut
      <4>3. QED
        BY <4>2 DEF Fifo!Next
    <3>3. QED
      BY <3>1, <3>2
  <2>2. CASE Dequeue
    <3>1. CASE ~Empty
      <4>1. Fifo!Take
        BY <1>2, <2>2, <3>1, DequeueStep DEF Fifo!Take
      <4>2. QED
        BY <4>1 DEF Fifo!Next
    <3>2. CASE Empty
      <4>1. List' = List /\ List = <<>>
        BY <2>0, <2>2, <3>2 DEF Dequeue, List, Size
      <4>2. Fifo!RefuseTake
        BY <2>2, <3>2, <4>1 DEF Dequeue, Fifo!RefuseTake
      <4>3. QED
        BY <4>2 DEF Fifo!Next
    <3>3. QED
      BY <3>1, <3>2
  <2>3. CASE Reset
    BY <1>2, <2>3, ResetStep DEF Fifo!Next, Fifo!Clear
  <2>4. CASE UNCHANGED vars
    BY <2>4 DEF vars, Fifo!vars, List, Size
  <2>5. QED
    BY <1>2, <2>1, <2>2, <2>3, <2>4 DEF Next
<1>3. QED
  BY <1>1, <1>2, TypeCorrect, PTL DEF Spec, ImplementsFifo, Fifo!Spec
=============================================================================
