---------------------------- MODULE CircularQueue ----------------------------
(***************************************************************************)
(* pkg/datastruct/queue/circularqueue.go: a ring of Capacity + 1 slots of  *)
(* which one always stays unused, so that front = rear means empty and     *)
(* rear + 1 = front (modulo the number of slots) means full.  The slot at  *)
(* front holds no queued value; the oldest one is in the slot after it.    *)
(* The circuit breaker keeps its statistics window in such a queue.        *)
(***************************************************************************)
EXTENDS Naturals, Sequences

CONSTANTS Values,      (* what may be queued                                *)
          Capacity,    (* the argument of NewCircularQueue                  *)
          Zero         (* the zero value of a slot that was never written   *)

ASSUME CapacityAssumption == Capacity \in Nat

VARIABLES elements, front, rear,
          reply        (* what the last operation returned to its caller    *)

vars == <<elements, front, rear, reply>>

Slots == Capacity + 1

(* The slot n places after slot i. *)
Slot(i, n) == (i + n) % Slots
After(i)   == Slot(i, 1)

(* Mutated form of Size: the slot count forgotten in the wrapped distance. *)
SizeOffByOne == IF rear >= front THEN rear - front ELSE Capacity - (front - rear)

Size  == IF rear >= front THEN rear - front ELSE Slots - (front - rear)
Empty == front = rear
Full  == After(rear) = front

(* The queued values, oldest first. *)
List == [i \in 1 .. Size |-> elements[Slot(front, i)]]

Fifo == INSTANCE BoundedFifo WITH items <- List

-----------------------------------------------------------------------------

NewCircularQueue ==
    /\ elements = [i \in 0 .. Slots - 1 |-> Zero]
    /\ front = 0
    /\ rear = 0
    /\ reply = Fifo!Done

(* Mutated form of Enqueue: it writes the slot rear points at instead of   *)
(* the one after it.                                                       *)
EnqueueAtRear(v) ==
    \/ /\ ~Full
       /\ elements' = [elements EXCEPT ![rear] = v]
       /\ rear' = After(rear)
       /\ reply' = Fifo!Done
       /\ UNCHANGED front
    \/ /\ Full
       /\ reply' = Fifo!Rejected
       /\ UNCHANGED <<elements, front, rear>>

(* Enqueue writes the slot after rear and moves rear there; a full queue   *)
(* answers false and is left as it is: the new value is lost.              *)
Enqueue(v) ==
    \/ /\ ~Full
       /\ elements' = [elements EXCEPT ![After(rear)] = v]
       /\ rear' = After(rear)
       /\ reply' = Fifo!Done
       /\ UNCHANGED front
    \/ /\ Full
       /\ reply' = Fifo!Rejected
       /\ UNCHANGED <<elements, front, rear>>

Dequeue ==
    \/ /\ ~Empty
       /\ front' = After(front)
       /\ reply' = Fifo!Popped(elements[After(front)])
       /\ UNCHANGED <<elements, rear>>
    \/ /\ Empty
       /\ reply' = Fifo!Rejected
       /\ UNCHANGED <<elements, front, rear>>

(* Reset moves the two indices back; the slots keep their old contents.    *)
Reset ==
    /\ front' = 0
    /\ rear' = 0
    /\ reply' = Fifo!Done
    /\ UNCHANGED elements

Init == NewCircularQueue

Next ==
    \/ \E v \in Values : Enqueue(v)
    \/ Dequeue
    \/ Reset

Spec == Init /\ [][Next]_vars

-----------------------------------------------------------------------------

Replies == {Fifo!Done, Fifo!Rejected} \cup {Fifo!Popped(v) : v \in Values}

(* Both indices stay inside the slice that New allocates, so no operation  *)
(* indexes out of range, and every queued slot holds a value that was      *)
(* enqueued at some time, never the zero value.  Which value it holds is   *)
(* ImplementsFifo's.                                                       *)
TypeOK ==
    /\ elements \in [0 .. Slots - 1 -> Values \cup {Zero}]
    /\ front \in 0 .. Slots - 1
    /\ rear \in 0 .. Slots - 1
    /\ reply \in Replies
    /\ \A i \in 1 .. Size : elements[Slot(front, i)] \in Values

(* The ring implements a bounded first-in first-out queue: values come out *)
(* in the order they went in whatever the position of front and rear, and  *)
(* Enqueue is refused exactly when Capacity values are queued.             *)
ImplementsFifo == Fifo!Spec
=============================================================================
