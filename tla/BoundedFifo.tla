----------------------------- MODULE BoundedFifo -----------------------------
(***************************************************************************)
(* What a fixed-capacity queue promises its user: a first-in first-out     *)
(* sequence of at most Capacity values.  A value offered to a full queue   *)
(* is refused and nothing already queued is touched; a caller learns the   *)
(* outcome from the reply.  CircularQueue (pkg/datastruct/queue) is shown  *)
(* to implement this specification; the repository's other queue, in       *)
(* ai_implementation, is not modelled.                                     *)
(***************************************************************************)
EXTENDS Naturals, Sequences

CONSTANTS Values,    (* what may be queued                       *)
          Capacity   (* how many values the queue holds at most  *)

VARIABLES items,     (* the queued values, oldest first          *)
          reply      (* what the last operation returned         *)

vars == <<items, reply>>

Done      == [ok |-> TRUE]
Rejected  == [ok |-> FALSE]
Popped(v) == [ok |-> TRUE, value |-> v]

Init == items = <<>> /\ reply = Done

Put(v) ==
    /\ Len(items) < Capacity
    /\ items' = Append(items, v)
    /\ reply' = Done

RefusePut ==
    /\ Len(items) = Capacity
    /\ reply' = Rejected
    /\ UNCHANGED items

Take ==
    /\ items # <<>>
    /\ items' = Tail(items)
    /\ reply' = Popped(Head(items))

RefuseTake ==
    /\ items = <<>>
    /\ reply' = Rejected
    /\ UNCHANGED items

Clear == items' = <<>> /\ reply' = Done

Next ==
    \/ \E v \in Values : Put(v)
    \/ RefusePut
    \/ Take
    \/ RefuseTake
    \/ Clear

Spec == Init /\ [][Next]_vars
=============================================================================
