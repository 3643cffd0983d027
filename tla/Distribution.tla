----------------------------- MODULE Distribution ----------------------------
(***************************************************************************)
(* What the distribution of endpoints promises a client: it is told states *)
(* its service went through, in the order the service went through them.   *)
(* It may miss states, as when its channel is full, and it may never be    *)
(* told of the latest.                                                     *)
(***************************************************************************)
EXTENDS Naturals, Sequences

CONSTANTS
    Services, Endpoints, Clients,
    ServiceOf      (* client -> its service                                 *)

VARIABLES
    history,    (* service -> the endpoints it had, oldest first            *)
    told        (* client -> the last state it was told of                  *)

vars == <<history, told>>

Nothing == [version |-> 0, eps |-> {}]

Init ==
    /\ history = [svc \in Services |-> <<>>]
    /\ told = [c \in Clients |-> Nothing]

Change(svc, eps) ==
    /\ history' = [history EXCEPT ![svc] = Append(@, eps)]
    /\ UNCHANGED told

Tell(c) ==
    LET states == history[ServiceOf[c]]
    IN  /\ \E v \in DOMAIN states :
              /\ v >= told[c].version
              /\ told' = [told EXCEPT ![c] = [version |-> v, eps |-> states[v]]]
        /\ UNCHANGED history

Next ==
    \/ \E svc \in Services, eps \in SUBSET Endpoints : Change(svc, eps)
    \/ \E c \in Clients : Tell(c)

Spec == Init /\ [][Next]_vars
=============================================================================
