---------------------------- MODULE MCControlPlane ----------------------------
(* A sidecar subscribed to one service.                                     *)
EXTENDS ControlPlane

CONSTANTS a, b

OwnIds == [s \in Streams |-> s]
ToA    == [s \in Streams |-> a]
OnlyA  == [n \in Slices |-> {a}]
=============================================================================
