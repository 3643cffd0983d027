---------------------------- MODULE MCGrpcServer ----------------------------
(* Sidecars with ids of their own, subscribed to one service. *)
EXTENDS GrpcServer

CONSTANTS a, b

OwnIds == [s \in Streams |-> s]
ToA    == [s \in Streams |-> a]
OnlyA  == [n \in Slices |-> {a}]
=============================================================================
