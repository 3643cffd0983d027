--------------------------- MODULE MCCircularQueue ---------------------------
(* CircularQueue with three slots in use and two values, so that the        *)
(* indices wrap in every position and equal values follow each other.       *)
EXTENDS CircularQueue
=============================================================================
