----------------------------- MODULE MCCRDWorker -----------------------------
(* One namespace, as the repository deploys it (docs/注入模块优化.md).       *)
EXTENDS CRDWorker, TLC

CONSTANTS o1, a, b, ns

OneNamespace == [x \in Objects \cup Workloads |-> ns]

(* Objects have names of their own. *)
OwnNames == [o \in Objects |-> IF o = o1 THEN {a} ELSE {b}]

Symmetry == Permutations(Workers) \cup Permutations(Images)
=============================================================================
