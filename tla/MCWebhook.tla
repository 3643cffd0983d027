------------------------------ MODULE MCWebhook ------------------------------
(* One namespace; a pod of the Deployment, labelled with the container.     *)
EXTENDS Webhook

CONSTANTS o1, a, ns, d1

OneNamespace == [x \in Objects \cup Workloads |-> ns]
OwnNames     == [o \in Objects |-> {a}]
OwnedByD1    == [p \in Pods |-> d1]
LabelledA    == [p \in Pods |-> a]

Unlimited == -1
=============================================================================
