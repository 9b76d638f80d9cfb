----------------------------- MODULE MCContext -----------------------------
(***************************************************************************)
(* A context as the coordinator runs it, and the pod that serves one on    *)
(* Kubernetes, each by itself: a behaviour is one of ContextRuntime or one *)
(* of Pod, and the other stays as it began.                                *)
(***************************************************************************)
EXTENDS MCContextRuntime, Pod

VARIABLE part

PartInit == part \in {"coordinator", "pod"} /\ Init /\ PodInit

Coordinates == part = "coordinator" /\ Next /\ UNCHANGED <<part, podVars>>
Hosts == part = "pod" /\ PodNext /\ UNCHANGED <<part, vars>>
PartNext == Coordinates \/ Hosts

PartSpec == PartInit /\ [][PartNext]_<<part, podVars, vars>>
=============================================================================
