--------------------------- MODULE MCWorkManager ---------------------------
(***************************************************************************)
(* Instances of WorkManager for TLC.  A configuration chooses among them.  *)
(***************************************************************************)
EXTENDS WorkManagerInvariant, TLC

CONSTANTS w1, w2, w3, c1, b1, b2

TwoWorks == {w1, w2}
ThreeWorks == {w1, w2, w3}

\* A connector call under approval and a program.
JobKind == w1 :> "connector" @@ w2 :> "code"
\* A program and a sandbox job.
PairKind == w1 :> "code" @@ w2 :> "sandbox"
\* A command and a sandbox job that compete for one slot.
SlotKind == w1 :> "shell" @@ w2 :> "sandbox"
SlotTarget == w1 :> c1 @@ w2 :> None
\* A job, a command and a sleep, of two tenants, that compete for the slots of
\* two backends; the job fits on one of them alone.
MixedKind == w1 :> "sandbox" @@ w2 :> "shell" @@ w3 :> "sleep"
MixedTarget == w1 :> None @@ w2 :> c1 @@ w3 :> c1
MixedTenants == w1 :> 1 @@ w2 :> 1 @@ w3 :> 2
MixedOrder == w1 :> 1 @@ w2 :> 2 @@ w3 :> 2
MixedBackends == [w \in Works |-> IF Kind[w] = "sandbox" THEN {b1} ELSE Backends]

OneTenant == [w \in Works |-> 1]
TwoTenants == w1 :> 1 @@ w2 :> 2
InOrder == w1 :> 1 @@ w2 :> 2
NoTarget == [w \in Works |-> None]
AnyBackend == [w \in Works |-> IF Kind[w] = "connector" THEN {} ELSE Backends]
OneSlot == [b \in Backends |-> 1]
=============================================================================
