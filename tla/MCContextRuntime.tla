-------------------------- MODULE MCContextRuntime --------------------------
(***************************************************************************)
(* Instances of ContextRuntime for TLC.                                    *)
(***************************************************************************)
EXTENDS ContextRuntimeInvariant, TLC

CONSTANTS w1, w2, w3, w4

FourWorks == {w1, w2, w3, w4}
\* Two commands, one of them sealed, a sleep and a read.
MixedKind == w1 :> "shell" @@ w2 :> "sealedShell" @@ w3 :> "sleep" @@ w4 :> "read"
=============================================================================
