---------------------------- MODULE MCCodeBroker ----------------------------
(***************************************************************************)
(* An instance of CodeBroker for TLC.                                      *)
(***************************************************************************)
EXTENDS CodeBrokerInvariant

CONSTANTS k1, k2

TwoCalls == {k1, k2}
=============================================================================
