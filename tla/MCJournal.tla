----------------------------- MODULE MCJournal -----------------------------
(***************************************************************************)
(* An instance of Journal for TLC: a coordinator with two transactions and *)
(* another one with a third, of two rows each.                             *)
(***************************************************************************)
EXTENDS Journal, TLC

CONSTANTS p1, p2, x1, x2, x3

Owners == x1 :> p1 @@ x2 :> p1 @@ x3 :> p2
=============================================================================
