----------------------------- MODULE Workspace -----------------------------
(***************************************************************************)
(* What a context promises to those who work in it: only a mounted         *)
(* workspace changes, its cursor never goes back, a seal holds exactly     *)
(* what is there, a parked workspace is a sealed one, and one whose state  *)
(* is in doubt is never handed out again.                                  *)
(***************************************************************************)
EXTENDS Naturals

CONSTANTS NoPoint    \* no seal yet

VARIABLES phase,     \* "unallocated", "ready", "parked" or "blocked"
          contents,  \* the commands whose effects are in the workspace
          step,      \* the cursor
          seal       \* the last seal: a tree and its cursor

vars == << phase, contents, step, seal >>

Init ==
  /\ phase = "unallocated" /\ contents = {}
  /\ step = 0 /\ seal = NoPoint

Mount == /\ phase \in {"unallocated", "parked"} /\ phase' = "ready"
         /\ UNCHANGED << contents, step, seal >>

\* An executor that was not fenced may still write when nobody else may.
Write == /\ phase \in {"ready", "blocked"} /\ contents \subseteq contents'
         /\ UNCHANGED << phase, step, seal >>

Advance == /\ phase = "ready" /\ step' = step + 1
           /\ UNCHANGED << phase, contents, seal >>

Seal == /\ phase = "ready" /\ seal' = [tree |-> contents, step |-> step]
        /\ UNCHANGED << phase, contents, step >>

Park == /\ phase = "ready" /\ seal = [tree |-> contents, step |-> step]
        /\ phase' = "parked"
        /\ UNCHANGED << contents, step, seal >>

Block == /\ phase' = "blocked" /\ UNCHANGED << contents, step, seal >>

Next == Mount \/ Write \/ Advance \/ Seal \/ Park \/ Block

Spec == Init /\ [][Next]_vars
=============================================================================
