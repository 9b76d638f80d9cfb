------------------------------ MODULE Program ------------------------------
(***************************************************************************)
(* What the platform promises about the tool calls of one code.execute     *)
(* Work: a call starts only while the Work has no receipt, and the Work is *)
(* settled only with every started call observed.  A Work with a call that *)
(* was not observed is left to reconciliation.                             *)
(***************************************************************************)
CONSTANT Calls

VARIABLES
  accountable,  \* whether the interpreter tells of its unanswered calls
  receipt,      \* "none", "settled" or "reconciling"
  started,      \* the calls whose start is on record
  observed      \* the calls whose result is on record

vars == << accountable, receipt, started, observed >>

Init ==
  /\ accountable \in BOOLEAN
  /\ receipt = "none"
  /\ started = {} /\ observed = {}

Start(c) ==
  /\ receipt = "none" /\ c \notin started
  /\ started' = started \cup {c}
  /\ UNCHANGED << accountable, receipt, observed >>

\* The answer of a call may come after the Work was left to reconciliation.
Observe(c) ==
  /\ c \in started \ observed
  /\ observed' = observed \cup {c}
  /\ UNCHANGED << accountable, receipt, started >>

Settle ==
  /\ receipt = "none"
  /\ accountable => started \subseteq observed
  /\ receipt' = "settled"
  /\ UNCHANGED << accountable, started, observed >>

Reconcile ==
  /\ receipt = "none"
  /\ receipt' = "reconciling"
  /\ UNCHANGED << accountable, started, observed >>

Next ==
  \/ \E c \in Calls : Start(c) \/ Observe(c)
  \/ Settle
  \/ Reconcile

Spec == Init /\ [][Next]_vars
=============================================================================
