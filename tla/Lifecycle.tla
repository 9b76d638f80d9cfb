----------------------------- MODULE Lifecycle -----------------------------
(***************************************************************************)
(* What the platform promises of every Work (README.md:69, ARCHITECTURE.md *)
(* and the receipts of src/src/domain.ts): it is executed once at most and *)
(* does not begin once it has a receipt; the receipt is final and says     *)
(* nothing that the execution belies; what cannot be known is left to      *)
(* reconciliation, out of which a job alone may come.  A Work that failed, *)
(* was interrupted or cancelled may still be going at its provider.        *)
(* WorkManager implements it: there one transaction may close many Works,  *)
(* so that each of them takes a step of its own here, or none.             *)
(***************************************************************************)
CONSTANTS
  Works,
  Jobs,       \* the Works whose outputs are captured after their execution
  Effortless  \* the Works that may be done with nothing executed

VARIABLES
  receipt,    \* what the client is told: "none", "unknown" or a result
  execution,  \* "never" begun, "going" or "over", at the provider
  told        \* whether the execution was told to abort

lifecycleVars == << receipt, execution, told >>

Results == {"completed", "failed", "interrupted", "cancelled", "denied",
            "queue_deadline", "output_failed"}
Receipts == {"none", "unknown"} \cup Results

LifecycleInit ==
  /\ receipt = [w \in Works |-> "none"]
  /\ execution = [w \in Works |-> "never"]
  /\ told = [w \in Works |-> FALSE]

Begin(w) ==
  /\ receipt[w] = "none" /\ execution[w] = "never"
  /\ execution'[w] = "going"
  /\ UNCHANGED << receipt[w], told[w] >>

\* It ends, perhaps long after its answer was given up.
End(w) ==
  /\ execution[w] = "going"
  /\ execution'[w] = "over"
  /\ UNCHANGED << receipt[w], told[w] >>

Tell(w) == told'[w] /\ UNCHANGED << receipt[w], execution[w] >>

\* What a result says of the execution.
Honest(w, result) ==
  /\ result = "completed" =>
       execution[w] = "over" \/ (execution[w] = "never" /\ w \in Effortless)
  /\ result = "output_failed" => execution[w] = "over" /\ w \in Jobs
  /\ result = "cancelled" => execution[w] = "never" \/ told[w]
  /\ result \in {"denied", "queue_deadline"} => execution[w] = "never"

Settle(w, result) ==
  /\ receipt[w] = "none" /\ Honest(w, result)
  /\ receipt'[w] = result
  /\ UNCHANGED << execution[w], told[w] >>

Doubt(w) ==
  /\ receipt[w] = "none"
  /\ receipt'[w] = "unknown"
  /\ UNCHANGED << execution[w], told[w] >>

\* The outputs of a job that was executed may still be captured.
Resolve(w, result) ==
  /\ receipt[w] = "unknown" /\ w \in Jobs /\ Honest(w, result)
  /\ result \in {"completed", "output_failed"}
  /\ receipt'[w] = result
  /\ UNCHANGED << execution[w], told[w] >>

WorkNext(w) ==
  \/ Begin(w) \/ End(w) \/ Tell(w) \/ Doubt(w)
  \/ \E result \in Results : Settle(w, result) \/ Resolve(w, result)

LifecycleNext ==
  /\ receipt' \in [Works -> Receipts]
  /\ execution' \in [Works -> {"never", "going", "over"}]
  /\ told' \in [Works -> BOOLEAN]
  /\ \A w \in Works :
       UNCHANGED << receipt[w], execution[w], told[w] >> \/ WorkNext(w)

LifecycleSpec == LifecycleInit /\ [][LifecycleNext]_lifecycleVars
=============================================================================
