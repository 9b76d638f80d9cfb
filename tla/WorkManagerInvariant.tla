------------------------ MODULE WorkManagerInvariant ------------------------
(***************************************************************************)
(* The inductive invariant of WorkManager: what every step may rely on,    *)
(* strong enough to imply the safety properties that WorkManagerProofs     *)
(* proves.  One part per row or process it speaks of.                      *)
(***************************************************************************)
EXTENDS WorkManager

Untouched(w) ==
  /\ started[w] = 0 /\ w \notin live /\ fiber[w] = "idle"
  /\ job[w] = "none" /\ instance[w] = "none"

\* Where the outbox row stands says where the Work stands.
OutboxInv(w) ==
  /\ outbox[w] = "none" => phase[w] \in {"absent", "held_approval"}
  /\ outbox[w] = "pending" => phase[w] \in Waiting \cup {"held_approval"}
  /\ outbox[w] = "claimed" => phase[w] = "running"
  /\ outbox[w] = "dispatched" => phase[w] \in {"running", "finalizing"}
  /\ outbox[w] = "done" => phase[w] \in {"reconciling", "settled"} /\ ~gate[w]
  /\ outbox[w] \in {"none", "pending"} => lease[w] = NoLease
  /\ outbox[w] \in {"none", "pending", "claimed"} => Untouched(w)
  /\ phase[w] = "running" => lease[w].generation = 1
  /\ outcome[w] # "none" => phase[w] = "settled"

\* A fiber about to report a deadline that passed after finalizing was recorded.
Overdue(w) ==
  /\ fiber[w] = "settling" /\ verdict[w] = "uncertain" /\ Kind[w] = "sandbox"
  /\ phase[w] \in {"finalizing", "settled"} /\ w \notin live

Preparing == {"holding", "materializing", "prepared"}
BeforeStart == {"accepted", "registered", "refused", "open", "created",
                "recorded"} \cup Preparing

FiberInv(w) ==
  /\ fiber[w] # "idle" =>
       (phase[w] = "running" /\ outbox[w] = "dispatched") \/ Overdue(w)
  /\ fiber[w] \in BeforeStart => started[w] = 0 /\ w \notin live
  /\ fiber[w] \in Preparing => Kind[w] # "sandbox"
  /\ fiber[w] = "refused" => verdict[w] = "cancelled"
  /\ fiber[w] = "settling" /\ verdict[w] \in {"completed", "finalizing"} => w \notin live
  /\ fiber[w] = "settling" /\ verdict[w] = "finalizing" => Kind[w] = "sandbox"
  /\ fiber[w] = "settling" /\ verdict[w] = "cancelled" => w \in aborted
  /\ fiber[w] = "executing" => started[w] = 1
  /\ fiber[w] = "settling" =>
       /\ verdict[w] \in {"completed", "failed", "interrupted", "cancelled",
                          "uncertain", "finalizing"}
       /\ verdict[w] \in {"completed", "finalizing"} => started[w] = 1 \/ Kind[w] = "sleep"

\* A job that ran to its end keeps its sandbox until its Work is settled.
Kept(w) == Kind[w] = "sandbox" /\ w \notin live /\ started[w] = 1
           /\ job[w] = "held" /\ instance[w] = "exists"
JobInv(w) ==
  /\ fiber[w] = "created" => instance[w] = "exists"
  /\ (\/ fiber[w] = "recorded"
      \/ fiber[w] = "executing" /\ Kind[w] = "sandbox"
      \/ fiber[w] = "settling" /\ verdict[w] = "finalizing")
     => job[w] = "held" /\ instance[w] = "exists"
  /\ phase[w] = "finalizing" => Kept(w)
  /\ instance[w] = "gone" => phase[w] = "settled"
  /\ job[w] = "released" => instance[w] = "gone"
  /\ job[w] = "held" \/ fiber[w] = "created" => Kind[w] = "sandbox"

\* A cancel that takes a Work for unclaimed is right, unless it was settled.
CancelInv(w) ==
  /\ canceller[w].pc # "idle" => phase[w] # "absent"
  /\ canceller[w].pc = "observed" /\ canceller[w].unclaimed =>
       \/ phase[w] = "settled" \/ outbox[w] \in {"none", "pending"}
       \/ outbox[w] = "claimed" /\ canceller[w].overtaken
  /\ canceller[w].pc = "failing" =>
       /\ ~gate[w]
       /\ phase[w] = "settled" \/ outbox[w] \in {"none", "pending", "claimed"}

\* What AtMostOneExecution, Promise and CancelledHonestly say of w.
ExecutionInv(w) ==
  /\ started[w] \in {0, 1}
  /\ w \in live =>
       /\ started[w] = 1
       /\ \/ phase[w] \in {"running", "reconciling"}
          \/ outcome[w] \in {"failed", "interrupted", "cancelled"}
  /\ outcome[w] = "cancelled" => started[w] = 0 \/ w \in aborted

\* While the coordinator is down nothing of its memory is left.
DownInv(w) ==
  ~coordinator.up => /\ fiber[w] = "idle" /\ deliveries[w] = 0
                     /\ canceller[w].pc = "idle"

WorkInv(w) ==
  /\ OutboxInv(w) /\ FiberInv(w) /\ JobInv(w)
  /\ CancelInv(w) /\ ExecutionInv(w) /\ DownInv(w)

\* The lists a pass works through hold Works that stay as the pass found them.
PassInv ==
  /\ pass.pc = "finalize" =>
       \A w \in pass.todo :
         \/ phase[w] = "settled"
         \/ phase[w] \in {"finalizing", "reconciling"} /\ Kept(w)
  /\ pass.pc \in {"release", "released"} => \A w \in pass.todo : phase[w] = "settled"
  /\ pass.pc = "released" => /\ pass.releasing \in Works
                             /\ instance[pass.releasing] = "gone"
  /\ ~coordinator.up => pass.pc = "claim"

\* The inductive invariant behind the safety theorems.
IInv == TypeOK /\ (\A w \in Works : WorkInv(w)) /\ PassInv /\ BusyIsHeld
=============================================================================
