--------------------------- MODULE ContextRuntime ---------------------------
(***************************************************************************)
(* One persistent context of platform.ts and the Works that target it: its *)
(* row, the allocation and the workspace behind it, the cursor that counts *)
(* its commands, its seals and its sleep.  The life of a Work outside its  *)
(* attempt is that of WorkManager, reduced to what touches the context.    *)
(***************************************************************************)
EXTENDS Naturals, FiniteSets

CONSTANTS
  Works,          \* the Works that target the context
  Kind,           \* what each is for
  None,           \* no Work
  NoPoint,        \* no seal
  JournalFaults,  \* whether transactions of a fiber may fail
  MaxCrashes      \* bound on the crashes of the coordinator

Kinds == {"shell", "sealedShell", "read", "wake", "seal", "sleep"}
\* finish = "seal_context" of a command is "sealedShell".
Shells == {w \in Works : Kind[w] \in {"shell", "sealedShell"}}

WorkspacePoints == [tree : SUBSET Works, step : Nat]

ASSUME RuntimeAssumption ==
  /\ Kind \in [Works -> Kinds]
  /\ None \notin Works /\ NoPoint \notin WorkspacePoints
  /\ JournalFaults \in BOOLEAN /\ MaxCrashes \in Nat

VARIABLES
  \* The journal.
  context,   \* the row of the context
  work,      \* work.state.phase
  receipt,   \* what a settled Work says of the state
  \* The attempts of the coordinator.
  pc,        \* where the fiber of each Work is
  copy,      \* the context it holds in memory
  error,     \* what fail is called with
  \* The provider.
  seeded,    \* whether the whole seed was uploaded
  edits,     \* commands that changed the workspace
  live,      \* commands whose process may still run
  \* The coordinator process.
  up, crashes

journal == << context, work, receipt >>
attempt == << pc, copy, error >>
workspace == << seeded, edits, live >>
process == << up, crashes >>
vars == << journal, attempt, workspace, process >>

-----------------------------------------------------------------------------
(* Shapes *)

Points == WorkspacePoints \cup {NoPoint}
\* The point of a parked phase is lastSeal, which only a ready context changes.
Contexts ==
  [phase : {"unallocated", "ready", "parked", "blocked"},
   generation : Nat, epoch : Nat, step : Nat, lastSeal : Points,
   busy : Works \cup {None}]
Receipts == [outcome : {"none", "failed", "completed", "seal_failed"},
             state : {"none", "unsealed", "sealed"}, step : Nat, point : Points]
Phases == {"queued", "running", "settled", "reconciling"}
FiberStates ==
  {"idle", "inspect", "ensure", "created", "seeding", "blocking", "mounted",
   "act", "executing", "counting", "capturing", "sealing", "parking",
   "parked", "settling", "sealFailed", "failing", "dead"}

NoReceipt == [outcome |-> "none", state |-> "none", step |-> 0, point |-> NoPoint]
Failed == [NoReceipt EXCEPT !.outcome = "failed"]
Unsealed(outcome, c) ==
  [outcome |-> outcome, state |-> "unsealed", step |-> c.step, point |-> c.lastSeal]
Sealed(c) ==
  [outcome |-> "completed", state |-> "sealed", step |-> c.step, point |-> c.lastSeal]
NoContext == [phase |-> "unallocated", generation |-> 0, epoch |-> 0, step |-> 0,
              lastSeal |-> NoPoint, busy |-> None]

\* Every variable holds a value of its type.
TypeOK ==
  /\ context \in Contexts
  /\ work \in [Works -> Phases]
  /\ receipt \in [Works -> Receipts]
  /\ pc \in [Works -> FiberStates]
  /\ copy \in [Works -> Contexts]
  /\ error \in [Works -> {"none", "fault", "uncertain"}]
  /\ seeded \in {"no", "yes"}
  /\ edits \subseteq Works /\ live \subseteq Works
  /\ up \in BOOLEAN /\ crashes \in 0..MaxCrashes

\* A context that context.ensure has just recorded, and Works admitted for it.
Init ==
  /\ context = NoContext
  /\ work = [w \in Works |-> "queued"]
  /\ receipt = [w \in Works |-> NoReceipt]
  /\ pc = [w \in Works |-> "idle"]
  /\ copy = [w \in Works |-> NoContext]
  /\ error = [w \in Works |-> "none"]
  /\ seeded = "no" /\ edits = {} /\ live = {}
  /\ up = TRUE /\ crashes = 0

-----------------------------------------------------------------------------
(* The context in memory *)

\* Mutant of Ready: the allocation gets its generation, the row keeps its epoch.
ReadyUnfenced(c) == [c EXCEPT !.phase = "ready", !.generation = c.epoch + 1]
Ready(c) == [c EXCEPT !.phase = "ready", !.epoch = @ + 1, !.generation = c.epoch + 1]
Blocked(c) == [c EXCEPT !.phase = "blocked"]
\* Mutant of Counted: the step is counted in another copy than the one saved.
CountedElsewhere(c) == c
Counted(c) == [c EXCEPT !.step = @ + 1]
\* Mutant of SealedAs: the seal counts the step to come.
SealedAsNext(c, tree) == [c EXCEPT !.lastSeal = [tree |-> tree, step |-> c.step + 1]]
SealedAs(c, tree) == [c EXCEPT !.lastSeal = [tree |-> tree, step |-> c.step]]
Parked(c) == [c EXCEPT !.phase = "parked"]

\* A step of the fiber of w that writes to the context in memory only.
Continues(w, from, to) == pc[w] = from /\ pc' = [pc EXCEPT ![w] = to]
Holds(w, c) == copy' = [copy EXCEPT ![w] = c]
\* The step ends in an error: run stops and fail is called with it.
Fails(w, e) ==
  /\ pc' = [pc EXCEPT ![w] = "failing"]
  /\ error' = [error EXCEPT ![w] = e]

-----------------------------------------------------------------------------
(* Claim and settlement *)

\* claim: the context is free and in no doubt.
Claimable == context.busy = None /\ context.phase # "blocked"
Claim(w) ==
  /\ up /\ work[w] = "queued" /\ Claimable
  /\ work' = [work EXCEPT ![w] = "running"]
  /\ context' = [context EXCEPT !.busy = w]
  /\ Continues(w, "idle", "inspect")
  /\ UNCHANGED << receipt, copy, error, workspace, process >>

\* A Work that is cancelled, denied or late before it runs.
Refuse(w) ==
  /\ up /\ work[w] = "queued"
  /\ work' = [work EXCEPT ![w] = "settled"]
  /\ receipt' = [receipt EXCEPT ![w] = Failed]
  /\ UNCHANGED << context, attempt, workspace, process >>

\* setState: the row of the context follows the Work that holds it.
Released(w) == IF context.busy = w THEN [context EXCEPT !.busy = None] ELSE context
Doubted(w) == IF context.busy = w THEN Blocked(context) ELSE context
SettleWith(w, r) ==
  /\ work' = [work EXCEPT ![w] = "settled"]
  /\ receipt' = [receipt EXCEPT ![w] = r]
  /\ context' = Released(w)
  /\ pc' = [pc EXCEPT ![w] = "idle"]
  /\ UNCHANGED << copy, error, workspace, process >>

\* What a completed run reports, and a command whose seal failed.
ReceiptOf(w) ==
  IF pc[w] = "sealFailed" THEN Unsealed("seal_failed", copy[w])
  ELSE IF Kind[w] = "sleep" /\ copy[w].phase = "unallocated"
    THEN [NoReceipt EXCEPT !.outcome = "completed"]
  ELSE IF Kind[w] \in {"sealedShell", "seal", "sleep"} THEN Sealed(copy[w])
  ELSE Unsealed("completed", copy[w])

Complete(w) ==
  /\ pc[w] \in {"settling", "sealFailed"}
  /\ SettleWith(w, ReceiptOf(w))
CompleteFails(w) ==
  /\ pc[w] \in {"settling", "sealFailed"} /\ JournalFaults
  /\ Fails(w, "fault")
  /\ UNCHANGED << journal, copy, workspace, process >>

\* fail: a known error settles the Work, an uncertain one blocks its context.
RecordFailure(w) ==
  /\ pc[w] = "failing"
  /\ \/ error[w] = "fault" /\ SettleWith(w, Failed)
     \/ /\ error[w] = "uncertain"
        /\ work' = [work EXCEPT ![w] = "reconciling"]
        /\ context' = Doubted(w)
        /\ pc' = [pc EXCEPT ![w] = "idle"]
        /\ UNCHANGED << receipt, copy, error, workspace, process >>
\* The fiber dies with the transaction of fail; nobody tends the Work.
RecordFailureDies(w) ==
  /\ JournalFaults /\ Continues(w, "failing", "dead")
  /\ UNCHANGED << journal, copy, error, workspace, process >>

-----------------------------------------------------------------------------
(* saveContext *)

Stale(c) == context.busy # c.busy \/ context.epoch > c.epoch

\* Where the fiber goes once the context in memory is on record.
AfterSave(w) ==
  CASE pc[w] = "created" -> "seeding"
    [] pc[w] = "blocking" -> "failing"
    [] pc[w] = "mounted" -> "act"
    [] pc[w] = "counting" -> IF Kind[w] = "sealedShell" THEN "capturing" ELSE "settling"
    [] pc[w] = "sealing" -> IF Kind[w] = "sleep" THEN "parking" ELSE "settling"
    [] pc[w] = "parked" -> "settling"
Saving == {"created", "blocking", "mounted", "counting", "sealing", "parked"}

SaveContext(w) ==
  /\ pc[w] \in Saving /\ ~Stale(copy[w])
  /\ context' = copy[w]
  /\ pc' = [pc EXCEPT ![w] = AfterSave(w)]
  /\ UNCHANGED << work, receipt, copy, error, workspace, process >>

\* Mutant of SaveContextFails: the seal that was not recorded is reported as one.
SaveContextFailsQuietly(w) ==
  /\ pc[w] \in Saving /\ (JournalFaults \/ Stale(copy[w]))
  /\ IF pc[w] = "sealing" /\ Kind[w] = "sealedShell"
       THEN Continues(w, "sealing", "settling") /\ UNCHANGED error
       ELSE Fails(w, "fault")
  /\ UNCHANGED << journal, copy, workspace, process >>

\* STALE_CONTEXT, or a transaction that fails.  The command whose seal is not
\* recorded is settled all the same.
SaveContextFails(w) ==
  /\ pc[w] \in Saving /\ (JournalFaults \/ Stale(copy[w]))
  /\ IF pc[w] = "sealing" /\ Kind[w] = "sealedShell"
       THEN Continues(w, "sealing", "sealFailed") /\ UNCHANGED error
       ELSE Fails(w, "fault")
  /\ UNCHANGED << journal, copy, workspace, process >>

-----------------------------------------------------------------------------
(* run *)

\* getContext, after the checks that come before it; an idle context that never
\* had an allocation sleeps at once.
Inspect(w) ==
  /\ context.busy = w
  /\ Holds(w, context)
  /\ Continues(w, "inspect", IF Kind[w] = "sleep" /\ context.phase = "unallocated"
                               THEN "settling" ELSE "ensure")
  /\ UNCHANGED << error, journal, workspace, process >>

\* ensureAllocation of a context that is ready.
AlreadyReady(w) ==
  /\ copy[w].phase = "ready" /\ Continues(w, "ensure", "act")
  /\ UNCHANGED << copy, error, journal, workspace, process >>

\* wake: the workspace is mounted for the next epoch.
Wake(w) ==
  /\ copy[w].phase = "parked" /\ Continues(w, "ensure", "mounted")
  /\ Holds(w, Ready(copy[w]))
  /\ UNCHANGED << error, journal, workspace, process >>

\* create: the allocation goes on record before the seed is uploaded.
Create(w) ==
  /\ copy[w].phase = "unallocated" /\ Continues(w, "ensure", "created")
  /\ Holds(w, Ready(copy[w]))
  /\ UNCHANGED << error, journal, workspace, process >>
Seed(w) ==
  /\ Continues(w, "seeding", "mounted")
  /\ seeded' = "yes"
  /\ UNCHANGED << copy, error, journal, edits, live, process >>
\* initialize or upload fails halfway; tapError blocks the context.
SeedFails(w, e) ==
  /\ Continues(w, "seeding", "blocking")
  /\ Holds(w, Blocked(copy[w]))
  /\ error' = [error EXCEPT ![w] = e]
  /\ UNCHANGED << journal, workspace, process >>

StartCommand(w) ==
  /\ w \in Shells /\ Continues(w, "act", "executing")
  /\ live' = live \cup {w}
  /\ UNCHANGED << copy, error, journal, seeded, edits, process >>
\* The command exits, with whatever code, and its output is back.
CommandExits(w) ==
  /\ Continues(w, "executing", "counting")
  /\ live' = live \ {w} /\ edits' = edits \cup {w}
  /\ Holds(w, Counted(copy[w]))
  /\ UNCHANGED << error, journal, seeded, process >>
\* Mutant of CommandStopped: the group of the command is not killed.
CommandStoppedAlone(w) ==
  /\ pc[w] = "executing" /\ Fails(w, "fault")
  /\ UNCHANGED << copy, journal, workspace, process >>
\* A limit or an abort stopped the command.
CommandStopped(w) ==
  /\ pc[w] = "executing" /\ Fails(w, "fault")
  /\ live' = live \ {w}
  /\ UNCHANGED << copy, journal, seeded, edits, process >>
\* The connection is lost, and with it what became of the command.
CommandLost(w) ==
  /\ pc[w] = "executing" /\ Fails(w, "uncertain")
  /\ UNCHANGED << copy, journal, workspace, process >>

\* sandbox.read and context.wake change nothing.
Report(w) ==
  /\ Kind[w] \in {"read", "wake"} /\ Continues(w, "act", "settling")
  /\ UNCHANGED << copy, error, journal, workspace, process >>

\* seal: the workspace is downloaded and its tree published.
Capturing(w) ==
  \/ pc[w] = "capturing"
  \/ pc[w] = "act" /\ Kind[w] \in {"seal", "sleep"}
Capture(w) ==
  /\ Capturing(w) /\ copy[w].phase = "ready"
  /\ pc' = [pc EXCEPT ![w] = "sealing"]
  /\ Holds(w, SealedAs(copy[w], edits))
  /\ UNCHANGED << error, journal, workspace, process >>
CaptureFails(w, e) ==
  /\ Capturing(w)
  /\ IF Kind[w] = "sealedShell"
       THEN Continues(w, "capturing", "sealFailed") /\ UNCHANGED error
       ELSE Fails(w, e)
  /\ UNCHANGED << copy, journal, workspace, process >>

Park(w) ==
  /\ Continues(w, "parking", "parked")
  /\ Holds(w, Parked(copy[w]))
  /\ UNCHANGED << error, journal, workspace, process >>

\* Denials, a lost lease, a placement, a profile or a provider that fails.
RunFails(w, e) ==
  /\ \/ pc[w] = "inspect" /\ e = "fault"
     \/ pc[w] \in {"ensure", "parking"}
     \/ pc[w] = "act" /\ Kind[w] = "read"
  /\ Fails(w, e)
  /\ UNCHANGED << copy, journal, workspace, process >>

\* The deadline of dispatch interrupts run wherever it waits.
TimesOut(w) ==
  /\ pc[w] \notin {"idle", "failing", "dead"}
  /\ Fails(w, "uncertain")
  /\ UNCHANGED << copy, journal, workspace, process >>

-----------------------------------------------------------------------------
(* The provider and the coordinator *)

\* A command writes, as one that nobody waits for may go on doing.
Write(w) ==
  /\ w \in live /\ edits' = edits \cup {w}
  /\ UNCHANGED << journal, attempt, seeded, live, process >>
OrphanEnds(w) ==
  /\ w \in live /\ pc[w] # "executing"
  /\ live' = live \ {w}
  /\ UNCHANGED << journal, attempt, seeded, edits, process >>

Crash ==
  /\ up /\ crashes < MaxCrashes
  /\ up' = FALSE /\ crashes' = crashes + 1
  /\ pc' = [w \in Works |-> "idle"]
  /\ UNCHANGED << copy, error, journal, workspace >>

\* recover: what was running is left to reconciliation, its context fenced.
Recover ==
  LET lost == {w \in Works : work[w] = "running"}
  IN  /\ ~up /\ up' = TRUE
      /\ work' = [w \in Works |-> IF w \in lost THEN "reconciling" ELSE work[w]]
      /\ context' = IF lost = {} THEN context
                    ELSE [Blocked(context) EXCEPT !.epoch = @ + Cardinality(lost)]
      /\ UNCHANGED << receipt, attempt, workspace, crashes >>

-----------------------------------------------------------------------------
(* Specification *)

Run(w) ==
  \/ Inspect(w) \/ AlreadyReady(w) \/ Wake(w) \/ Create(w) \/ Seed(w)
  \/ StartCommand(w) \/ CommandExits(w) \/ CommandStopped(w) \/ CommandLost(w)
  \/ Report(w) \/ Capture(w) \/ Park(w)
  \/ SaveContext(w) \/ SaveContextFails(w) \/ TimesOut(w)
  \/ \E e \in {"fault", "uncertain"} :
       SeedFails(w, e) \/ CaptureFails(w, e) \/ RunFails(w, e)

Next ==
  \/ \E w \in Works :
       \/ Claim(w) \/ Refuse(w) \/ Run(w)
       \/ Complete(w) \/ CompleteFails(w)
       \/ RecordFailure(w) \/ RecordFailureDies(w)
       \/ Write(w) \/ OrphanEnds(w)
  \/ Crash \/ Recover

Spec == Init /\ [][Next]_vars

-----------------------------------------------------------------------------
(* Properties *)

\* The commands whose receipts carry a cursor.
Attested(w) == w \in Shells /\ receipt[w].state # "none"
\* The seals on record and in receipts.
KnownPoints == {context.lastSeal} \cup {receipt[w].point : w \in Works}

\* A seal holds the effects of exactly the attested commands up to its cursor,
\* whichever Work captured it and whatever failed in between (seal,
\* sandbox.shell of run).
SealsMatchCursor ==
  \A p \in KnownPoints \ {NoPoint}, w \in Works :
    Attested(w) => (w \in p.tree <=> receipt[w].step <= p.step)

\* No two commands are told the same cursor (sandbox.shell of run).
CursorsOrderCommands ==
  \A v, w \in Works : Attested(v) /\ Attested(w) /\ v # w =>
    receipt[v].step # receipt[w].step

\* A receipt that says sealed names a point that is on record, or one that a
\* later seal has replaced (seal, completed).
SealedIsOnRecord ==
  \A w \in Works : receipt[w].state = "sealed" =>
    /\ receipt[w].point # NoPoint /\ context.lastSeal # NoPoint
    /\ receipt[w].point.tree \subseteq context.lastSeal.tree
    /\ receipt[w].point.step <= context.lastSeal.step

Promise == INSTANCE Workspace WITH
  phase <- context.phase, contents <- edits, step <- context.step,
  seal <- context.lastSeal

\* Nothing changes in a parked workspace, a park is covered by its seal, and a
\* context in doubt stays blocked.
ImplementsWorkspace == Promise!Spec

\* A "seed materialization [that is] incomplete" calls for "explicit repair"
\* (platform.ts:868): no Work is given a workspace whose seed is not complete.
SeedIsComplete ==
  context.phase = "ready" /\ context.busy = None => seeded = "yes"
=============================================================================
