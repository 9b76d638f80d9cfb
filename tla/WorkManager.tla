---------------------------- MODULE WorkManager ----------------------------
(***************************************************************************)
(* The durable Work lifecycle of src/src/platform.ts: admission, the claim *)
(* transaction, dispatch, the execution of an attempt, its settlement,     *)
(* finalization and release of sandbox jobs, approval, cancellation, and   *)
(* what a coordinator does after a crash.                                  *)
(*                                                                         *)
(* Grain of atomicity.  Every journal transaction is one action: Journal   *)
(* runs them one at a time and commits or rolls back each as a whole       *)
(* (journal.ts:162-177).  Between two transactions of one fiber, and       *)
(* around every call to a provider, everything else may happen.            *)
(*                                                                         *)
(* Durable state survives Crash; fibers, the pass, cancel requests and the *)
(* controllers map do not; the executions at the providers (live) do.      *)
(***************************************************************************)
EXTENDS Naturals, FiniteSets

CONSTANTS
  Works,              \* the submissions that may be admitted
  Contexts,           \* the persistent contexts, already ensured
  Backends,           \* the registered compute backends
  None,               \* no target, no placement, nobody
  Kind,               \* Works -> Kinds, the action of each Work
  Tenant,             \* Works -> positive Nat; the order is that of the names
  Created,            \* Works -> Nat, the clock read at the start of admit
  Target,             \* Works -> Contexts or None
  Eligible,           \* Works -> sets of Backends that pass the static filters
  Capacity,           \* Backends -> Nat
  NeedsApproval,      \* the connector Works whose tool requires a reviewer
  TenantConcurrency,  \* settings.tenantConcurrency
  GlobalConcurrency,  \* settings.globalConcurrency
  MaxCoordinator,     \* bound: coordinators that ever start, one per (re)start
  MaxDeliveries,      \* bound: a Work is redelivered below so many deliveries
  Cancellable,        \* bound: the Works some client may try to cancel
  Revocable,          \* bound: the Works that a later configuration may not grant
  Faulty              \* bound: the Works whose dispatch a failing transaction may end;
                      \* with none of them no transaction fails

Kinds == {"code", "connector", "sandbox", "shell", "sleep"}

ASSUME ConstantsAssumption ==
  /\ Kind \in [Works -> Kinds]
  /\ Tenant \in [Works -> Nat \ {0}]
  /\ Created \in [Works -> Nat]
  /\ Target \in [Works -> Contexts \cup {None}]
  /\ \A w \in Works : (Target[w] # None) <=> (Kind[w] \in {"shell", "sleep"})
  /\ Eligible \in [Works -> SUBSET Backends]
  /\ Capacity \in [Backends -> Nat]
  /\ NeedsApproval \subseteq {w \in Works : Kind[w] = "connector"}
  /\ Cancellable \subseteq Works /\ Revocable \subseteq Works
  /\ Faulty \subseteq Works
  /\ TenantConcurrency \in Nat /\ GlobalConcurrency \in Nat
  /\ MaxCoordinator \in Nat \ {0} /\ MaxDeliveries \in Nat
  /\ None \notin Works \cup Contexts \cup Backends

VARIABLES
  \* Rows of the journal.
  phase,       \* work.state.phase, "held" split by its reason
  outcome,     \* work.state.outcome of a settled Work
  gate,        \* work.gate
  lease,       \* work.lease: generation (0 is null) and holder
  placement,   \* work.placement.chosen
  approved,    \* work.approved: "no", "valid", "lapsed"
  outbox,      \* the outbox row
  job,         \* the job_allocation row: "none", "held", "released"
  ctx,         \* the context rows
  lastTenant,  \* scheduler.last_tenant; 0 is null
  granted,     \* the Works whose principal holds the grant
  late,        \* the Works whose demand.deadline has passed
  outputLate,  \* the finalizing Works whose expiresAt has passed
  \* The coordinator process.
  coordinator, \* up, and the identity this incarnation writes into leases
  pass,        \* the scheduler's pass: claims, then finalization and release
  deliveries,  \* dispatch(work) calls that have not begun
  fiber,       \* where the dispatch fiber of a Work is
  verdict,     \* what the execution of the fiber came to
  canceller,   \* the cancel request of a Work
  \* The world outside, and history.
  live,        \* Works with an execution in progress at a provider
  started,     \* how many executions of a Work ever started
  aborted,     \* Works whose abort signal was raised by a cancel
  instance     \* the provider's sandbox of a job: "none", "exists", "gone"

transition == << phase, outcome, gate, outbox, ctx >>  \* what setState writes
reservation == << lease, placement, approved, job, lastTenant >>
journal == << transition, reservation >>
clock == << granted, late, outputLate >>
process == << coordinator, pass, deliveries, fiber, verdict, canceller >>
world == << live, started, aborted, instance >>
vars == << journal, clock, process, world >>

-----------------------------------------------------------------------------
(* Shapes *)

Waiting == {"queued", "held_context", "held_capacity"}
Active == {"running", "finalizing", "reconciling"}
Phases == {"absent", "held_approval", "settled"} \cup Waiting \cup Active
Outcomes == {"none", "completed", "failed", "interrupted", "cancelled",
             "denied", "queue_deadline", "output_failed"}
OutboxStates == {"none", "pending", "claimed", "dispatched", "done"}
ContextPhases == {"unallocated", "ready", "parked", "blocked"}
FiberStates == {"idle", "accepted", "registered", "refused", "open", "holding",
                "materializing", "prepared", "created", "recorded",
                "executing", "settling"}
PassStates == {"claim", "claiming", "finalizers", "finalize",
               "release", "released"}

Verdict == Outcomes \cup {"uncertain", "finalizing"}

Lease == [generation : Nat, holder : Nat]
Context == [phase : ContextPhases, busy : Works \cup {None},
            backend : Backends \cup {None}, epoch : Nat]
Coordinator == [up : BOOLEAN, id : Nat]
Pass == [pc : PassStates, count : Nat, snapshot : SUBSET Works,
         todo : SUBSET Works, releasing : Works \cup {None}]
Canceller == [pc : {"idle", "observed", "failing"}, unclaimed : BOOLEAN,
              lease : Lease, overtaken : BOOLEAN]
NoLease == [generation |-> 0, holder |-> 0]
PassAt(pc, count) == [pc |-> pc, count |-> count, snapshot |-> {}, todo |-> {},
                      releasing |-> None]
NoPass == PassAt("claim", 0)
NoCancel == [pc |-> "idle", unclaimed |-> FALSE, lease |-> NoLease,
             overtaken |-> FALSE]

\* Every variable holds a value of its type: the shapes of domain.ts and of
\* the tables in migrations/001_core.sql.
TypeOK ==
  /\ phase \in [Works -> Phases]
  /\ outcome \in [Works -> Outcomes]
  /\ gate \in [Works -> BOOLEAN]
  /\ lease \in [Works -> Lease]
  /\ placement \in [Works -> Backends \cup {None}]
  /\ approved \in [Works -> {"no", "valid", "lapsed"}]
  /\ outbox \in [Works -> OutboxStates]
  /\ job \in [Works -> {"none", "held", "released"}]
  /\ ctx \in [Contexts -> Context]
  /\ lastTenant \in Nat
  /\ granted \subseteq Works /\ late \subseteq Works
  /\ outputLate \subseteq Works
  /\ coordinator \in Coordinator
  /\ pass \in Pass
  /\ deliveries \in [Works -> Nat]
  /\ fiber \in [Works -> FiberStates]
  /\ verdict \in [Works -> Verdict]
  /\ canceller \in [Works -> Canceller]
  /\ live \subseteq Works
  /\ started \in [Works -> Nat]
  /\ aborted \subseteq Works
  /\ instance \in [Works -> {"none", "exists", "gone"}]

Init ==
  /\ phase = [w \in Works |-> "absent"]
  /\ outcome = [w \in Works |-> "none"]
  /\ gate = [w \in Works |-> FALSE]
  /\ lease = [w \in Works |-> NoLease]
  /\ placement = [w \in Works |-> None]
  /\ approved = [w \in Works |-> "no"]
  /\ outbox = [w \in Works |-> "none"]
  /\ job = [w \in Works |-> "none"]
  /\ ctx = [c \in Contexts |-> [phase |-> "unallocated", busy |-> None,
                                backend |-> None, epoch |-> 0]]
  /\ lastTenant = 0
  /\ granted = Works /\ late = {} /\ outputLate = {}
  /\ coordinator = [up |-> TRUE, id |-> 1]
  /\ pass = NoPass
  /\ deliveries = [w \in Works |-> 0]
  /\ fiber = [w \in Works |-> "idle"]
  /\ verdict = [w \in Works |-> "none"]
  /\ canceller = [w \in Works |-> NoCancel]
  /\ live = {} /\ aborted = {}
  /\ started = [w \in Works |-> 0]
  /\ instance = [w \in Works |-> "none"]

-----------------------------------------------------------------------------
(* Journal helpers *)

\* Mutant: the journal does not keep the order of its callers.
UnorderedTurn(w) ==
  canceller' = [canceller EXCEPT ![w].overtaken = canceller[w].pc = "observed"]

\* Journal.transaction chains transactions first-in first-out, and cancel
\* chains closeGate the moment its inspect transaction resolves.  The attempt
\* of the same Work chains claim, beginDispatch and dispatchGate each after the
\* one before it resolved, so at most the one that was chained already can
\* commit in between.
AttemptTurn(w) ==
  /\ ~(canceller[w].pc = "observed" /\ canceller[w].overtaken)
  /\ canceller' =
       [canceller EXCEPT ![w].overtaken = canceller[w].pc = "observed"]

\* Mutant: an uncertain outcome gives the context back.
ContextReturned(w, to) ==
  [c \in Contexts |-> IF Target[w] = c /\ ctx[c].busy = w
                      THEN [ctx[c] EXCEPT !.busy = None] ELSE ctx[c]]

\* The context row after setState closes the Work that keeps it busy.
ContextAfter(w, to) ==
  [c \in Contexts |->
     IF ~(Target[w] = c /\ ctx[c].busy = w) THEN ctx[c]
     ELSE IF to = "reconciling" THEN [ctx[c] EXCEPT !.phase = "blocked"]
     ELSE [ctx[c] EXCEPT !.busy = None]]

\* Mutant: whoever has the lease moves the Work, settled or not.
SupersededByLease(w, l) == l.generation # 0 /\ lease[w] # l

\* What keeps a caller who read the Work when its lease was l from moving it: a
\* changed lease is STALE_ATTEMPT and a settled Work is left alone.
Superseded(w, l) ==
  \/ l.generation # 0 /\ lease[w] # l
  \/ phase[w] = "settled"

\* The transition transaction of setState.
SetState(w, l, to, out) ==
  IF Superseded(w, l)
  THEN UNCHANGED << transition >>
  ELSE /\ phase' = [phase EXCEPT ![w] = to]
       /\ outcome' = [outcome EXCEPT ![w] = out]
       /\ IF to \in {"settled", "reconciling"}
          THEN /\ gate' = [gate EXCEPT ![w] = FALSE]
               /\ outbox' = [outbox EXCEPT ![w] = "done"]
               /\ ctx' = ContextAfter(w, to)
          ELSE UNCHANGED << gate, outbox, ctx >>

\* The settlement a verdict leads to: fail turns Uncertain into reconciling.
SettleAs(w, v) ==
  IF v = "uncertain" THEN SetState(w, lease[w], "reconciling", "none")
  ELSE IF v = "finalizing" THEN SetState(w, lease[w], "finalizing", "none")
  ELSE SetState(w, lease[w], "settled", v)

-----------------------------------------------------------------------------
(* Submissions and decisions *)

\* admit: the transaction that creates the Work row.  A connector tool that
\* requires approval starts held and is not enqueued.
Admit(w) ==
  /\ coordinator.up
  /\ phase[w] = "absent" /\ w \in granted
  /\ gate' = [gate EXCEPT ![w] = TRUE]
  /\ IF w \in NeedsApproval
     THEN /\ phase' = [phase EXCEPT ![w] = "held_approval"]
          /\ UNCHANGED outbox
     ELSE /\ phase' = [phase EXCEPT ![w] = "queued"]
          /\ outbox' = [outbox EXCEPT ![w] = "pending"]
  /\ UNCHANGED << outcome, reservation, ctx, clock, process, world >>

\* approve: a reviewer who is not the submitter; the deadline starts afresh.
Approve(w) ==
  /\ coordinator.up
  /\ phase[w] = "held_approval"
  /\ approved' = [approved EXCEPT ![w] = "valid"]
  /\ late' = late \ {w}
  /\ phase' = [phase EXCEPT ![w] = "queued"]
  /\ outbox' = [outbox EXCEPT ![w] = "pending"]
  /\ UNCHANGED << outcome, gate, lease, placement, job, ctx, lastTenant,
                  granted, outputLate, process, world >>

\* cancel, first transaction: observe reads the row.
CancelObserve(w) ==
  /\ coordinator.up /\ w \in Cancellable
  /\ phase[w] # "absent" /\ canceller[w].pc = "idle"
  /\ canceller' = [canceller EXCEPT ![w] =
                     [pc |-> "observed", lease |-> lease[w],
                      unclaimed |-> phase[w] \in Waiting \cup {"held_approval"},
                      overtaken |-> FALSE]]
  /\ UNCHANGED << journal, clock, coordinator, pass, deliveries, fiber,
                  verdict, world >>

\* controllers.has(w): set after beginDispatch, deleted when the fiber ends.
HasController(w) == fiber[w] \notin {"idle", "accepted", "refused"}

\* What cancel does once the gate is closed, when it fails the Work under the
\* condition given.
AfterCloseGate(w, undispatched) ==
  /\ canceller[w].pc = "observed"
  /\ gate' = [gate EXCEPT ![w] = FALSE]
  /\ aborted' = IF HasController(w) THEN aborted \cup {w} ELSE aborted
  /\ canceller' = IF ~HasController(w) /\ undispatched
                  THEN [canceller EXCEPT ![w].pc = "failing"]
                  ELSE [canceller EXCEPT ![w] = NoCancel]
  /\ UNCHANGED << phase, outcome, reservation, outbox, ctx, clock, coordinator,
                  pass, deliveries, fiber, verdict, live, started,
                  instance >>

\* Mutants: whatever has no controller is failed; nothing claimed is.
CancelWithoutController(w) == AfterCloseGate(w, TRUE)
CancelOnlyUnclaimed(w) ==
  AfterCloseGate(w, canceller[w].unclaimed /\ outbox[w] # "claimed")

\* cancel, second transaction: closeGate, and the decision taken on its result,
\* on the controllers map and on the row the first transaction read.
CancelCloseGate(w) ==
  AfterCloseGate(w, outbox[w] = "claimed" \/ canceller[w].unclaimed)

\* cancel, last transaction: fail(work, CANCELLED) with the row it read.
CancelFail(w) ==
  /\ canceller[w].pc = "failing"
  /\ SetState(w, canceller[w].lease, "settled", "cancelled")
  /\ canceller' = [canceller EXCEPT ![w] = NoCancel]
  /\ UNCHANGED << reservation, clock, coordinator, pass, deliveries, fiber,
                  verdict, world >>

-----------------------------------------------------------------------------
(* The claim *)

\* Mutant: the unreleased jobs of settled Works are forgotten.
OccupiedByActive(b) ==
  Cardinality({w \in Works : placement[w] = b /\ phase[w] \in Active})
  + Cardinality({c \in Contexts : /\ ctx[c].backend = b
                                  /\ ctx[c].busy = None
                                  /\ ctx[c].phase = "ready"})

\* The slots of backend b that the claim counts as used: active Works placed
\* there, unreleased jobs of other Works, and ready contexts nobody is using.
Occupied(b) ==
  Cardinality({w \in Works : /\ placement[w] = b
                             /\ phase[w] \in Active \/ job[w] = "held"})
  + Cardinality({c \in Contexts : /\ ctx[c].backend = b
                                  /\ ctx[c].busy = None
                                  /\ ctx[c].phase = "ready"})

\* A Work on a ready context takes over the slot the idle context holds.
Reserved(w, b) ==
  IF /\ Target[w] # None
     /\ ctx[Target[w]].phase = "ready" /\ ctx[Target[w]].backend = b
  THEN 1 ELSE 0

\* selectPlacement: what passes the filters and, for an allocated context, is
\* the backend that holds its state.  The ranking is left open.
Placements(w) ==
  {b \in Eligible[w] :
     /\ Target[w] # None => ctx[Target[w]].backend \in {None, b}
     /\ Occupied(b) < Capacity[b] + Reserved(w, b)}

\* Mutant: a tenant is not charged for what awaits reconciliation.
RunningLoad(t) ==
  Cardinality({w \in Works : Tenant[w] = t /\ phase[w] = "running"})

TenantLoad(t) ==
  Cardinality({w \in Works : Tenant[w] = t /\ phase[w] \in Active})

\* Mutant: the cursor is not used.
FixedTurn(t) == << 0, t >>

\* fairOrder: tenants in order, from the first one after the cursor, and by
\* creation time within a tenant.  Works created in the same millisecond are
\* not ordered: the row order of the SELECT is unspecified.
Turn(t) == IF t > lastTenant THEN << 0, t >> ELSE << 1, t >>
Before(v, w) ==
  LET s == Turn(Tenant[v])
      t == Turn(Tenant[w])
  IN  \/ s[1] < t[1]
      \/ s[1] = t[1] /\ s[2] < t[2]
      \/ s = t /\ Created[v] < Created[w]

ContextTaken(w) ==
  Target[w] # None /\ \/ ctx[Target[w]].busy # None
                      \/ ctx[Target[w]].phase = "blocked"
NoPlacement(w) == Kind[w] # "connector" /\ Placements(w) = {}

\* By the clock the claim read first of all: see TimeStands.
ApprovalMissing(w) == w \in NeedsApproval /\ approved[w] # "valid"

\* Mutants: a busy context is taken; a held Work outlives its deadline.
FateIgnoringBusy(w) ==
  IF w \notin granted THEN "denied"
  ELSE IF w \in late THEN "queue_deadline"
  ELSE IF TenantLoad(Tenant[w]) >= TenantConcurrency THEN "skipped"
  ELSE IF Target[w] # None /\ ctx[Target[w]].phase = "blocked"
       THEN "held_context"
  ELSE IF NoPlacement(w) THEN "held_capacity"
  ELSE "claimed"
FatePlacementFirst(w) ==
  IF w \notin granted THEN "denied"
  ELSE IF NoPlacement(w) THEN "held_capacity"
  ELSE IF w \in late THEN "queue_deadline"
  ELSE IF ContextTaken(w) THEN "held_context"
  ELSE "claimed"

\* What the loop of the claim transaction makes of Work w.
Fate(w) ==
  IF w \notin granted THEN "denied"
  ELSE IF w \in late THEN "queue_deadline"
  ELSE IF TenantLoad(Tenant[w]) >= TenantConcurrency THEN "skipped"
  ELSE IF ContextTaken(w) THEN "held_context"
  ELSE IF NoPlacement(w) THEN "held_capacity"
  ELSE IF ApprovalMissing(w) THEN "held_approval"
  ELSE "claimed"

\* snapshot: the Works whose authority this claim looks up.  The clock its
\* comparisons use was read just before (577); what runs out or is approved
\* between the two might as well do so after the one or before the other.
Snapshot ==
  /\ coordinator.up /\ pass.pc = "claim"
  /\ pass' = [pass EXCEPT !.pc = "claiming",
                          !.snapshot = {w \in Works : phase[w] \in Waiting}]
  /\ UNCHANGED << journal, clock, coordinator, deliveries, fiber, verdict,
                  canceller, world >>

\* The rows the claim goes through: enqueued, and in the snapshot.
Pending == {w \in pass.snapshot : outbox[w] = "pending"}

\* The rows after the Works in passed were gone through without a claim.
PhaseAfter(w, passed) ==
  IF w \notin passed \/ Fate(w) = "skipped" THEN phase[w]
  ELSE IF Fate(w) \in {"denied", "queue_deadline"} THEN "settled"
  ELSE Fate(w)
Closed(passed) == {w \in passed : Fate(w) \in {"denied", "queue_deadline"}}
PassOver(passed) ==
  /\ outcome' = [w \in Works |-> IF w \in Closed(passed) THEN Fate(w)
                                 ELSE outcome[w]]
  /\ gate' = [w \in Works |-> gate[w] /\ w \notin Closed(passed)]

\* claim: the first Work in fair order that can run is claimed, those before it
\* are settled, held or skipped.
Claim(w) ==
  \E tied \in SUBSET {v \in Pending \ {w} :
                      ~Before(v, w) /\ ~Before(w, v) /\ Fate(v) # "claimed"} :
  LET passed == tied \cup {v \in Pending : Before(v, w)}
  IN  /\ pass.pc = "claiming"
      /\ Cardinality({v \in Works : phase[v] \in Active}) < GlobalConcurrency
      /\ w \in Pending /\ Fate(w) = "claimed"
      /\ \A v \in Pending : Before(v, w) => Fate(v) # "claimed"
      /\ AttemptTurn(w)
      /\ PassOver(passed)
      /\ phase' = [v \in Works |-> IF v = w THEN "running"
                                   ELSE PhaseAfter(v, passed)]
      /\ lease' = [lease EXCEPT ![w] =
                     [generation |-> lease[w].generation + 1,
                      holder |-> coordinator.id]]
      /\ IF Kind[w] = "connector" THEN UNCHANGED placement
         ELSE \E b \in Placements(w) :
                placement' = [placement EXCEPT ![w] = b]
      /\ ctx' = [c \in Contexts |->
                   IF Target[w] = c THEN [ctx[c] EXCEPT !.busy = w] ELSE ctx[c]]
      /\ outbox' = [v \in Works |-> IF v = w THEN "claimed"
                                    ELSE IF v \in Closed(passed) THEN "done"
                                    ELSE outbox[v]]
      /\ lastTenant' = Tenant[w]
      /\ deliveries' = [deliveries EXCEPT ![w] = deliveries[w] + 1]
      /\ pass' = PassAt(IF pass.count + 1 < GlobalConcurrency
                        THEN "claim" ELSE "finalizers", pass.count + 1)
      /\ UNCHANGED << approved, job, clock, coordinator, fiber, verdict,
                      world >>

\* claim returns null with every slot taken, before it looks at any Work.
ClaimSaturated ==
  /\ pass.pc = "claiming"
  /\ Cardinality({v \in Works : phase[v] \in Active}) >= GlobalConcurrency
  /\ pass' = PassAt("finalizers", 0)
  /\ UNCHANGED << journal, clock, coordinator, deliveries, fiber, verdict,
                  canceller, world >>

\* claim returns null after it went through every pending Work.
ClaimNothing ==
  /\ pass.pc = "claiming"
  /\ Cardinality({v \in Works : phase[v] \in Active}) < GlobalConcurrency
  /\ \A v \in Pending : Fate(v) # "claimed"
  /\ PassOver(Pending)
  /\ phase' = [v \in Works |-> PhaseAfter(v, Pending)]
  /\ outbox' = [v \in Works |-> IF v \in Closed(Pending) THEN "done"
                                ELSE outbox[v]]
  /\ pass' = PassAt("finalizers", 0)
  /\ UNCHANGED << reservation, ctx, clock, coordinator, deliveries, fiber,
                  verdict, canceller, world >>

-----------------------------------------------------------------------------
(* Dispatch *)

\* Another call of dispatch with a Work that claim returned to this process.
Redeliver(w) ==
  /\ coordinator.up
  /\ lease[w].holder = coordinator.id
  /\ deliveries[w] < MaxDeliveries
  /\ deliveries' = [deliveries EXCEPT ![w] = deliveries[w] + 1]
  /\ UNCHANGED << journal, clock, coordinator, pass, fiber, verdict, canceller,
                  world >>

\* Mutant: the gate is not read again.
DispatchAllowedUngated(w) ==
  phase[w] = "running" /\ lease[w].holder = coordinator.id

\* What beginDispatch requires of the row, besides an outbox row just claimed.
DispatchAllowed(w) ==
  /\ phase[w] = "running" /\ gate[w]
  /\ lease[w].holder = coordinator.id

\* The delivery goes on: the outbox row is dispatched, the fiber accepted.
AcceptDelivery(w) ==
  /\ deliveries[w] > 0
  /\ DispatchAllowed(w)
  /\ AttemptTurn(w)
  /\ deliveries' = [deliveries EXCEPT ![w] = deliveries[w] - 1]
  /\ outbox' = [outbox EXCEPT ![w] = "dispatched"]
  /\ fiber' = [fiber EXCEPT ![w] = "accepted"]
  /\ UNCHANGED << phase, outcome, gate, reservation, ctx, clock, coordinator,
                  pass, verdict, world >>

\* Mutant: every delivery of a running Work is accepted.
BeginDispatchAgain(w) == AcceptDelivery(w)

\* beginDispatch: one delivery turns the claimed outbox row into dispatched.
BeginDispatch(w) == outbox[w] = "claimed" /\ AcceptDelivery(w)

\* The delivery returns and leaves the rows as they are.
DropDelivery(w) ==
  /\ deliveries' = [deliveries EXCEPT ![w] = deliveries[w] - 1]
  /\ UNCHANGED << journal, clock, coordinator, pass, fiber, verdict, canceller,
                  world >>

\* beginDispatch refuses.
RefuseDispatch(w) ==
  /\ deliveries[w] > 0
  /\ ~DispatchAllowed(w) \/ outbox[w] # "claimed"
  /\ DropDelivery(w)

\* controllers.set
RegisterController(w) ==
  /\ fiber[w] = "accepted"
  /\ fiber' = [fiber EXCEPT ![w] = "registered"]
  /\ UNCHANGED << journal, clock, coordinator, pass, deliveries, verdict,
                  canceller, world >>

\* dispatchGate: the last look at the gate before anything runs.
DispatchGate(w) ==
  /\ fiber[w] = "registered"
  /\ AttemptTurn(w)
  /\ IF gate[w]
     THEN /\ fiber' = [fiber EXCEPT ![w] = "open"]
          /\ UNCHANGED verdict
     ELSE /\ fiber' = [fiber EXCEPT ![w] = "refused"]
          /\ verdict' = [verdict EXCEPT ![w] = "cancelled"]
  /\ UNCHANGED << journal, clock, coordinator, pass, deliveries, world >>

-----------------------------------------------------------------------------
(* run: what precedes the execution *)

\* The fiber of w reached verdict v and is about to record it.
Conclude(w, v) ==
  /\ fiber' = [fiber EXCEPT ![w] = "settling"]
  /\ verdict' = [verdict EXCEPT ![w] = v]

\* What a step before the execution may come to instead: a Fault, a provider's
\* answer that is lost, or the deadline of dispatch, which is Interrupt for code
\* and Uncertain for everything else.
EarlyVerdicts(w) ==
  {"failed", IF Kind[w] = "code" THEN "interrupted" ELSE "uncertain"}

\* run looks up authority again and checks the Work against the catalog; the
\* resources, profiles and providers it needs may fail.  A sandbox whose create
\* call failed may exist all the same, and once one exists only the journal can
\* fail before it is recorded.
FailBeforeExecution(w) ==
  /\ fiber[w] \in {"open", "holding", "created", "recorded", "prepared"}
  /\ fiber[w] = "created" => w \in Faulty
  /\ \E v \in EarlyVerdicts(w) : Conclude(w, v)
  /\ \/ UNCHANGED instance
     \/ /\ fiber[w] = "open" /\ Kind[w] = "sandbox" /\ w \in granted
        /\ instance' = [instance EXCEPT ![w] = "exists"]
  /\ UNCHANGED << journal, clock, coordinator, pass, deliveries, canceller,
                  live, started, aborted >>

Execute(w) ==
  /\ fiber' = [fiber EXCEPT ![w] = "executing"]
  /\ live' = live \cup {w}
  /\ started' = [started EXCEPT ![w] = started[w] + 1]

\* The program, the tool, the job or the command starts at the provider.
StartExecution(w) ==
  /\ \/ fiber[w] = "open" /\ Kind[w] \in {"code", "connector"} /\ w \in granted
     \/ fiber[w] \in {"recorded", "prepared"}
  /\ Execute(w)
  /\ UNCHANGED << journal, clock, coordinator, pass, deliveries, verdict,
                  canceller, aborted, instance >>

\* sandbox.run: backend.create returns an allocation.
CreateInstance(w) ==
  /\ fiber[w] = "open" /\ Kind[w] = "sandbox" /\ w \in granted
  /\ fiber' = [fiber EXCEPT ![w] = "created"]
  /\ instance' = [instance EXCEPT ![w] = "exists"]
  /\ UNCHANGED << journal, clock, coordinator, pass, deliveries, verdict,
                  canceller, live, started, aborted >>

\* sandbox.run: the sandboxAllocation transaction records it.
RecordAllocation(w) ==
  /\ fiber[w] = "created"
  /\ job' = [job EXCEPT ![w] = "held"]
  /\ fiber' = [fiber EXCEPT ![w] = "recorded"]
  /\ UNCHANGED << transition, lease, placement, approved, lastTenant, clock,
                  coordinator, pass, deliveries, verdict, canceller, world >>

\* getContext: the Work must still keep the context busy.
OpenContext(w) ==
  /\ fiber[w] = "open" /\ Kind[w] \in {"shell", "sleep"} /\ w \in granted
  /\ IF ctx[Target[w]].busy = w
     THEN /\ fiber' = [fiber EXCEPT ![w] = "holding"]
          /\ UNCHANGED verdict
     ELSE Conclude(w, "failed")
  /\ UNCHANGED << journal, clock, coordinator, pass, deliveries, canceller,
                  world >>

\* context.sleep of a context that was never allocated is done already.
SleepUnallocated(w) ==
  /\ fiber[w] = "holding" /\ Kind[w] = "sleep"
  /\ ctx[Target[w]].phase = "unallocated"
  /\ Conclude(w, "completed")
  /\ UNCHANGED << journal, clock, coordinator, pass, deliveries, canceller,
                  world >>

\* saveContext of the fiber's copy: the row must still be busy with w.
SaveContext(w, c, next) ==
  IF ctx[c].busy = w
  THEN /\ ctx' = [ctx EXCEPT ![c] = next]
       /\ UNCHANGED << phase, outcome, gate, reservation, outbox >>
  ELSE UNCHANGED journal

\* ensureAllocation: a ready context is used as it is, a parked one is woken, a
\* new one is created and recorded before its seed is uploaded.
EnsureAllocation(w) ==
  LET c == Target[w]
      allocated == [ctx[c] EXCEPT !.phase = "ready", !.backend = placement[w],
                                  !.epoch = ctx[c].epoch + 1]
  IN  /\ fiber[w] = "holding"
      /\ ctx[c].phase # "blocked"
      /\ ctx[c].phase = "unallocated" => Kind[w] # "sleep"
      /\ IF ctx[c].phase = "ready"
         THEN /\ fiber' = [fiber EXCEPT ![w] = "prepared"]
              /\ UNCHANGED journal
         ELSE /\ SaveContext(w, c, allocated)
              /\ fiber' = [fiber EXCEPT ![w] =
                             IF ctx[c].phase = "parked" THEN "prepared"
                             ELSE "materializing"]
      /\ UNCHANGED << clock, coordinator, pass, deliveries, verdict, canceller,
                      world >>

\* initialize and upload of the seed.  A failure blocks the context for good,
\* the deadline interrupts them.
Materialize(w) ==
  /\ fiber[w] = "materializing"
  /\ \/ /\ fiber' = [fiber EXCEPT ![w] = "prepared"]
        /\ UNCHANGED << journal, verdict >>
     \/ Conclude(w, "uncertain") /\ UNCHANGED journal
     \/ /\ SaveContext(w, Target[w],
                       [ctx[Target[w]] EXCEPT !.phase = "blocked"])
        /\ \E v \in EarlyVerdicts(w) : Conclude(w, v)
  /\ UNCHANGED << clock, coordinator, pass, deliveries, canceller, world >>

-----------------------------------------------------------------------------
(* The execution ends, and its verdict is recorded *)

\* What an execution may come to.  Uncertain is a lost answer, an unknown effect
\* or, for anything but code, the deadline.
Verdicts(w) ==
  {"failed", "uncertain"}
  \cup (IF Kind[w] = "sandbox" THEN {"finalizing"} ELSE {"completed"})
  \cup (IF Kind[w] = "code" THEN {"interrupted"} ELSE {})
  \cup (IF Kind[w] # "connector" /\ w \in aborted THEN {"cancelled"} ELSE {})

\* Only a result proves that the execution is over.  A program may go on behind a
\* gateway that was told to abort, missed the deadline or answered with an error,
\* and a command whose controller was killed; the call of a tool fails without a
\* request or with its answer.
GoesOn(w, v) ==
  \/ v = "uncertain"
  \/ Kind[w] # "connector" /\ v \notin {"completed", "finalizing"}

\* A sleep that completed has parked its context, which saveContext records.
EndExecution(w) ==
  /\ fiber[w] = "executing"
  /\ \E v \in Verdicts(w) :
       /\ Conclude(w, v)
       /\ \/ live' = live \ {w}
          \/ GoesOn(w, v) /\ UNCHANGED live
       /\ IF Kind[w] = "sleep" /\ v = "completed"
          THEN SaveContext(w, Target[w],
                           [ctx[Target[w]] EXCEPT !.phase = "parked"])
          ELSE UNCHANGED journal
  /\ UNCHANGED << clock, coordinator, pass, deliveries, canceller, started,
                  aborted, instance >>

\* reserveCall at the limit of calls closes the gate of the program that calls.
LimitCalls(w) ==
  /\ fiber[w] = "executing" /\ Kind[w] = "code"
  /\ gate' = [gate EXCEPT ![w] = FALSE]
  /\ UNCHANGED << phase, outcome, reservation, outbox, ctx, clock, process,
                  world >>

\* setState from the fiber, after which it ends and deletes its controller.  The
\* deadline of dispatch may still interrupt run between the commit of finalizing
\* and the return of setState, and then fail comes second.
Settle(w) ==
  /\ fiber[w] \in {"settling", "refused"}
  /\ SettleAs(w, verdict[w])
  /\ \/ /\ fiber' = [fiber EXCEPT ![w] = "idle"]
        /\ verdict' = [verdict EXCEPT ![w] = "none"]
     \/ verdict[w] = "finalizing" /\ Conclude(w, "uncertain")
  /\ UNCHANGED << reservation, clock, coordinator, pass, deliveries, canceller,
                  world >>

-----------------------------------------------------------------------------
(* The rest of the pass: finalization and release *)

\* finalizers: the finalizing Works, as they are now.
ListFinalizers ==
  /\ pass.pc = "finalizers"
  /\ pass' = [pass EXCEPT !.pc = "finalize",
                          !.todo = {w \in Works : phase[w] = "finalizing"}]
  /\ UNCHANGED << journal, clock, coordinator, deliveries, fiber, verdict,
                  canceller, world >>

\* One of them: settled as failed once its lease is over; captured, published
\* and completed otherwise, unless something fails and the next pass retries.
Finalize(w) ==
  /\ pass.pc = "finalize" /\ w \in pass.todo
  /\ pass' = [pass EXCEPT !.todo = pass.todo \ {w}]
  /\ IF w \in outputLate
     THEN SetState(w, lease[w], "settled", "output_failed")
     ELSE \/ SetState(w, lease[w], "settled", "completed")
          \/ UNCHANGED << transition >>
  /\ UNCHANGED << reservation, clock, coordinator, deliveries, fiber, verdict,
                  canceller, world >>

ListToRelease(candidates) ==
  /\ pass.pc = "finalize" /\ pass.todo = {}
  /\ pass' = [PassAt("release", 0) EXCEPT !.todo =
                {w \in candidates : job[w] = "held"}]
  /\ UNCHANGED << journal, clock, coordinator, deliveries, fiber, verdict,
                  canceller, world >>

\* Mutants: every unreleased job, settled or not; those of completed Works.
ListAllJobs == ListToRelease(Works)
ListCompleted == ListToRelease({w \in Works : outcome[w] = "completed"})

\* releaseCandidates: the unreleased jobs of settled Works.
ListReleases == ListToRelease({w \in Works : phase[w] = "settled"})

\* backend.release succeeds: the sandbox is gone with what still ran in it, and
\* the released transaction is next ...
ReleaseInstance(w) ==
  /\ pass.pc = "release" /\ w \in pass.todo
  /\ instance' = [instance EXCEPT ![w] = "gone"]
  /\ pass' = [pass EXCEPT !.pc = "released", !.todo = pass.todo \ {w},
                          !.releasing = w]
  /\ live' = live \ {w}
  /\ UNCHANGED << journal, clock, coordinator, deliveries, fiber, verdict,
                  canceller, started, aborted >>

RecordRelease(w) ==
  /\ pass.pc = "released" /\ pass.releasing = w
  /\ job' = [job EXCEPT ![w] = "released"]
  /\ pass' = [pass EXCEPT !.pc = "release", !.releasing = None]
  /\ UNCHANGED << transition, lease, placement, approved, lastTenant, clock,
                  coordinator, deliveries, fiber, verdict, canceller,
                  world >>

\* ... or it fails: releaseFailed notes the error, and a later pass retries.
FailRelease(w) ==
  /\ pass.pc = "release" /\ w \in pass.todo
  /\ pass' = [pass EXCEPT !.todo = pass.todo \ {w}]
  /\ UNCHANGED << journal, clock, coordinator, deliveries, fiber, verdict,
                  canceller, world >>

\* The pass ends and the schedule starts the next one.  The context.sleep it
\* submits for idle contexts are Works like any other (Admit).
EndPass ==
  /\ pass.pc = "release" /\ pass.todo = {}
  /\ pass' = NoPass
  /\ UNCHANGED << journal, clock, coordinator, deliveries, fiber, verdict,
                  canceller, world >>

-----------------------------------------------------------------------------
(* Time, failures and restarts *)

\* The claim compares deadlines and approvals with a clock it read before its
\* snapshot (577), so that what runs out between the two is taken for good still.
\* Nothing else reads them: here they run out before the one or after the other.
TimeStands == pass.pc = "claiming"

\* The deadline of a Work passes.  Only the claim reads it: that of a running
\* attempt is one of its verdicts, and approve sets it anew.
Expire(w) ==
  /\ ~TimeStands /\ phase[w] \in Waiting /\ w \notin late
  /\ late' = late \cup {w}
  /\ UNCHANGED << journal, granted, outputLate, process, world >>

\* The minute an approval is good for passes.
LapseApproval(w) ==
  /\ ~TimeStands /\ approved[w] = "valid"
  /\ approved' = [approved EXCEPT ![w] = "lapsed"]
  /\ UNCHANGED << transition, lease, placement, job, lastTenant, clock,
                  process, world >>

\* The publication lease of a finalizing Work passes, for a pass that goes through
\* its list by the clock it read before it (1529) once that pass is done with w.
ExpireOutput(w) ==
  /\ phase[w] = "finalizing" /\ w \notin outputLate
  /\ ~(pass.pc = "finalize" /\ w \in pass.todo)
  /\ outputLate' = outputLate \cup {w}
  /\ UNCHANGED << journal, granted, late, process, world >>

\* An execution that went on without its fiber comes to its end at the provider.
OrphanEnds(w) ==
  /\ w \in live /\ fiber[w] # "executing"
  /\ live' = live \ {w}
  /\ UNCHANGED << journal, clock, process, started, aborted, instance >>

\* A transaction of the dispatch fails, the one that would record a failure
\* included: the fiber dies and the row keeps the state it has.
DispatchDies(w) ==
  /\ w \in Faulty
  /\ \/ /\ deliveries[w] > 0
        /\ deliveries' = [deliveries EXCEPT ![w] = deliveries[w] - 1]
        /\ UNCHANGED << fiber, verdict >>
     \/ /\ fiber[w] \in {"registered", "refused", "settling"}
        /\ fiber' = [fiber EXCEPT ![w] = "idle"]
        /\ verdict' = [verdict EXCEPT ![w] = "none"]
        /\ UNCHANGED deliveries
  /\ UNCHANGED << journal, clock, coordinator, pass, canceller, world >>

\* A transaction of the pass or of a cancel fails.
RequestDies ==
  /\ Faulty # {}
  /\ \/ /\ coordinator.up /\ pass # NoPass
        /\ pass' = NoPass
        /\ UNCHANGED canceller
     \/ /\ \E w \in Works :
             /\ canceller[w].pc # "idle"
             /\ canceller' = [canceller EXCEPT ![w] = NoCancel]
        /\ UNCHANGED pass
  /\ UNCHANGED << journal, clock, coordinator, deliveries, fiber, verdict,
                  world >>

\* The process dies: what it held in memory is gone, the executions are not.
Crash ==
  /\ coordinator.up /\ coordinator.id < MaxCoordinator
  /\ coordinator' = [coordinator EXCEPT !.up = FALSE]
  /\ pass' = NoPass
  /\ deliveries' = [w \in Works |-> 0]
  /\ fiber' = [w \in Works |-> "idle"]
  /\ verdict' = [w \in Works |-> "none"]
  /\ canceller' = [w \in Works |-> NoCancel]
  /\ UNCHANGED << journal, clock, world >>

\* Mutant: only what was dispatched is considered lost.
LostInFlight == {w \in Works : phase[w] = "running" /\ outbox[w] = "dispatched"}
Lost == {w \in Works : phase[w] = "running"}

\* The rows after recover fenced the lost Works, given what becomes of the outbox.
Fence(closed) ==
  /\ ~coordinator.up
  /\ coordinator' = [up |-> TRUE, id |-> coordinator.id + 1]
  /\ \E revoked \in SUBSET Revocable : granted' = granted \ revoked
  /\ gate' = [w \in Works |-> gate[w] /\ w \notin Lost]
  /\ phase' = [w \in Works |-> IF w \in Lost THEN "reconciling" ELSE phase[w]]
  /\ lease' = [w \in Works |->
                 IF w \in Lost
                 THEN [generation |-> lease[w].generation + 1,
                       holder |-> coordinator.id + 1]
                 ELSE lease[w]]
  /\ outbox' = [w \in Works |-> IF w \in closed THEN "done" ELSE outbox[w]]
  /\ ctx' = [c \in Contexts |->
               IF \E w \in Lost : Target[w] = c
               THEN [ctx[c] EXCEPT !.phase = "blocked",
                                   !.epoch = ctx[c].epoch + 1]
               ELSE ctx[c]]
  /\ UNCHANGED << outcome, placement, approved, job, lastTenant, late,
                  outputLate, pass, deliveries, fiber, verdict, canceller,
                  world >>

\* Mutant: the outbox row stays claimed.
RecoverLeavingOutbox == Fence({})

\* recover, the first transaction of a new coordinator, whose configuration may
\* grant less: every running Work is fenced for reconciliation.
Recover == Fence(Lost)

-----------------------------------------------------------------------------

Cancel(w) == CancelObserve(w) \/ CancelCloseGate(w) \/ CancelFail(w)

\* One step of the dispatch fiber of w.
Attempt(w) ==
  \/ BeginDispatch(w) \/ RefuseDispatch(w) \/ RegisterController(w)
  \/ DispatchGate(w) \/ FailBeforeExecution(w) \/ CreateInstance(w)
  \/ RecordAllocation(w) \/ OpenContext(w) \/ SleepUnallocated(w)
  \/ EnsureAllocation(w) \/ Materialize(w) \/ StartExecution(w)
  \/ LimitCalls(w) \/ EndExecution(w) \/ Settle(w)

PassStep ==
  \/ Snapshot \/ ClaimSaturated \/ ClaimNothing \/ ListFinalizers
  \/ ListReleases \/ EndPass
  \/ \E w \in Works : \/ Claim(w) \/ Finalize(w) \/ ReleaseInstance(w)
                      \/ RecordRelease(w) \/ FailRelease(w)

Time(w) == Expire(w) \/ LapseApproval(w) \/ ExpireOutput(w) \/ OrphanEnds(w)

Next ==
  \/ \E w \in Works :
       \/ Admit(w) \/ Approve(w) \/ Cancel(w) \/ Redeliver(w) \/ Attempt(w)
       \/ Time(w) \/ DispatchDies(w)
  \/ PassStep \/ RequestDies \/ Crash \/ Recover

Spec == Init /\ [][Next]_vars

(* Fairness.  The schedule repeats the pass for ever, an accepted request  *)
(* and a dispatch fiber go on until they end, a provider answers or the    *)
(* deadline of dispatch answers for it, and a provider asked again and     *)
(* again to release a job does so in the end.  Time passes however often a *)
(* pass holds it up.  Nobody is obliged to submit, approve, cancel or      *)
(* restart.                                                                *)
Fairness ==
  /\ WF_vars(PassStep)
  /\ \A w \in Works :
       /\ WF_vars(Attempt(w))
       /\ WF_vars(CancelCloseGate(w)) /\ WF_vars(CancelFail(w))
       /\ SF_vars(Expire(w)) /\ SF_vars(ExpireOutput(w))
       /\ SF_vars(ReleaseInstance(w))

FairSpec == Spec /\ Fairness

-----------------------------------------------------------------------------
(* Safety *)

\* A Work is executed at most once, whatever the deliveries, cancellations,
\* journal failures and restarts: beginDispatch consumes the claimed row and
\* recover never requeues (README.md:69, "never blind replay").
AtMostOneExecution == \A w \in Works : started[w] <= 1

\* Of the executions in progress on a context, those that outlived their
\* coordinator or their deadline included, one at most is of a Work that has no
\* final receipt: what busy and blocked are for.  What a failed Work left behind
\* is stopped by quiesce before the next command (Pod).
ExclusiveContext ==
  \A v, w \in live :
    v # w /\ Target[v] # None /\ Target[v] = Target[w] =>
      "settled" \in {phase[v], phase[w]}

\* A context is busy with exactly the running or reconciling Work that targets
\* it: a claim takes it, setState gives it back, and uncertainty keeps it.
BusyIsHeld ==
  \A c \in Contexts, w \in Works :
    ctx[c].busy = w <=> Target[w] = c /\ phase[w] \in {"running", "reconciling"}

\* The outbox row, the gate and the lease agree with the phase, so that a
\* restart finds every queued Work enqueued and no closed Work claimable.
OutboxMirrorsPhase ==
  \A w \in Works :
    /\ phase[w] \in Waiting => outbox[w] = "pending"
    /\ phase[w] = "running" => /\ outbox[w] \in {"claimed", "dispatched"}
                               /\ lease[w].generation = 1
    /\ phase[w] = "finalizing" => outbox[w] = "dispatched"
    /\ phase[w] \in {"reconciling", "settled"} => /\ outbox[w] = "done"
                                                  /\ ~gate[w]

\* The jobs and contexts on record at a backend, and the programs there of Works
\* without a final receipt, never exceed its capacity, although a slot passes
\* from a running Work to its idle context or unreleased job, and from an idle
\* context to the next Work.
WithinCapacity ==
  \A b \in Backends :
    Cardinality({w \in Works : /\ placement[w] = b
                               /\ \/ job[w] = "held"
                                  \/ /\ Kind[w] = "code"
                                     /\ w \in live /\ phase[w] # "settled"})
    + Cardinality({c \in Contexts : ctx[c].backend = b /\ ctx[c].phase = "ready"})
      <= Capacity[b]

\* The running, finalizing and reconciling Works stay within the tenant and the
\* global limits.
WithinConcurrency ==
  LET active == {w \in Works : phase[w] \in Active}
  IN  /\ Cardinality(active) <= GlobalConcurrency
      /\ \A w \in active :
           Cardinality({v \in active : Tenant[v] = Tenant[w]}) <= TenantConcurrency

\* A Work is reported cancelled only when nothing was executed, or when its
\* execution was told to abort: a cancel that races with the attempt never
\* erases an outcome (ARCHITECTURE.md:684).
CancelledHonestly ==
  \A w \in Works :
    outcome[w] = "cancelled" => started[w] = 0 \/ w \in aborted

\* The sandbox of a job outlives its finalization: while outputs may still be
\* captured it exists and is recorded, and once it is gone its Work is settled.
OutputsOutliveExecution ==
  \A w \in Works :
    /\ phase[w] = "finalizing" => instance[w] = "exists" /\ job[w] = "held"
    /\ instance[w] = "gone" => phase[w] = "settled"
    /\ job[w] = "released" => instance[w] = "gone"

\* Receipts are final: a settled Work keeps its outcome, and a reconciling one
\* is not taken up again, by a cancel that read an older row least of all.  Only
\* the finalization of a job that exited with success may still settle it.
ReceiptsAreFinal ==
  [][\A w \in Works :
       /\ phase[w] = "settled" => phase'[w] = "settled" /\ outcome'[w] = outcome[w]
       /\ phase[w] = "reconciling" =>
            \/ phase'[w] = "reconciling"
            \/ job[w] = "held" /\ phase'[w] = "settled"
                              /\ outcome'[w] \in {"completed", "output_failed"}]_vars

\* "The finalization pass alone owns publication/release" (platform.ts:1312): a
\* job that exited with success leaves finalizing for its receipt.
PassOwnsFinalization ==
  [][\A w \in Works : phase[w] = "finalizing" =>
                        phase'[w] \in {"finalizing", "settled"}]_vars

\* What the client is told of Work w, and where its execution is.
Receipt(w) == CASE phase[w] = "settled" -> outcome[w]
                [] phase[w] = "reconciling" -> "unknown"
                [] OTHER -> "none"
Execution(w) == IF w \in live THEN "going"
                ELSE IF started[w] = 0 THEN "never" ELSE "over"

\* What a client is promised of its Works: executed once at most, never begun after
\* the receipt, with a receipt that is final and that the execution bears out,
\* whatever is cancelled, lost, delivered twice or restarted on the way.
Promise == INSTANCE Lifecycle WITH
  Jobs <- {w \in Works : Kind[w] = "sandbox"},
  Effortless <- {w \in Works : Kind[w] = "sleep"},
  receipt <- [w \in Works |-> Receipt(w)],
  execution <- [w \in Works |-> Execution(w)],
  told <- [w \in Works |-> w \in aborted]
ImplementsLifecycle == Promise!LifecycleSpec

\* Tenants take turns (scheduler.ts:79-91 and the durable cursor): a tenant is
\* not served twice in a row while another one has a Work that could run, and
\* within a tenant a Work is not overtaken by a later one.
FairTurns ==
  [][\A v, w \in Works :
       /\ phase[w] # "running" /\ phase'[w] = "running"
       /\ v \in Pending /\ Fate(v) = "claimed" /\ v # w
       => /\ Tenant[w] = lastTenant => Tenant[v] = Tenant[w]
          /\ Tenant[v] = Tenant[w] => Created[w] <= Created[v]]_vars

\* Where no transaction of the dispatch fails, a running Work that no dispatch call
\* or fiber of this coordinator attends is one that beginDispatch refused because a
\* cancel had closed its gate before the claim, which does not read it
\* (platform.ts:641): nothing was executed, and its row stays claimed, so that a
\* second cancel settles it (1728).
UnattendedIsUntouched ==
  \A w \in Works \ Faulty :
    coordinator.up /\ phase[w] = "running" /\ deliveries[w] = 0 /\ fiber[w] = "idle" =>
      ~gate[w] /\ outbox[w] = "claimed" /\ started[w] = 0

-----------------------------------------------------------------------------
(* Liveness *)

\* A queued Work comes to an end of its own: it settles, needs a reviewer, or
\* waits for reconciliation.
EveryWorkConcludes ==
  \A w \in Works :
    phase[w] = "queued" ~>
      phase[w] \in {"settled", "reconciling", "held_approval"}

\* "Deadlines expire queued work with no effects" (ARCHITECTURE.md:353): a Work
\* whose deadline passed does not wait for ever.
DeadlineBoundsQueue ==
  \A w \in Works :
    (phase[w] \in Waiting /\ w \in late) ~> phase[w] \notin Waiting

\* Every job that was recorded is eventually released, once its Work settled.
JobsAreReleased ==
  \A w \in Works : (phase[w] = "settled" /\ job[w] = "held") ~> job[w] = "released"

=============================================================================
