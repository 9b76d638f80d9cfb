# Verification of the action platform

TLA+ modules for the platform in `src/`, TLC configurations that check them on small instances, and
proofs that TLAPS checks for every value of the constants. Lines below are those of `src/src/platform.ts`
unless another file is named.

## The system

A coordinator process accepts *Works* (a program, a connector call, a sandbox job, a shell command, a
context sleep), queues them in a journal (PostgreSQL or PGlite), claims them in fair order, dispatches
each to a provider, records what came of it, and finalizes and releases sandbox jobs.

| Component | State it keeps | Operations | Interacts with |
| --- | --- | --- | --- |
| Work lifecycle, `platform.ts` | `work`, `outbox`, `job_allocation`, `context`, `scheduler` rows; `controllers` map, fibers, pass lock | admit, claim, dispatch/run, setState, fail, pass, cancel, approve, recover | every other component; every change is a journal transaction |
| Scheduler policy, `scheduler.ts` | none (the cursor is a row) | fairOrder, selectPlacement | called inside the claim transaction |
| Code broker, 950-1085 | `calls`, `inFlight` of the row, tool events | reserveCall, toolObserved, releaseCall | called back by interpreters during an execution; calls tools and MCP servers |
| Contexts, 805-878 and 1315-1410 | `context` rows: phase, epoch, cursor, last seal | getContext, ensureAllocation, saveContext, seal, sleep | the dispatch fiber; the claim reads them; the end of the pass asks for sleeps (1590-1626) |
| Admission, 274-461 | `work` rows by tenant and key, their digests | lookupSubmission, admit, submit | HTTP; bindings and thread tools, which it freezes into the Work |
| Bindings, 1627-1680 and 158-238 | `binding`, `binding_request`, `thread_tools` rows with revisions | bind, threadTools, configureTools | HTTP; read by admit |
| Journal, `journal.ts` | the database, its two locks, the chain of transactions | open, transaction, close | everything durable |
| Resources, `resources.ts` | blob files, `resource` rows | put, publish, read | results, seeds and outputs of Works |
| Providers, `backends/*`, `providers/*` | remote or child processes; on Kubernetes an object, its conditions and its pod | create, run, capture, release, park, wake | called by dispatch and pass |
| MCP client, `mcp.ts` | a session for each discovery and call; the frozen tools are kept in the Work | freeze, invoke | admission and connector Works |
| HTTP, schemas, configuration, observability | none that is read back | decode, wire, report | call one operation each |

What makes it hard: between two transactions of a fiber anything else may happen; cancel decides with a
row it read earlier; the deadline of dispatch interrupts a fiber wherever it awaits; a restart finds
executions that may still be going on at providers; a slot of a backend passes between rows of three
tables; every transaction can fail; a client that lost an answer asks again under the same key; what
another system was asked to do may be done after its answer was given up.

What has to be right: a Work is executed at most once and does not begin after its receipt; no result is
reported while it goes on; receipts are final; one execution at a time on a context; slots and limits hold; outputs are captured before their
sandbox goes; tenants take turns; everything queued concludes; a request key means one thing for ever; what a
Work was admitted with is what was in force; a failure is reported only of what did not happen. `PROJECT.json` lists the hazards at their
lines with the properties that cover them.

## Modules

| Module | What it is |
| --- | --- |
| `WorkManager` | the lifecycle of `platform.ts` with the scheduling policy, contexts as far as the lifecycle touches them, and the provider as an adversary |
| `Lifecycle` | what a client is promised of a Work: executed once at most, never begun after its receipt, a final receipt that the execution bears out |
| `WorkManagerInvariant` | the inductive invariant `IInv`, one part per row or process |
| `WorkManagerProofs` | the theorems that follow from it, the refinement of `Lifecycle` among them |
| `LimitProofs` | the theorems about limits and capacity, which count, and about Works that nobody attends |
| `MCWorkManager` | the instances that the configurations choose from |
| `CodeBroker` | the tool calls of one program: `reserveCall`, `toolObserved`, `releaseCall`, the two interpreters that call back, the fiber that records the end |
| `Program` | what that broker promises: no call after the receipt, no receipt over an unobserved call |
| `CodeBrokerInvariant` | its inductive invariant `IInv` |
| `CodeBrokerProofs` | its theorems, the refinement of `Program` among them |
| `MCCodeBroker` | its instances |
| `ContextRuntime` | one context: its row, its allocation and workspace, the copies that fibers hold, cursor, seals and sleep |
| `Workspace` | what a context promises: only a mounted workspace changes, a park is covered by its seal, one in doubt stays blocked |
| `ContextRuntimeInvariant` | its inductive invariant `IInv` |
| `ContextRuntimeProofs` | its theorems, the refinement of `Workspace` among them |
| `MCContextRuntime` | its instance |
| `Admission` | requests under keys: lookup, discovery and admission, `bind`, `configureTools`, `context.ensure` |
| `Ledger` | what a request key promises: written once, answered with what was written, a repeat never refused |
| `AdmissionInvariant`, `AdmissionProofs`, `MCAdmission` | its inductive invariant `IInv`, its theorems (the refinement of `Ledger` among them), its instance |
| `Journal` | the journal on PostgreSQL: sessions, locks, the chain, rollback, broken connections |
| `AtomicJournal` | what every other module takes the journal to be |
| `JournalProofs`, `MCJournal` | the safety of the refinement of `AtomicJournal`, and the instance of `Journal` |
| `Resources` | blobs and records of published trees, through failing calls and outages |
| `IdlePass` | the end of the pass: which idle contexts are asked to sleep |
| `Connector` | discovery and calls of remote MCP tools |
| `RemoteCall` | what the caller of a remote tool has to know of the call |
| `EdgesProofs` | the theorems of `Resources` and of `Connector`, the safety of the refinement of `RemoteCall` among them |
| `Pod`, `PodProofs` | a context on Kubernetes and the controller in its pod, and its theorems |
| `MCEdges`, `MCContext` | instances: `Resources`, `IdlePass` and `Connector` side by side; `ContextRuntime` (`MCContextRuntime`) and `Pod` side by side |

### WorkManager and the code

Every journal transaction is one action: the journal runs them one at a time and commits or rolls back
each as a whole (`journal.ts:162-177`). A fiber has a program counter (`fiber`, `pass.pc`,
`canceller.pc`) between its transactions and calls. Rows are functions from Works or contexts;
`phase` splits *held* by its reason, as the claim does. Deadlines are sets of Works whose deadline has
passed (`late`, `outputLate`), so that time is an action. What a client may send is a constant: the
Works, their kind, tenant, creation time, target and the backends that pass the static filters.

| Code | Actions |
| --- | --- |
| admit 326-447, approve 1681-1712 | `Admit`, `Approve` |
| cancel 1713-1740 | `CancelObserve`, `CancelCloseGate`, `CancelFail` |
| claim 576-803, fairOrder, selectPlacement | `Snapshot`, `Claim`, `ClaimSaturated`, `ClaimNothing` |
| dispatch 1411-1478 | `Redeliver`, `BeginDispatch`, `RefuseDispatch`, `RegisterController`, `DispatchGate`, `Settle`, `DispatchDies` |
| run 1086-1410 | `FailBeforeExecution`, `CreateInstance`, `RecordAllocation`, `OpenContext`, `SleepUnallocated`, `EnsureAllocation`, `Materialize`, `StartExecution`, `LimitCalls`, `EndExecution` |
| setState 462-506, fail 507-575 | `SetState`, `SettleAs` |
| pass 1523-1590 | `ListFinalizers`, `Finalize`, `ListReleases`, `ReleaseInstance`, `RecordRelease`, `FailRelease`, `EndPass` |
| recover 1479-1522 | `Crash`, `Recover` |
| clocks, providers, requests that end early | `Expire`, `LapseApproval`, `ExpireOutput`, `OrphanEnds`, `RequestDies` |

`AttemptTurn` deserves a word. The transactions of a fiber are chained first-in first-out, and `cancel`
chains `closeGate` at the moment its `inspect` resolves. An attempt chains each transaction after the one
before resolved. So one transaction of the attempt, at most, commits between the two of cancel. Without
it (the mutant `UnorderedTurn`) a cancel that read a queued row erases the result of the attempt.

An execution may outlive its receipt. A program is interrupted at its deadline (1444-1457), or fails when its request is
aborted or breaks off (`cloudflare.ts:121-139`), while the gateway may still run it; a command whose controller was killed
fails and goes on (`Pod`). So `EndExecution` takes the Work out of `live` for certain only where a result, or the answer
of a tool, proves that it is over (`GoesOn`); for every other verdict it may stay there, past the receipt, until
`OrphanEnds` or, for a job, the release of its sandbox. What the properties say is what the code then gives: `Lifecycle` has
no *completed* over an execution that goes on, but has *failed*, *interrupted* and *cancelled* ones; `ExclusiveContext`
and `WithinCapacity` speak of the executions of Works without a final receipt. What a failed command left on a context
is stopped by `quiesce` before the next one (`Pod`).

The claim reads the clock before its snapshot and compares deadlines and approvals with that (577, 685, 759), so that what runs
out in between is still taken for good. Nothing else reads the two, so this is the same as if it ran out after the
claim: no clock moves between `Snapshot` and the claim (`TimeStands`). Likewise for the list that a pass
finalizes by the clock of 1529 (`ExpireOutput`).

`Lifecycle` says what all of this is for, one Work at a time: its receipt (*none*, *unknown* while it awaits
reconciliation, or a result), its execution (*never*, *going*, *over*) and whether that was told to abort. A transaction
of the claim or of `recover` closes many Works at once, so in a step of `Lifecycle` each Work takes a step of its own
or none. `Honest` is what a result says of the execution: *completed* needs one that is over (or a sleep of a context that
was never allocated), *output_failed* a job whose execution is over, *cancelled* one that never began or was told,
*denied* and *queue_deadline* one that never began; *failed* and *interrupted* say nothing of it.

Left out of the module: the wording of receipts and faults; the ranking of plans by cost; the `seal_failed`
outcome of a command, which settles its Work as `completed` does; the broker, which only touches the
lifecycle by closing the gate (`LimitCalls`).

### CodeBroker and the code

`WorkManager` runs a transaction when it is asked for, since a fiber there waits for each of its own.
The broker runs a fiber per call beside the fiber of the Work, so here the queue of the journal is a
variable (`chain`): a transaction joins it in one action and commits in a later one, in order. That order
matters. A call accepted before the deadline joins the queue before `unobservedCalls` does, and is seen by it.

| Code | Actions |
| --- | --- |
| bridge 1173-1187, `handle` of `cloudflare.ts` | `AcceptCall`, `DenyCall` |
| reserveCall 960-990 | `ReserveCall`, `RefuseCall`, `LimitCall` |
| invoke, toolObserved, releaseCall 991-1084 | `Answer`, `LoseAnswer`, `ObserveCall`, `ReleaseCall` |
| `quickjs.ts` | `DeliverFrame`, `ProgramReturns`, `LogsWritten`, `RunnerStops`, and `EndHost` for `done` |
| `cloudflare.ts` | `AnswerCallback`, `ResponseArrives`, `BodyRead`, `GatewayFails` |
| run, dispatch, fail, setState | `Conclude`, `TimesOut`, `CheckCalls`, `Settle` |
| cancel | `RequestCancel`, `CloseGate`, `AbortRun` |

`interpreter` is chosen at the start and never changes. Every `Fault` and `Interrupt` is `stopped`: only
`Uncertain` is told apart from them. Under QuickJS any error of the broker, a limit included, ends the
program while the call that raised it is still in `accepted`, and so the Work is left to reconciliation.
A crash is not in this module: `recover` (`WorkManager`) leaves every running Work to reconciliation.

`Program` is parameterised by `accountable`, which is whether the interpreter looks at its unanswered
calls at the very end. QuickJS does (`done`, `quickjs.ts:67-84`). The remote backend looks once, when the
head of the response arrives, and with it the second promise does not hold; see `bridge` below.

### ContextRuntime and the code

`WorkManager` knows of a context that it is free, held or blocked. `ContextRuntime` takes one context and
follows what `run` does to it; in return the life of a Work outside its attempt is reduced to *queued*,
*running*, *settled* and *reconciling*. The row (`context`) and the copy that a fiber holds in memory
(`copy`) are two variables, as in the code: a fiber changes its copy in one step and saves it in another,
and anything may fail in between. A command is a member of `edits` once it has changed the workspace and a
member of `live` while its process may still change it. A seal is the set of edits it holds and the cursor
it names.

| Code | Actions |
| --- | --- |
| saveContext 805-815 | `SaveContext`, `SaveContextFails` |
| getContext 816-822 | `Inspect` |
| ensureAllocation 823-878 | `AlreadyReady`, `Wake`, `Create`, `Seed`, `SeedFails` |
| run 1315-1410, `run` of `local.ts` | `StartCommand`, `CommandExits`, `CommandStopped`, `CommandLost`, `Report`, `Park` |
| seal 879-912, `download` | `Capture`, `CaptureFails` |
| claim, setState, fail, recover | `Claim`, `Refuse`, `Complete`, `CompleteFails`, `RecordFailure`, `RecordFailureDies`, `Recover` |
| the deadline of dispatch, other errors of run | `TimesOut`, `RunFails` |
| provider, coordinator process | `Write`, `OrphanEnds`, `Crash` |

The provider is trusted in one thing: a `Fault` of a command says that its process is gone (`local.ts`
kills its group), and only `Uncertain` may leave it alive. The mutant `CommandStoppedAlone` breaks that, and
a parked workspace then changes. Left out: `context.ensure`, the idle submissions of the pass, and the
compute side of an allocation, which `WorkManager` counts.

### Admission and the code

A request is one HTTP call; its parts are the transactions of one fiber and the remote discovery between
them, and other requests run between any two. The order in the code is kept: the prior row is looked up before
the grant, the target and the servers are looked at (274-314), so that a repeat is answered from the row. The
defaults are read in a transaction before discovery (`ReadDefaults`) and go with their revision into the Work
(`NewWork`). `bind` looks for the prior request by key alone, after the grant and before the owner of the context.

| Code | Actions |
| --- | --- |
| lookupSubmission, submit 274-314, 451-461 | `Lookup` |
| threadTools 158-172, `freeze` of `mcp.ts` | `ReadDefaults`, `Freeze`, `FreezeFails` |
| admit 326-450 | `Admit` (with `BoundTo`, `Owns` for its target) |
| bind 1627-1680, configureTools 173-205 | `Bind`, `Configure` |
| context.ensure 1207-1243 | `Ensure`, `EnsureEnds` |
| transactions that fail, answers that are lost, a coordinator that stops | `JournalFails`, `Reply`, `Crash` |

`Ledger` has a slot per key in each table. Its state `promised` marks a request that was sent when its slot held
what it asks for; such a request is never refused, however bindings, defaults, grants of the servers and the servers
changed since. A digest is the payload with the thread of the caller, as `access` and the comparison
of digests tell them apart.

### Journal and the code

A query and its reply are one step, except for COMMIT, which may be on its way when the connection breaks. The server
then runs it or not, before it notices that the session is gone (`RunCommit`, `SessionEnds`). `AtomicJournal` is what
the other modules use without saying so: a transaction happens as a whole or not at all, after those its
coordinator called before; one coordinator owns the journal; one whose answer was lost may still happen, but not
after another coordinator took over, which is what makes `recover` safe.

| Code | Actions |
| --- | --- |
| open 94-161 | `Open` |
| transaction 162-178 | `Call`, `Begin`, `Statement`, `Throw`, `SendCommit`, `Committed`, `Rollback`, `Reject` |
| close 179-182 | `Close`, `CloseDb` |
| the connection, the process, the server | `Break`, `Stop`, `SessionEnds`, `RunCommit` |

### Resources, IdlePass, Connector and the code

`Resources` has one action per call of the file system in `put` (14-36) and the record of `publish`. A file is
*whole* once written and *safe* once flushed; a name is on disk once its directory was flushed. `Fail` is any of these calls
failing, `Crash` the process, `PowerFails` the machine. `Read` is what `read` (97-113) would answer.

`IdlePass` has the transaction that reads all contexts, and for each context that seemed idle, in the order of the rows, the
two that submit its sleep (`Ask`), under the key of context, epoch and step (1622). A context whose actor policy does not
know is passed over (`Skip`, 1612). A pass ends at its first failure: one of the journal (`PassFails`), or that of an actor
whom policy knows and who may not manage contexts (`Refuse`), which comes every time. `Use` and `Finish` are
the commands and sleeps that change a row in the meantime; a row that is saved may come elsewhere among the others
(`Save`), and nothing else moves it.

`Connector` takes a Work with its connections: `freeze` lists the tools of each, page by page (262-331), and `invoke`
(342-418) calls one in a session of its own, after a restart perhaps. `Listings` is what servers may
list: empty pages between full ones, a cycle of cursors, a tool twice, too many. The server is the protocol and
nothing more: it may do what it was asked after the client gave up.

### Pod and the code

`ContextRuntime` trusts the provider in one thing, that a `Fault` of a command says it is gone; `Pod` looks at
how Kubernetes and the controller keep that. `sandbox` is the object with its generation; `condition` the conditions that the
cluster wrote, from what it had read a while ago (`observed`); `controllers` the processes that `exec` starts, which go
on when their stream is lost. `Confirmed` is the wait of `kubernetes.ts:314-322`, which compares generations.

| Code | Actions |
| --- | --- |
| create, patch and wait, `kubernetes.ts` 314-428 | `CreateObject`, `Patch`, `PatchFails`, `WaitEnds`, `WaitFails` |
| exec and its stream 99-187 | `Exec`, `ExecFails`, `Answer`, `LoseAnswerAsFault`, `LoseAnswer` |
| `native-controller.ts` 51-164 | `Begin`, `Spawn`, `Serve`, `Finish`, `Killed`, `Exit` |
| the cluster | `PodStarts`, `PodEnds`, `PodEnded`, `Observe`, `WriteCondition`, `PatchArrives` |

### Abstractions and bounds

`MaxCoordinator` bounds restarts, `MaxDeliveries` bounds how often a Work is delivered again, `Cancellable`
says which Works clients try to cancel, `Revocable` which grants a restart may take away. `Faulty` are the Works whose dispatch
a failing transaction may end; with any of them, a transaction of the pass or of a request may fail too. `JournalFaults` lets any
transaction of `ContextRuntime` fail. Each run is the smallest instance in which the hazards
of its properties meet: two Works for a race, three for capacity (a job, a command and an idle context) and for turns (two
of a tenant against one), two coordinators where a restart matters.

`MaxFaults` bounds the failing transactions of `CodeBroker`; `CallLimit` is two with one call in flight, so that the
second call meets both the limit in flight and, after the first, the limit in all; what larger limits do
is proved (`LimitsHold`). `MaxCrashes` bounds the crashes of `ContextRuntime`. Two commands, one of which seals, a sleep and
a read put every order of counting, sealing and parking within reach; a second wake after a park comes with the Work
after the sleep.

In `Admission` three requests are enough for a repeat and a conflict with what changes between them; the fifteen things
they may ask for are listed in `MCAdmission`. `RowCount` in `Journal` is two, so that a transaction
can fail between its statements. Two transactions of one coordinator meet in the chain, and a third of
another waits for the lock. Three publishers of one tree, two of them of one tenant, meet in every order of their
renames, with two outages. `MaxPoint` bounds the epochs and steps of `IdlePass`, and two contexts suffice, one of which is
passed over or refused. `Connector` has two connections and six kinds of listings, with `MaxTools` two for the code's 200. Four operations of `Pod`
are a create, a command, a park and a wake, or a wake that fails and its repetition; `MaxPods` and
`MaxDelayed` bound the pods and the patches that arrive late.

## Runs

| Run | Instance | Shows |
| --- | --- | --- |
| `jobs` | a connector call under approval, which may be cancelled, and a program, three coordinators, a redelivery, a revoked grant, failing transactions of the program | `IInv`, `AtMostOneExecution`, `OutboxMirrorsPhase`, `CancelledHonestly`, `UnattendedIsUntouched`, `ReceiptsAreFinal`, `ImplementsLifecycle` |
| `capacity` | a job, a command and a sleep of two tenants on two backends and one context, two coordinators, journal failures | `WithinCapacity`, `WithinConcurrency`, `ExclusiveContext`, `BusyIsHeld`, `OutputsOutliveExecution`, `FairTurns` |
| `liveness` | a command on a context and a cancellable job for one slot, fairness | `EveryWorkConcludes`, `JobsAreReleased`, `DeadlineBoundsQueue` |
| `broker` | two calls on either interpreter, one in flight, one failing transaction, a cancel, fairness | `IInv`, `WithinCallLimits`, `InFlightIsCounted`, `ImplementsProgram`, `ProgramConcludes` |
| `context` | two commands, one sealed, a sleep and a read on one context, failing transactions, a crash; or a pod through four operations | `IInv`, `SealsMatchCursor`, `CursorsOrderCommands`, `SealedIsOnRecord`, `ImplementsWorkspace`; `OneWorkloadAtATime`, `ParkedIsStopped` |
| `admission` | three requests of three callers in two threads, two keys, a crash | `ImplementsLedger`, `CompareAndSet`, `FrozenAsConfigured`, `EnsuresAgree` |
| `journal` | two coordinators, three transactions of two rows, fairness | `ImplementsAtomicJournal`, liveness included: every call is answered |
| `edges` | three publishers and two outages; or the pass over two contexts, one of a granted actor and one of any; or the discovery and call of remote tools | `PublishedIsReadable`; `IdleContextsAreAsked`; `FrozenIsWhole`, `CalledAsAdmitted`, `ImplementsRemoteCall` |
| `saturation` | a connector call under approval and a program, one global slot | violated: `DeadlineBoundsQueue` |
| `overrun` | a program and a cancellable job, fairness | violated: `PassOwnsFinalization` |
| `bridge` | two calls of a remote program | violated: `UnknownCallsAreReconciled` |
| `seed` | as `context`, without a crash | violated: `SeedIsComplete` |

A run of several parts is a disjoint union: a behaviour is one of one part, chosen in the initial state, and nothing of
another part moves. The parts have names of their own for what they define, so that one module can extend them all and
TLC evaluates the assumptions of each.

`CHECK_DEADLOCK FALSE` in all of them: with every Work settled and the coordinator down for good there is
nothing left to do.

### Fairness

The schedule repeats the pass for ever (1762-1771), so `PassStep` is weakly fair. A fiber, once started,
runs to its end, because every wait in it is under the deadline of `dispatch` (1444-1457): `Attempt` is
weakly fair. The two later transactions of a cancel follow the first. Clocks move, although a pass that has read one
holds `Expire` and `ExpireOutput` up until it is through, so they are strongly fair. A provider asked again
and again to release a job does so in the end: `ReleaseInstance` is strongly fair. Nobody is obliged to
submit, approve, cancel or restart, and a Work that awaits reconciliation may do so for ever.

In `CodeBroker` the queue of transactions moves (weakly fair; how many fail is bounded), the clock and the
deadline timer fire, and a fiber whose interpreter ended goes on. Programs, tools, interpreters and remote
responses owe nothing: `ProgramConcludes` holds without them.

In `Journal` a coordinator goes on with what it can do (`GoOn`), and a COMMIT that was sent is run or its session ends;
nobody is obliged to call, to close or to break. In `IdlePass` the passes are repeated and a pass goes through what it read;
the journal may fail it any number of times, but not for ever at the same context, which is why `Ask` and `Skip` are strongly
fair. `Refuse` is weakly fair: a refused context ends each pass that comes to it, and nothing promises that a later one gets
past it. In `Connector` the client moves: the timeout of a
request (`mcp.ts:365-400`) ends what the server leaves open. The server owes nothing.

### Disagreements with the documents

* `saturation`: `ARCHITECTURE.md:353` says deadlines expire queued work, and `test/scheduler.test.ts:324`
  calls the queue deadline an enforced boundary. The claim returns at line 633, before it looks at any
  deadline, while every global slot is taken, and a Work in reconciliation keeps its slot for ever.
* `overrun`: the comment at line 1312 says that the finalization pass alone owns publication and release.
  The deadline of `dispatch` can fire after `finalizing` was committed and before `setState` returned; the
  fiber then moves the Work on to `reconciling`, for `setState` guards settled Works only (475). Nothing else
  does: `FinalizationIsOwned`.
* `bridge`: `README.md:69` says that unknown external effects require reconciliation. A remote program
  that calls a tool without awaiting it can have the call accepted between `channel.check()` and the end of
  the body (`cloudflare.ts:140`, `165`); a completed result is recorded without a look at the events, and
  the Work settles with the call started and never observed. Under QuickJS the sentence is true: `QuickJSAccounts`.
* `seed`: an allocation goes on record as ready before its seed is uploaded (856-860), and a failed upload
  blocks the context in a second transaction: "seed materialization incomplete; explicit repair required"
  (868). If that transaction fails, the Work fails, the context is freed (495), and the next Work takes the
  row at its word (830) and runs in part of a seed. It takes that second failure: `SeedsAreComplete`.

Reading the code for the models showed some more, which no run is about:

* A cancel closes the gate of a queued Work, and the coordinator stops before it fails the Work. After the restart the claim
  takes the Work, for it does not read the gate (641); `beginDispatch` refuses it (1417) and `dispatch` returns (1431). The
  Work stays running, with its slots taken and nobody attending it, until the next restart fences it or a second cancel finds
  its row still claimed (1728) and fails it. `ARCHITECTURE.md:680` has the outbox resume a command whose controller died after
  recording the intent. `UnattendedIsUntouched` says what is left of that, in `jobs` and for all Works: such a
  Work was not executed, and its row is the one that the second cancel settles.
* The pass stops at an idle context whose actor policy knows but does not let manage contexts (1613, `policy.ts:32-46`), and the
  order of `SELECT data FROM context` (`journal.ts:63`) does not change while the rows are not saved. So the contexts
  behind it are asked to sleep no sooner than a row moves, if at all. `IdleContextsAreAsked` excepts them (`Shadowed`).
* An approval that runs out while the claim looks up the grants is still taken, as said above of the clock.
* A lost answer to the patch of a park or a wake (`kubernetes.ts:406`) is a `Fault`, so the Work settles as failed,
  although the patch may have been applied, or be applied later. `Pod` models both (`PatchArrives`); the
  properties hold, since the next operation patches again and waits for its own generation.
* An `Uncertain` download of a seal is reported as `seal_failed` (1346-1361), so the controller of that download may
  still be there when the next command begins, and kill its processes.
* When a backend of a recorded job is no longer configured, the lookup at 1567 throws inside the pass, and ends the repeated
  schedule with it.
* A wake whose `initialize` fails leaves a pod that runs for a context on record as parked, which no capacity counts.
* A PostgreSQL client has no listener for `error`, so a connection that breaks while idle may end the process
  (`Stop` in `Journal`).

## Proofs

### WorkManager

The assumption is `ConstantsAssumption`: the constants have their types, and a Work targets a context
exactly when it is a command or a sleep. Nothing is assumed finite.

`AtMostOneExecution` and the others are not inductive. A step may rely on more: that an outbox row not
yet dispatched belongs to a Work nobody touched (`OutboxInv`), that a fiber that is not idle belongs to a
running, dispatched Work (`FiberInv`; the exception, `Overdue`, is the `overrun` behaviour), that a job
that ran to its end keeps its sandbox (`JobInv`), that the lists of the pass hold what it found
(`PassInv`), that a cancel which takes a Work for unclaimed is right or was overtaken exactly once
(`CancelInv`), that what goes on at a provider belongs to a Work that is running or reconciling or failed, was interrupted or
cancelled (`ExecutionInv`), and that nothing in memory survives a crash (`DownInv`). Together with `TypeOK` and
`BusyIsHeld` that is `IInv`.

`TypeStep` proves types, one step per action. For the rest the actions fall in groups: those of one Work
(`WorkStep`, with `WorkFrame` for every other Work), of the pass (`BookkeepingStep`, `FinalizeStep`,
`ReleaseStep`, `ClaimStep`, `ClaimNothingStep`) and restarts (`RestartStep`). Each shows `WorkInv` of every
Work after the step and that the step is `Lawful` for it, which is what the action properties, the limits and the
refinement need. `InvariantStep` puts them together.

Proved for every value of the constants: `TypeOK`, `IInv`, `AtMostOneExecution`, `BusyIsHeld`, `ExclusiveContext`,
`OutboxMirrorsPhase`, `OutputsOutliveExecution`, `CancelledHonestly`, `ReceiptsAreFinal`,
`FairTurns` and `ImplementsLifecycle`; in
`LimitProofs`, `WithinConcurrency`, `WithinCapacity` and `UnattendedIsUntouched`. That is all that its runs check but
`EveryWorkConcludes`, `JobsAreReleased` and `DeadlineBoundsQueue`, which are liveness and only model-checked.

`LifecycleImplemented` is of every Work in every step (`Advances`, a part of `Lawful`): nothing changes that `Lifecycle` tells
apart, or the execution begins or ends, or the Work is left in doubt or settled with a result that the rows bear out
(`Bears`). `WorkRefines` turns each case into a step of `Lifecycle`. Of `IInv` it takes more than the safety
properties do: what a fiber is about to report is one of six verdicts, and one of success was executed (`FiberInv`); a
Work whose outputs are kept was executed (`Kept`). `TurnsAreFair` comes from the other half of `Lawful`: a claim
leaves no Work behind that could run and comes before the one it takes (`Before`), and in the order that starts after
the cursor the tenant served last comes after every other. `FinalizationIsOwned` is what the code does
in place of what the comment at line 1312 says.

Nothing in `LimitProofs` assumes that there are finitely many Works: the claims make them active one by one, so the active
ones are (`ActiveGrows`, from `Lawful`, which says that a step makes a Work active only under both limits, and no other).
`WithinCapacity` is not what the claim tests. It tests `Occupied`, and so the invariant is about that: `SlotsInv` bounds the
Works that hold a slot of a backend plus its idle contexts, `PlacedInv` and `ReadyInv` say that a ready context is where the
Work that keeps it busy was placed, so that a settlement passes on one slot and not two (`PassedOn`). A claim on an idle
context takes the slot that this context gives up (`ClaimKeepsSlots`). `CountedAtBackend` then maps what is at a backend
into what is counted: a context that is not idle to the Work that keeps it busy, injectively, since a Work has one target.
Blocked contexts are in neither count; their sandbox is the hazard of line 626. Nor are programs that go on behind the receipt
of their failure, which the code gives up (609-615). No program runs in the instance of `capacity`, so that its term in
`WithinCapacity` rests on the proof alone.

`UnattendedWorksAreUntouched` follows from `AttendedInv`: a running Work whose gate is open and whose row is claimed has a
delivery under the lease of this coordinator, and one that was dispatched has a fiber. It is for the Works outside `Faulty`: where
a transaction of its dispatch fails, a running Work is left to the next restart, whatever was executed of it (the
hazard of line 1444; that it is then executed once, with no receipt that the execution belies, is what `jobs` shows with
its program).

### CodeBroker

`BrokerAssumption` says that the limits are numbers and that the interpreters are the two there are; the set
of calls may be infinite. Proved: `IInv`, `WithinCallLimits`, `InFlightIsCounted` and `ImplementsProgram`, and of
the sentence that `bridge` refutes, that it holds of every QuickJS program (`QuickJSAccounts`: a step of `Program` settles only
a Work whose calls are accounted for, and no step after it starts one). `ProgramConcludes` is liveness and only model-checked; `TypeOK` is a conjunct of `IInv`.

What carries the refinement is the order of the queue. A reservation that commits after the receipt would break
`Program`, and so would a settlement decided before a reservation that still commits. Hence: a transaction of a
call is the one that call waits for and its only one (`CallQueueInv`); the fiber has one check and one
settlement in the queue at most, the settlement of an interrupted completion before the check
(`WorkQueueInv`); no reservation comes after a check, and none beside the settlement of a QuickJS program
(`OrderInv`). `RowInv`, `CallInv` and `ChildInv` tie the phase to the fiber, the events to the calls, and the
end of the child to its answered calls; `CountInv` counts the reserved ones.

A step drops transactions from the front and appends one at most: `Evolves(d, New)` says it once for every
action (`CallSteps`, `TransactionSteps`, `OtherSteps`), and the three parts about the queue follow from it.

### ContextRuntime

`RuntimeAssumption` gives the constants their types; the set of Works may be infinite, and so may the number
of commands. Proved: `IInv`, `SealsMatchCursor`, `CursorsOrderCommands`, `SealedIsOnRecord` and
`ImplementsWorkspace`. `TypeOK` is a conjunct of `IInv`.

None of them is inductive, since each speaks of rows and receipts, and what a step writes there was decided
earlier, in the memory of a fiber. `CopyInv` says, for every place a fiber can be, by what its copy differs
from the row. `HolderInv` makes that fiber the only one (`Alone`), so a proof of a step looks at one fiber.
`LiveInv` keeps the workspace still between a capture and the save of its seal: what may still write is the
command of that very fiber, which has exited, or the context is blocked. `CursorInv` and `PointInv` are the
properties extended to commands that are counted and seals that are made but not yet reported, and
`FreshInv` says that a command about to be counted is in no seal yet. `FenceInv`, which the other parts
do not need, ties the generation of a mounted allocation to the epoch of the row.

`SaveStep` and `CopyMove` go through the actions of a fiber. `Kept` says of every step but one that it counts no
command and tells of no seal but the one that holds what is there now; the exception is the save that
counts a command (`CountStep`). `SaveRefines` maps each save to a step of `Workspace`; everything else is a
write, a block or a stutter.

`SeedIsComplete` is violated (`seed`) by two failures, and `SeedsAreComplete` shows that it takes two: with `~JournalFaults`,
whatever the provider, the deadline and the process do, a context whose seed is not complete is unallocated, blocked,
or held by a Work whose fiber uploads the seed, is about to block the context, or was lost in a crash and will be fenced
(`SeedInv`, which is inductive beside `IInv`).

### Admission

`AdmissionAssumption` gives the constants their types and says that the contexts there are at first have their names to
themselves; requests, keys and threads may be infinitely many. Proved: `IInv`, `CompareAndSet`,
`FrozenAsConfigured`, `EnsuresAgree` and `ImplementsLedger`.

`IInv` adds to the properties that a key has one row in each table (`WorkKeysInv`, `BindingKeysInv`), where a request
may be (`PathInv`), that what was on record when a request was sent still is (`PromiseInv`), that a program on its way to
admission has the connections of the revision it carries (`FrozenInv`), and that names and finds of contexts
agree (`NamesInv`, `FoundInv`). Two facts carry every step: rows only grow (`Grows`), and a request is done or is as it was
(`Settles`), unless it goes on to its next transaction (`ProceedKeeps`). The refinement follows: `AdmitRecords` and
`BindRecords` map a request's last transaction to *record*, *repeat* or *refuse*. A refusal needs that nothing was promised:
`Unpromised` says so of every request that got past the lookup, and this is where the order of the code (row first, then
grants, targets and servers) enters.

### Journal

`JournalAssumption`, in the module, says that the rows are 1 to `RowCount` and who calls which transaction. Proved:
`JournalIsAtomic`, the safety of the refinement of `AtomicJournal`; that every call is answered is liveness and stays with
TLC.

The step to be mapped is `RunCommit`: a COMMIT that was sent, perhaps by a coordinator that is gone, is run and makes a whole
transaction visible. It runs in a session that is open, and who has a session has the lock (`Locking`), so no successor was
let in and nobody else wrote what the session had read: `Working` and `Committing` say that its rows are those of the
table with its own writes on top. What its coordinator called before it is settled and what it called later has not begun
(`InOrder`, over the chains of `Chains`), so it comes in its turn. `Tables` says that what is in the table was committed.

### Resources and Connector

`ResourcesAssumption` and `ConnectorAssumption` give their constants the types; they are hypotheses of the theorems, and
`MCEdges` has TLC evaluate them for its instances.

`PublishedStaysReadable`: a name that was flushed stays, if perhaps for the file of another publisher (`Named`), and no file
has the name of a tree before it is whole and flushed itself (`Sound`, from how far each publisher is, `Advanced`).

`AdmittedWithAll` (`FrozenIsWhole`): the pages of a listing are those in every set of its pages that has the first
one and follows its links. Discovery stays within each such set, and what it has passed is one once it stands at a page
without a link (`Follows`), so what it has read is exactly the listing. No induction is needed, although listings may
be of any length and their links may go in circles, at which discovery gives up.

`CredentialsStand` and `CallsAreKnown`: from the look at the credential to the request no restart comes, so the credential is
still that of the admission (`Authorized`); no request is sent before `dispatched` is set, and the end of a call is known
from a response alone (`Pending`, `Accounted`). The liveness of `RemoteCall` and `IdleContextsAreAsked`, the one property
of `IdlePass`, stay with TLC.

### Pod

`PodAssumption` says that the bounds are numbers: the theorems are for any number of operations, pods and late patches.

`WorkloadsAreAlone` rests on who may still start a command. A controller whose answer came has ended; one whose answer was
lost may go on, but where it has a command to start the context is blocked and no operation follows. So it belongs to the
last operation, and to no other (`Alone`, with `Numbered` and `Called`), and whatever an earlier one left in the pod is
killed before its own command starts or a tree is read.

`ParkedHasEnded` rests on what a condition proves. A patch whose answer was lost may arrive during a later operation, and
the cluster writes conditions from an older look at the object. But each operation changes the object once at most
(`Changes`), a generation has one mode, and a condition at the generation of the object was observed while the object
was as it is now: the pod was gone then, and nothing started one since (`Recent`). Hence what served the context
before has ended, and what runs in a parked one may only initialize (`Served`).

## Plan

What would come next, in this order:

1. The slots that the sandbox of a blocked context takes beyond `Occupied`, and the sandbox that a crash between
   `create` and its record leaves behind: both hazards have no property, since the code does not count either.
2. `Scheduler` (`scheduler.ts`): the ranking of plans against a reference definition over all small inputs.
3. The runner in the sandbox (`providers/executor/runner.js`) with the frames of `CodeBroker`, and E2B as far as it
   keeps state between `create` and `release`.

## Not modelled

Decoding, schemas, configuration, observability and the glue of the remote backends keep no state that the system reads
back, or are pure input and output. Of HTTP only the operations that admit something are modelled. The executor in the
sandbox is one process that serves one program. PGlite, the embedded journal, has no lock and no connection to
lose; it is a `Journal` in which these never happen. `Resources` takes the root directory of the blobs as
there: that a new root is not flushed in its parent is not modelled. `Pod` leaves `upload` out, which the
controller serves as it does a command. Examples, scripts and deployment files are not part of the running system.
