-------------------------- MODULE WorkManagerProofs --------------------------
EXTENDS WorkManagerInvariant, TLAPS

(***************************************************************************)
(* Proofs that the safety properties of WorkManager hold for every value   *)
(* of the constants.  IInv of WorkManagerInvariant is inductive: the       *)
(* actions that concern one Work (WorkStep), the claim, the finalization   *)
(* and the releases of the pass, and the restarts are treated in turn, and *)
(* a frame lemma covers the rows an action leaves alone.                   *)
(*                                                                         *)
(* Each step is also Lawful for every Work.  The action properties follow  *)
(* from that, and the refinement of Lifecycle does: its part Advances says *)
(* of the rows what Lifecycle says of the receipt and the execution.       *)
(***************************************************************************)
USE DEF transition, reservation, journal, clock, process, world, vars

\* The members of the enumerations of domain.ts that the actions assign, so that
\* the proofs of types need not look into the sets.
LEMMA Values ==
  /\ "absent" \in Phases /\ "held_approval" \in Phases /\ "queued" \in Phases
  /\ "held_context" \in Phases /\ "held_capacity" \in Phases
  /\ "running" \in Phases /\ "finalizing" \in Phases
  /\ "reconciling" \in Phases /\ "settled" \in Phases
  /\ "none" \in Outcomes /\ "completed" \in Outcomes /\ "failed" \in Outcomes
  /\ "interrupted" \in Outcomes /\ "cancelled" \in Outcomes /\ "denied" \in Outcomes
  /\ "queue_deadline" \in Outcomes /\ "output_failed" \in Outcomes
  /\ "none" \in OutboxStates /\ "pending" \in OutboxStates
  /\ "claimed" \in OutboxStates /\ "dispatched" \in OutboxStates /\ "done" \in OutboxStates
  /\ \A f \in {"idle", "accepted", "registered", "refused", "open", "holding",
                "materializing", "prepared", "created", "recorded",
                "executing", "settling"} : f \in FiberStates
  /\ \A f \in {"claim", "claiming", "finalizers", "finalize",
               "release", "released"} : f \in PassStates
  /\ \A o \in Outcomes : o \in Verdict
  /\ "uncertain" \in Verdict /\ "finalizing" \in Verdict
  BY DEF Phases, Waiting, Active, Outcomes, OutboxStates, FiberStates, PassStates, Verdict

\* The records the rows and the pass start from have their types.
LEMMA Records ==
  /\ NoLease \in Lease /\ NoPass \in Pass /\ NoCancel \in Canceller
  BY DEF NoLease, Lease, NoPass, PassAt, Pass, NoCancel, Canceller, PassStates

\* Every update of a context row that platform.ts makes yields a context row.
LEMMA ContextUpdates ==
  ASSUME NEW x \in Context
  PROVE  /\ [x EXCEPT !.phase = "blocked"] \in Context
         /\ [x EXCEPT !.phase = "parked"] \in Context
         /\ [x EXCEPT !.phase = "blocked", !.epoch = x.epoch + 1] \in Context
         /\ \A w \in Works : [x EXCEPT !.busy = w] \in Context
         /\ \A b \in Backends \cup {None} :
              [x EXCEPT !.phase = "ready", !.backend = b, !.epoch = x.epoch + 1] \in Context
<1>1. x.epoch + 1 \in Nat
  BY DEF Context
<1>2. ASSUME NEW b \in Backends \cup {None}
      PROVE  [x EXCEPT !.phase = "ready", !.backend = b, !.epoch = x.epoch + 1] \in Context
  BY <1>1 DEF Context, ContextPhases
<1>3. [x EXCEPT !.phase = "blocked", !.epoch = x.epoch + 1] \in Context
  BY <1>1 DEF Context, ContextPhases
<1>4. /\ [x EXCEPT !.phase = "blocked"] \in Context
      /\ [x EXCEPT !.phase = "parked"] \in Context
      /\ \A w \in Works : [x EXCEPT !.busy = w] \in Context
  BY DEF Context, ContextPhases
<1> QED
  BY <1>2, <1>3, <1>4

\* The updates of a cancel request keep its type.
LEMMA CancellerUpdates ==
  ASSUME canceller \in [Works -> Canceller], NEW w \in Works
  PROVE  /\ [canceller EXCEPT ![w].pc = "failing"] \in [Works -> Canceller]
         /\ [canceller EXCEPT ![w] = NoCancel] \in [Works -> Canceller]
  BY DEF Canceller, NoCancel, Lease, NoLease

\* A pass may count one more claim, and start over at any of its stages.
LEMMA PassUpdates ==
  ASSUME pass \in Pass
  PROVE  /\ pass.count + 1 \in Nat
         /\ \A n \in Nat, s \in PassStates : PassAt(s, n) \in Pass
<1>1. pass.count \in Nat
  BY DEF Pass
<1>2. \A n \in Nat, s \in PassStates : PassAt(s, n) \in Pass
  BY DEF Pass, PassAt
<1> QED
  BY <1>1, <1>2

\* The loop of the claim has seven outcomes for a Work.
LEMMA FateValues ==
  \A w : Fate(w) \in {"denied", "queue_deadline", "skipped", "held_context",
                     "held_capacity", "held_approval", "claimed"}
  BY DEF Fate

\* A Work the claim passes over is left in a phase of the lifecycle.
LEMMA PhaseAfterType ==
  ASSUME phase \in [Works -> Phases], NEW w \in Works, NEW passed,
         Fate(w) # "claimed" \/ w \notin passed
  PROVE  PhaseAfter(w, passed) \in Phases
  BY FateValues, Values DEF PhaseAfter

\* The initial state is well typed.
LEMMA TypeInit == Init => TypeOK
  BY ConstantsAssumption, Values, Records DEF Init, TypeOK, Context, ContextPhases, Coordinator

\* The part of TypeOK about the rows that setState and saveContext write.
TransitionOK ==
  /\ phase \in [Works -> Phases] /\ outcome \in [Works -> Outcomes]
  /\ gate \in [Works -> BOOLEAN] /\ outbox \in [Works -> OutboxStates]
  /\ ctx \in [Contexts -> Context]

\* setState writes well-typed rows.
LEMMA SetStateType ==
  ASSUME TransitionOK, NEW w \in Works, NEW l,
         NEW to \in Phases, NEW out \in Outcomes, SetState(w, l, to, out)
  PROVE  TransitionOK'
<1> USE DEF TransitionOK
<1>1. CASE UNCHANGED << phase, outcome, gate, outbox, ctx >>
  BY <1>1
<1>2. CASE /\ phase' = [phase EXCEPT ![w] = to]
           /\ outcome' = [outcome EXCEPT ![w] = out]
           /\ UNCHANGED << gate, outbox, ctx >>
  BY <1>2
<1>3. CASE /\ phase' = [phase EXCEPT ![w] = to]
           /\ outcome' = [outcome EXCEPT ![w] = out]
           /\ gate' = [gate EXCEPT ![w] = FALSE]
           /\ outbox' = [outbox EXCEPT ![w] = "done"]
           /\ ctx' = ContextAfter(w, to)
  <2>1. ContextAfter(w, to) \in [Contexts -> Context]
    BY DEF ContextAfter, Context, ContextPhases
  <2> QED
    BY <1>3, <2>1, Values
<1> QED
  BY <1>1, <1>2, <1>3 DEF SetState, Superseded

\* saveContext writes a well-typed context row and no other row.
LEMMA SaveContextType ==
  ASSUME TransitionOK, NEW w \in Works, NEW c, NEW next,
         c \in Contexts => next \in Context, SaveContext(w, c, next)
  PROVE  TransitionOK' /\ UNCHANGED << phase, outcome, gate, outbox, reservation >>
  BY DEF TransitionOK, SaveContext

\* Taking a turn in the transaction chain keeps the type of the cancel requests.
LEMMA AttemptTurnType ==
  ASSUME canceller \in [Works -> Canceller], NEW w \in Works, AttemptTurn(w)
  PROVE  canceller' \in [Works -> Canceller]
<1>1. CASE canceller[w].pc = "observed"
  <2>1. canceller' = [canceller EXCEPT ![w].overtaken = TRUE]
    BY <1>1, Zenon DEF AttemptTurn
  <2> QED
    BY <2>1 DEF Canceller
<1>2. CASE canceller[w].pc # "observed"
  <2>1. canceller' = [canceller EXCEPT ![w].overtaken = FALSE]
    BY <1>2, Zenon DEF AttemptTurn
  <2> QED
    BY <2>1 DEF Canceller
<1> QED
  BY <1>1, <1>2

\* Every step keeps every variable in its type: one step per action.
LEMMA TypeStep == TypeOK /\ [Next]_vars => TypeOK'
<1> SUFFICES ASSUME TypeOK, [Next]_vars PROVE TypeOK'
  OBVIOUS
<1> USE Values, Records DEF TypeOK
<1>1. ASSUME NEW w \in Works, Admit(w) PROVE TypeOK'
  BY <1>1 DEF Admit
<1>2. ASSUME NEW w \in Works, Approve(w) PROVE TypeOK'
  BY <1>2 DEF Approve
<1>3. ASSUME NEW w \in Works, CancelObserve(w) PROVE TypeOK'
  <2>1. [pc |-> "observed", lease |-> lease[w],
         unclaimed |-> phase[w] \in Waiting \cup {"held_approval"},
         overtaken |-> FALSE] \in Canceller
    BY DEF Canceller
  <2> QED
    BY <1>3, <2>1 DEF CancelObserve
<1>4. ASSUME NEW w \in Works, CancelCloseGate(w) PROVE TypeOK'
  <2>1. \/ canceller' = [canceller EXCEPT ![w].pc = "failing"]
        \/ canceller' = [canceller EXCEPT ![w] = NoCancel]
    BY <1>4 DEF CancelCloseGate, AfterCloseGate
  <2>2. canceller' \in [Works -> Canceller]
    BY <2>1, CancellerUpdates
  <2> QED
    BY <1>4, <2>2 DEF CancelCloseGate, AfterCloseGate
<1>5. ASSUME NEW w \in Works, CancelFail(w) PROVE TypeOK'
  <2>1. TransitionOK'
    BY <1>5, SetStateType DEF CancelFail, TransitionOK
  <2>2. canceller' \in [Works -> Canceller]
    BY <1>5 DEF CancelFail
  <2> QED
    BY <1>5, <2>1, <2>2 DEF CancelFail, TransitionOK
<1>6. ASSUME NEW w \in Works, Redeliver(w) PROVE TypeOK'
  BY <1>6 DEF Redeliver
<1>7. ASSUME NEW w \in Works, BeginDispatch(w) PROVE TypeOK'
  <2>1. canceller' \in [Works -> Canceller]
    BY <1>7, AttemptTurnType DEF BeginDispatch, AcceptDelivery
  <2>2. /\ deliveries' \in [Works -> Nat] /\ outbox' \in [Works -> OutboxStates]
        /\ fiber' \in [Works -> FiberStates]
    BY <1>7 DEF BeginDispatch, AcceptDelivery
  <2> QED
    BY <1>7, <2>1, <2>2 DEF BeginDispatch, AcceptDelivery
<1>8. ASSUME NEW w \in Works, RefuseDispatch(w) PROVE TypeOK'
  BY <1>8 DEF RefuseDispatch, DropDelivery
<1>9. ASSUME NEW w \in Works, RegisterController(w) PROVE TypeOK'
  BY <1>9 DEF RegisterController
<1>10. ASSUME NEW w \in Works, DispatchGate(w) PROVE TypeOK'
  <2>1. canceller' \in [Works -> Canceller]
    BY <1>10, AttemptTurnType DEF DispatchGate
  <2>2. fiber' \in [Works -> FiberStates] /\ verdict' \in [Works -> Verdict]
    BY <1>10 DEF DispatchGate
  <2> QED
    BY <1>10, <2>1, <2>2 DEF DispatchGate
<1>11. ASSUME NEW w \in Works, FailBeforeExecution(w) PROVE TypeOK'
  BY <1>11 DEF FailBeforeExecution, Conclude, EarlyVerdicts
<1>12. ASSUME NEW w \in Works, CreateInstance(w) PROVE TypeOK'
  BY <1>12 DEF CreateInstance
<1>13. ASSUME NEW w \in Works, RecordAllocation(w) PROVE TypeOK'
  BY <1>13 DEF RecordAllocation
<1>14. ASSUME NEW w \in Works, OpenContext(w) PROVE TypeOK'
  BY <1>14 DEF OpenContext, Conclude
<1>15. ASSUME NEW w \in Works, SleepUnallocated(w) PROVE TypeOK'
  BY <1>15 DEF SleepUnallocated, Conclude
<1>16. ASSUME NEW w \in Works, EnsureAllocation(w) PROVE TypeOK'
  <2> DEFINE c == Target[w]
             allocated == [ctx[c] EXCEPT !.phase = "ready", !.backend = placement[w],
                                         !.epoch = ctx[c].epoch + 1]
  <2>1. CASE ctx[c].phase = "ready"
    BY <1>16, <2>1 DEF EnsureAllocation
  <2>2. CASE ctx[c].phase # "ready"
    <3>1. c \in Contexts => allocated \in Context
      <4>1. c \in Contexts => ctx[c] \in Context /\ placement[w] \in Backends \cup {None}
        OBVIOUS
      <4> QED
        BY <4>1, ContextUpdates
    <3>2. TransitionOK' /\ UNCHANGED reservation
      BY <1>16, <2>2, <3>1, SaveContextType DEF EnsureAllocation, TransitionOK
    <3>3. fiber' \in [Works -> FiberStates]
      BY <1>16, <2>2 DEF EnsureAllocation
    <3> QED
      BY <1>16, <3>2, <3>3 DEF EnsureAllocation, TransitionOK
  <2> QED
    BY <2>1, <2>2
<1>17. ASSUME NEW w \in Works, Materialize(w) PROVE TypeOK'
  <2> DEFINE c == Target[w]
             blocked == [ctx[c] EXCEPT !.phase = "blocked"]
  <2>1. c \in Contexts => blocked \in Context
    BY ContextUpdates
  <2>2. TransitionOK' /\ UNCHANGED reservation
    <3>1. CASE SaveContext(w, c, blocked)
      BY <2>1, <3>1, SaveContextType DEF TransitionOK
    <3>2. CASE UNCHANGED journal
      BY <3>2 DEF TransitionOK
    <3> QED
      BY <1>17, <3>1, <3>2 DEF Materialize
  <2>3. fiber' \in [Works -> FiberStates] /\ verdict' \in [Works -> Verdict]
    BY <1>17 DEF Materialize, Conclude, EarlyVerdicts
  <2> QED
    BY <1>17, <2>2, <2>3 DEF Materialize, TransitionOK
<1>18. ASSUME NEW w \in Works, StartExecution(w) PROVE TypeOK'
  BY <1>18 DEF StartExecution, Execute
<1>19. ASSUME NEW w \in Works, LimitCalls(w) PROVE TypeOK'
  BY <1>19 DEF LimitCalls
<1>20. ASSUME NEW w \in Works, EndExecution(w) PROVE TypeOK'
  <2> DEFINE c == Target[w]
             parked == [ctx[c] EXCEPT !.phase = "parked"]
  <2>1. c \in Contexts => parked \in Context
    BY ContextUpdates
  <2>2. PICK v \in Verdicts(w) :
          /\ Conclude(w, v)
          /\ live' \in {live \ {w}, live}
          /\ IF Kind[w] = "sleep" /\ v = "completed" THEN SaveContext(w, c, parked)
             ELSE UNCHANGED journal
    BY <1>20 DEF EndExecution
  <2>3. TransitionOK' /\ UNCHANGED reservation
    <3>1. CASE SaveContext(w, c, parked)
      BY <2>1, <3>1, SaveContextType DEF TransitionOK
    <3>2. CASE UNCHANGED journal
      BY <3>2 DEF TransitionOK
    <3> QED
      BY <2>2, <3>1, <3>2
  <2>4. v \in Verdict
    BY DEF Verdicts
  <2>5. fiber' \in [Works -> FiberStates] /\ verdict' \in [Works -> Verdict]
    BY <2>2, <2>4 DEF Conclude
  <2>6. live' \subseteq Works
    BY <2>2
  <2> QED
    BY <1>20, <2>3, <2>5, <2>6 DEF EndExecution, TransitionOK
<1>21. ASSUME NEW w \in Works, Settle(w) PROVE TypeOK'
  <2>1. TransitionOK'
    BY <1>21, SetStateType DEF Settle, SettleAs, TransitionOK, Verdict
  <2>2. fiber' \in [Works -> FiberStates] /\ verdict' \in [Works -> Verdict]
    BY <1>21 DEF Settle, Conclude
  <2> QED
    BY <1>21, <2>1, <2>2 DEF Settle, TransitionOK
<1>22. ASSUME NEW w \in Works, Expire(w) PROVE TypeOK'
  BY <1>22 DEF Expire
<1>23. ASSUME NEW w \in Works, LapseApproval(w) PROVE TypeOK'
  BY <1>23 DEF LapseApproval
<1>24. ASSUME NEW w \in Works, ExpireOutput(w) PROVE TypeOK'
  BY <1>24 DEF ExpireOutput
<1>25. ASSUME NEW w \in Works, OrphanEnds(w) PROVE TypeOK'
  BY <1>25 DEF OrphanEnds
<1>26. ASSUME NEW w \in Works, DispatchDies(w) PROVE TypeOK'
  BY <1>26 DEF DispatchDies
<1>27. CASE Snapshot
  BY <1>27 DEF Snapshot, Pass
<1>28. CASE ClaimSaturated
  BY <1>28 DEF ClaimSaturated, PassAt, Pass
<1>29. CASE ClaimNothing
  <2>1. pass' \in Pass
    BY <1>29, PassUpdates DEF ClaimNothing
  <2>2. \A v \in Works : PhaseAfter(v, Pending) \in Phases
    BY <1>29, PhaseAfterType DEF ClaimNothing
  <2>3. phase' \in [Works -> Phases] /\ outbox' \in [Works -> OutboxStates]
    BY <1>29, <2>2 DEF ClaimNothing
  <2>4. outcome' \in [Works -> Outcomes] /\ gate' \in [Works -> BOOLEAN]
    BY <1>29 DEF ClaimNothing, PassOver, Closed
  <2> QED
    BY <1>29, <2>1, <2>3, <2>4 DEF ClaimNothing
<1>30. CASE ListFinalizers
  BY <1>30 DEF ListFinalizers, Pass
<1>31. CASE ListReleases
  BY <1>31 DEF ListReleases, ListToRelease, PassAt, Pass
<1>32. CASE EndPass
  BY <1>32 DEF EndPass, Pass
<1>33. ASSUME NEW w \in Works, Claim(w) PROVE TypeOK'
  <2>1. canceller' \in [Works -> Canceller]
    BY <1>33, AttemptTurnType DEF Claim
  <2>2. pass' \in Pass
    <3>1. PICK s \in PassStates : pass' = PassAt(s, pass.count + 1)
      BY <1>33 DEF Claim
    <3>2. pass.count + 1 \in Nat
      BY PassUpdates
    <3> QED
      BY <3>1, <3>2, PassUpdates
  <2>3. PICK tied \in SUBSET {v \in Pending \ {w} :
                              ~Before(v, w) /\ ~Before(w, v) /\ Fate(v) # "claimed"} :
          LET passed == tied \cup {v \in Pending : Before(v, w)}
          IN  /\ PassOver(passed)
              /\ phase' = [v \in Works |-> IF v = w THEN "running" ELSE PhaseAfter(v, passed)]
              /\ outbox' = [v \in Works |-> IF v = w THEN "claimed"
                                            ELSE IF v \in Closed(passed) THEN "done"
                                            ELSE outbox[v]]
              /\ \A v \in Pending : Before(v, w) => Fate(v) # "claimed"
    BY <1>33 DEF Claim
  <2> DEFINE passed == tied \cup {v \in Pending : Before(v, w)}
  <2>10. \A v \in passed : Fate(v) # "claimed"
    BY <2>3
  <2>11. /\ PassOver(passed)
         /\ phase' = [v \in Works |-> IF v = w THEN "running" ELSE PhaseAfter(v, passed)]
         /\ outbox' = [v \in Works |-> IF v = w THEN "claimed"
                                       ELSE IF v \in Closed(passed) THEN "done" ELSE outbox[v]]
    BY <2>3
  <2> HIDE DEF passed
  <2>4. phase' \in [Works -> Phases] /\ outbox' \in [Works -> OutboxStates]
    <3>1. \A v \in Works : PhaseAfter(v, passed) \in Phases
      BY <2>10, PhaseAfterType
    <3> QED
      BY <2>11, <3>1
  <2>5. outcome' \in [Works -> Outcomes] /\ gate' \in [Works -> BOOLEAN]
    BY <2>11 DEF PassOver, Closed
  <2>6. lease' \in [Works -> Lease]
    <3>1. lease[w].generation \in Nat /\ coordinator.id \in Nat
      BY DEF Lease, Coordinator
    <3>2. [generation |-> lease[w].generation + 1, holder |-> coordinator.id] \in Lease
      BY <3>1 DEF Lease
    <3> QED
      BY <1>33, <3>2 DEF Claim
  <2>7. placement' \in [Works -> Backends \cup {None}]
    <3>1. CASE UNCHANGED placement
      BY <3>1
    <3>2. CASE \E b \in Placements(w) : placement' = [placement EXCEPT ![w] = b]
      <4>1. Placements(w) \subseteq Backends
        BY ConstantsAssumption DEF Placements
      <4> QED
        BY <3>2, <4>1
    <3> QED
      BY <1>33, <3>1, <3>2 DEF Claim
  <2>8. ctx' \in [Contexts -> Context]
    <3>1. \A c \in Contexts : [ctx[c] EXCEPT !.busy = w] \in Context
      BY ContextUpdates
    <3> QED
      BY <1>33, <3>1 DEF Claim
  <2>9. lastTenant' \in Nat /\ deliveries' \in [Works -> Nat]
    <3>1. Tenant[w] \in Nat
      BY ConstantsAssumption
    <3>2. lastTenant' = Tenant[w] /\ deliveries' = [deliveries EXCEPT ![w] = deliveries[w] + 1]
      BY <1>33 DEF Claim
    <3> QED
      BY <3>1, <3>2
  <2> QED
    BY <1>33, <2>1, <2>2, <2>4, <2>5, <2>6, <2>7, <2>8, <2>9 DEF Claim
<1>34. ASSUME NEW w \in Works, Finalize(w) PROVE TypeOK'
  <2>1. TransitionOK'
    BY <1>34, SetStateType DEF Finalize, TransitionOK
  <2>2. pass' \in Pass
    BY <1>34 DEF Finalize, Pass
  <2> QED
    BY <1>34, <2>1, <2>2 DEF Finalize, TransitionOK
<1>35. ASSUME NEW w \in Works, ReleaseInstance(w) PROVE TypeOK'
  BY <1>35 DEF ReleaseInstance, Pass
<1>36. ASSUME NEW w \in Works, RecordRelease(w) PROVE TypeOK'
  BY <1>36 DEF RecordRelease, Pass
<1>37. ASSUME NEW w \in Works, FailRelease(w) PROVE TypeOK'
  BY <1>37 DEF FailRelease, Pass
<1>38. CASE RequestDies
  BY <1>38 DEF RequestDies
<1>39. CASE Crash
  <2>1. coordinator' \in Coordinator
    BY <1>39 DEF Crash, Coordinator
  <2> QED
    BY <1>39, <2>1 DEF Crash
<1>40. CASE Recover
  <2>1. coordinator.id \in Nat
    BY DEF Coordinator
  <2>2. coordinator' \in Coordinator
    <3>1. coordinator' = [up |-> TRUE, id |-> coordinator.id + 1]
      BY <1>40 DEF Recover, Fence
    <3> QED
      BY <2>1, <3>1 DEF Coordinator
  <2>3. lease' \in [Works -> Lease]
    <3>1. \A w \in Works : lease[w].generation \in Nat
      BY DEF Lease
    <3>2. \A w \in Works : [generation |-> lease[w].generation + 1,
                           holder |-> coordinator.id + 1] \in Lease
      BY <2>1, <3>1 DEF Lease
    <3> QED
      BY <1>40, <3>2 DEF Recover, Fence
  <2>4. ctx' \in [Contexts -> Context]
    <3>1. \A c \in Contexts :
            [ctx[c] EXCEPT !.phase = "blocked", !.epoch = ctx[c].epoch + 1] \in Context
      BY ContextUpdates
    <3> QED
      BY <1>40, <3>1 DEF Recover, Fence
  <2>5. phase' \in [Works -> Phases] /\ outbox' \in [Works -> OutboxStates]
    BY <1>40 DEF Recover, Fence
  <2>6. gate' \in [Works -> BOOLEAN]
    BY <1>40 DEF Recover, Fence
  <2> QED
    BY <1>40, <2>2, <2>3, <2>4, <2>5, <2>6 DEF Recover, Fence
<1>41. CASE UNCHANGED vars
  BY <1>41
<1>q. QED
  BY <1>1, <1>2, <1>3, <1>4, <1>5, <1>6, <1>7, <1>8, <1>9, <1>10, <1>11, <1>12, <1>13, <1>14,
     <1>15, <1>16, <1>17, <1>18, <1>19, <1>20, <1>21, <1>22, <1>23, <1>24, <1>25, <1>26, <1>27,
     <1>28, <1>29, <1>30, <1>31, <1>32, <1>33, <1>34, <1>35, <1>36, <1>37, <1>38, <1>39, <1>40,
     <1>41 DEF Next, Cancel, Attempt, PassStep, Time

\* The step leaves every row and every process of Work v alone.
SameRow(v) ==
  /\ phase'[v] = phase[v] /\ outcome'[v] = outcome[v] /\ outbox'[v] = outbox[v]
  /\ gate'[v] = gate[v] /\ lease'[v] = lease[v] /\ job'[v] = job[v]
  /\ instance'[v] = instance[v] /\ fiber'[v] = fiber[v]
  /\ verdict'[v] = verdict[v] /\ started'[v] = started[v]
  /\ canceller'[v] = canceller[v] /\ deliveries'[v] = deliveries[v]
  /\ v \in live' <=> v \in live
  /\ v \in aborted' <=> v \in aborted

\* The step makes Work v active, alone, and found both limits not reached.
AddsWithinLimits(v) ==
  /\ Cardinality({u \in Works : phase[u] \in Active}) < GlobalConcurrency
  /\ ~(TenantLoad(Tenant[v]) >= TenantConcurrency)
  /\ \A u \in Works \ {v} : phase'[u] \in Active => phase[u] \in Active

\* The step changes nothing that Lifecycle tells apart in the receipt, or in the
\* execution, of Work v.
SameReceipt(v) ==
  \/ phase'[v] = phase[v] /\ outcome'[v] = outcome[v]
  \/ {phase[v], phase'[v]} \cap {"reconciling", "settled"} = {}
SameExecution(v) == started'[v] = started[v] /\ (v \in live' <=> v \in live)
SameTelling(v) == v \in aborted' <=> v \in aborted

\* The execution of Work v bears the result out (Honest of Lifecycle).
Bears(v, result) ==
  \/ result \in {"failed", "interrupted"}
  \/ /\ v \notin live
     /\ \/ result = "completed" /\ (started[v] # 0 \/ Kind[v] = "sleep")
        \/ result = "output_failed" /\ started[v] # 0 /\ Kind[v] = "sandbox"
        \/ result \in {"denied", "queue_deadline"} /\ started[v] = 0
  \/ result = "cancelled" /\ ((started[v] = 0 /\ v \notin live) \/ v \in aborted)

\* What Lifecycle lets a step make of Work v, said of the rows: nothing, or only
\* an abort; its one execution begins, or ends; it is left in doubt, or settled.
Advances(v) ==
  \/ SameReceipt(v) /\ SameExecution(v) /\ (v \in aborted => v \in aborted')
  \/ /\ SameReceipt(v) /\ SameTelling(v)
     /\ phase[v] = "running" /\ started[v] = 0 /\ v \notin live
     /\ started'[v] = 1 /\ v \in live'
  \/ /\ SameReceipt(v) /\ SameTelling(v)
     /\ v \in live /\ v \notin live' /\ started'[v] = started[v]
  \/ /\ SameExecution(v) /\ SameTelling(v)
     /\ phase[v] \notin {"reconciling", "settled"} /\ phase'[v] = "reconciling"
  \/ /\ SameExecution(v) /\ SameTelling(v)
     /\ phase[v] # "settled" /\ phase'[v] = "settled" /\ Bears(v, outcome'[v])
     /\ phase[v] = "reconciling" =>
          Kind[v] = "sandbox" /\ outcome'[v] \in {"completed", "output_failed"}

\* What no step may do to Work v: take back a receipt, take up what awaits
\* reconciliation, lose the sandbox of a job in finalization, take it out of
\* finalization but by a fiber that is overdue, claim it against a limit or out of
\* turn.
Lawful(v) ==
  /\ phase[v] = "settled" => phase'[v] = "settled" /\ outcome'[v] = outcome[v]
  /\ phase[v] = "reconciling" =>
       \/ phase'[v] = "reconciling"
       \/ job[v] = "held" /\ phase'[v] = "settled"
                         /\ outcome'[v] \in {"completed", "output_failed"}
  /\ Kept(v) /\ phase[v] \in {"finalizing", "reconciling"} =>
       \/ phase'[v] = "settled"
       \/ phase'[v] \in {"finalizing", "reconciling"} /\ Kept(v)'
  /\ instance[v] = "gone" => instance'[v] = "gone"
  /\ phase[v] = "finalizing" =>
       \/ phase'[v] \in {"finalizing", "settled"}
       \/ phase'[v] = "reconciling" /\ Overdue(v)
  /\ phase[v] # "running" /\ phase'[v] = "running" =>
       \A u \in Pending : Fate(u) = "claimed" => ~Before(u, v)
  /\ phase'[v] \in {"running", "finalizing", "reconciling"} =>
       phase[v] \in {"running", "finalizing", "reconciling"} \/ AddsWithinLimits(v)
  /\ Advances(v)

\* A Work whose rows are left alone keeps its invariant.
LEMMA WorkFrame ==
  ASSUME NEW v \in Works, WorkInv(v), SameRow(v), UNCHANGED coordinator
  PROVE  WorkInv(v)' /\ Lawful(v)
<1>1. WorkInv(v)'
  BY DEF SameRow, WorkInv, OutboxInv, Untouched, FiberInv, Overdue, JobInv, Kept,
         CancelInv, ExecutionInv, DownInv
<1>2. Lawful(v)
  BY DEF SameRow, Lawful, Kept, Advances, SameReceipt, SameExecution
<1> QED
  BY <1>1, <1>2

\* A turn of the attempt only notes that it overtook a cancel that is observed.
LEMMA AttemptTurnFrame ==
  ASSUME canceller \in [Works -> Canceller], NEW w \in Works, AttemptTurn(w)
  PROVE  /\ \A v \in Works \ {w} : canceller'[v] = canceller[v]
         /\ canceller'[w].pc = canceller[w].pc
         /\ canceller'[w].unclaimed = canceller[w].unclaimed
         /\ canceller[w].pc = "observed" => canceller'[w].overtaken
<1>1. CASE canceller[w].pc = "observed"
  <2>1. canceller' = [canceller EXCEPT ![w].overtaken = TRUE]
    BY <1>1, Zenon DEF AttemptTurn
  <2> QED
    BY <2>1 DEF Canceller
<1>2. CASE canceller[w].pc # "observed"
  <2>1. canceller' = [canceller EXCEPT ![w].overtaken = FALSE]
    BY <1>2, Zenon DEF AttemptTurn
  <2> QED
    BY <1>2, <2>1, SMTT(30) DEF Canceller
<1> QED
  BY <1>1, <1>2

\* The lists of the pass stay right while the pass itself does not move, because
\* settled Works stay settled and finalizing ones keep their sandbox.
LEMMA PassFrame ==
  ASSUME PassInv, UNCHANGED << pass, coordinator >>,
         pass \in Pass,
         \A v \in Works : Lawful(v)
  PROVE  PassInv'
  BY SMTT(30) DEF PassInv, Lawful, Pass

\* The actions of Next that concern one Work and are not steps of the pass.
WorkAction(w) ==
  \/ Admit(w) \/ Approve(w) \/ Cancel(w) \/ Redeliver(w) \/ Attempt(w)
  \/ Time(w) \/ DispatchDies(w)

\* An action of one Work leaves the others alone and keeps the invariant of that
\* Work: requests, the dispatch fiber, time and failures.
LEMMA WorkStep ==
  ASSUME TypeOK, NEW w \in Works, WorkInv(w), WorkAction(w)
  PROVE  /\ \A v \in Works \ {w} : SameRow(v)
         /\ WorkInv(w)' /\ Lawful(w)
         /\ UNCHANGED << pass, coordinator >>
<1> USE DEF TypeOK, WorkInv, OutboxInv, Untouched, FiberInv, Overdue, BeforeStart, Preparing, JobInv,
    Kept, CancelInv, ExecutionInv, DownInv, Waiting, OutboxStates, SameRow, Lawful,
    Advances, SameReceipt, SameExecution, SameTelling, Bears
<1>1. CASE Admit(w)
  <2>1. \A v \in Works \ {w} : SameRow(v)
    BY <1>1 DEF Admit
  <2>2. OutboxInv(w)'
    BY <1>1 DEF Admit
  <2>3. FiberInv(w)'
    BY <1>1 DEF Admit
  <2>4. JobInv(w)'
    BY <1>1 DEF Admit
  <2>5. CancelInv(w)'
    BY <1>1 DEF Admit
  <2>6. ExecutionInv(w)' /\ DownInv(w)'
    BY <1>1 DEF Admit
  <2>7. Lawful(w) /\ UNCHANGED << pass, coordinator >>
    BY <1>1 DEF Admit
  <2> QED
    BY <2>1, <2>2, <2>3, <2>4, <2>5, <2>6, <2>7
<1>2. CASE Approve(w)
  <2>1. \A v \in Works \ {w} : SameRow(v)
    BY <1>2 DEF Approve
  <2>2. OutboxInv(w)'
    BY <1>2 DEF Approve
  <2>3. FiberInv(w)'
    BY <1>2 DEF Approve
  <2>4. JobInv(w)'
    BY <1>2 DEF Approve
  <2>5. CancelInv(w)'
    BY <1>2 DEF Approve
  <2>6. ExecutionInv(w)' /\ DownInv(w)'
    BY <1>2 DEF Approve
  <2>7. Lawful(w) /\ UNCHANGED << pass, coordinator >>
    BY <1>2 DEF Approve
  <2> QED
    BY <2>1, <2>2, <2>3, <2>4, <2>5, <2>6, <2>7
<1>3. CASE CancelObserve(w)
  <2>1. \A v \in Works \ {w} : SameRow(v)
    BY <1>3 DEF CancelObserve
  <2>2. OutboxInv(w)'
    BY <1>3 DEF CancelObserve
  <2>3. FiberInv(w)'
    BY <1>3 DEF CancelObserve
  <2>4. JobInv(w)'
    BY <1>3 DEF CancelObserve
  <2>5. CancelInv(w)'
    BY <1>3 DEF CancelObserve
  <2>6. ExecutionInv(w)' /\ DownInv(w)'
    BY <1>3 DEF CancelObserve
  <2>7. Lawful(w) /\ UNCHANGED << pass, coordinator >>
    BY <1>3 DEF CancelObserve
  <2> QED
    BY <2>1, <2>2, <2>3, <2>4, <2>5, <2>6, <2>7
<1>4. CASE CancelCloseGate(w)
  <2>1. \A v \in Works \ {w} : SameRow(v)
    BY <1>4 DEF CancelCloseGate, AfterCloseGate, HasController
  <2>2. OutboxInv(w)'
    BY <1>4 DEF CancelCloseGate, AfterCloseGate, HasController
  <2>3. FiberInv(w)'
    BY <1>4 DEF CancelCloseGate, AfterCloseGate, HasController
  <2>4. JobInv(w)'
    BY <1>4 DEF CancelCloseGate, AfterCloseGate, HasController
  <2>5. CancelInv(w)'
    <3>1. CASE canceller' = [canceller EXCEPT ![w] = NoCancel]
      BY <3>1 DEF NoCancel
    <3>2. CASE canceller' # [canceller EXCEPT ![w] = NoCancel]
      <4>1. /\ canceller' = [canceller EXCEPT ![w].pc = "failing"]
            /\ ~HasController(w)
            /\ outbox[w] = "claimed" \/ canceller[w].unclaimed
        BY <1>4, <3>2, Zenon DEF CancelCloseGate, AfterCloseGate
      <4> QED
        BY <1>4, <4>1 DEF CancelCloseGate, AfterCloseGate
    <3> QED
      BY <3>1, <3>2
  <2>6. ExecutionInv(w)' /\ DownInv(w)'
    BY <1>4 DEF CancelCloseGate, AfterCloseGate, HasController
  <2>7. Lawful(w) /\ UNCHANGED << pass, coordinator >>
    BY <1>4 DEF CancelCloseGate, AfterCloseGate, HasController
  <2> QED
    BY <2>1, <2>2, <2>3, <2>4, <2>5, <2>6, <2>7
<1>5. CASE CancelFail(w)
  <2>1. \A v \in Works \ {w} : SameRow(v)
    BY <1>5 DEF CancelFail, SetState, Superseded
  <2>2. OutboxInv(w)'
    BY <1>5 DEF CancelFail, SetState, Superseded
  <2>3. FiberInv(w)'
    BY <1>5 DEF CancelFail, SetState, Superseded
  <2>4. JobInv(w)'
    BY <1>5 DEF CancelFail, SetState, Superseded
  <2>5. CancelInv(w)'
    BY <1>5 DEF CancelFail, NoCancel
  <2>6. ExecutionInv(w)' /\ DownInv(w)'
    BY <1>5 DEF CancelFail, SetState, Superseded
  <2>7. Lawful(w) /\ UNCHANGED << pass, coordinator >>
    BY <1>5 DEF CancelFail, SetState, Superseded
  <2> QED
    BY <2>1, <2>2, <2>3, <2>4, <2>5, <2>6, <2>7
<1>6. CASE Redeliver(w)
  <2>1. \A v \in Works \ {w} : SameRow(v)
    BY <1>6 DEF Redeliver
  <2>2. WorkInv(w)'
    BY <1>6 DEF Redeliver
  <2>3. Lawful(w) /\ UNCHANGED << pass, coordinator >>
    BY <1>6 DEF Redeliver
  <2> QED
    BY <2>1, <2>2, <2>3
<1>7. CASE BeginDispatch(w)
  <2>1. \A v \in Works \ {w} : SameRow(v)
    BY <1>7 DEF BeginDispatch, AcceptDelivery, AttemptTurn
  <2>2. OutboxInv(w)'
    BY <1>7 DEF BeginDispatch, AcceptDelivery, AttemptTurn
  <2>3. FiberInv(w)'
    BY <1>7 DEF BeginDispatch, AcceptDelivery, AttemptTurn
  <2>4. JobInv(w)'
    BY <1>7 DEF BeginDispatch, AcceptDelivery, AttemptTurn
  <2>5. CancelInv(w)'
    <3>1. /\ phase[w] = "running" /\ gate[w] /\ outbox[w] = "claimed"
          /\ UNCHANGED << phase, gate >>
      BY <1>7 DEF BeginDispatch, AcceptDelivery, DispatchAllowed
    <3>2. canceller'[w].pc = canceller[w].pc /\ canceller'[w].unclaimed = canceller[w].unclaimed
      BY <1>7, AttemptTurnFrame DEF BeginDispatch, AcceptDelivery
    <3>3. ~(canceller[w].pc = "observed" /\ canceller[w].overtaken)
      BY <1>7 DEF BeginDispatch, AcceptDelivery, AttemptTurn
    <3> QED
      BY <3>1, <3>2, <3>3
  <2>6. ExecutionInv(w)' /\ DownInv(w)'
    BY <1>7 DEF BeginDispatch, AcceptDelivery, AttemptTurn
  <2>7. Lawful(w) /\ UNCHANGED << pass, coordinator >>
    BY <1>7 DEF BeginDispatch, AcceptDelivery, AttemptTurn
  <2> QED
    BY <2>1, <2>2, <2>3, <2>4, <2>5, <2>6, <2>7
<1>8. CASE RefuseDispatch(w)
  <2>1. \A v \in Works \ {w} : SameRow(v)
    BY <1>8 DEF RefuseDispatch, DropDelivery
  <2>2. WorkInv(w)'
    BY <1>8 DEF RefuseDispatch, DropDelivery
  <2>3. Lawful(w) /\ UNCHANGED << pass, coordinator >>
    BY <1>8 DEF RefuseDispatch, DropDelivery
  <2> QED
    BY <2>1, <2>2, <2>3
<1>9. CASE RegisterController(w)
  <2>1. \A v \in Works \ {w} : SameRow(v)
    BY <1>9 DEF RegisterController
  <2>2. WorkInv(w)'
    BY <1>9 DEF RegisterController
  <2>3. Lawful(w) /\ UNCHANGED << pass, coordinator >>
    BY <1>9 DEF RegisterController
  <2> QED
    BY <2>1, <2>2, <2>3
<1>10. CASE DispatchGate(w)
  <2>1. \A v \in Works \ {w} : SameRow(v)
    BY <1>10 DEF DispatchGate, AttemptTurn
  <2>2. WorkInv(w)'
    BY <1>10 DEF DispatchGate, AttemptTurn
  <2>3. Lawful(w) /\ UNCHANGED << pass, coordinator >>
    BY <1>10 DEF DispatchGate, AttemptTurn
  <2> QED
    BY <2>1, <2>2, <2>3
<1>11. CASE FailBeforeExecution(w)
  <2>1. \A v \in Works \ {w} : SameRow(v)
    BY <1>11, ZenonT(40) DEF FailBeforeExecution, Conclude, EarlyVerdicts
  <2>2. WorkInv(w)'
    BY <1>11 DEF FailBeforeExecution, Conclude, EarlyVerdicts
  <2>3. Lawful(w) /\ UNCHANGED << pass, coordinator >>
    BY <1>11 DEF FailBeforeExecution, Conclude, EarlyVerdicts
  <2> QED
    BY <2>1, <2>2, <2>3
<1>12. CASE CreateInstance(w)
  <2>1. \A v \in Works \ {w} : SameRow(v)
    BY <1>12 DEF CreateInstance
  <2>2. WorkInv(w)'
    BY <1>12 DEF CreateInstance
  <2>3. Lawful(w) /\ UNCHANGED << pass, coordinator >>
    BY <1>12 DEF CreateInstance
  <2> QED
    BY <2>1, <2>2, <2>3
<1>13. CASE RecordAllocation(w)
  <2>1. \A v \in Works \ {w} : SameRow(v)
    BY <1>13 DEF RecordAllocation
  <2>2. WorkInv(w)'
    BY <1>13 DEF RecordAllocation
  <2>3. Lawful(w) /\ UNCHANGED << pass, coordinator >>
    BY <1>13 DEF RecordAllocation
  <2> QED
    BY <2>1, <2>2, <2>3
<1>14. CASE OpenContext(w)
  <2>1. \A v \in Works \ {w} : SameRow(v)
    BY <1>14 DEF OpenContext, Conclude
  <2>2. WorkInv(w)'
    BY <1>14 DEF OpenContext, Conclude
  <2>3. Lawful(w) /\ UNCHANGED << pass, coordinator >>
    BY <1>14 DEF OpenContext, Conclude
  <2> QED
    BY <2>1, <2>2, <2>3
<1>15. CASE SleepUnallocated(w)
  <2>1. \A v \in Works \ {w} : SameRow(v)
    BY <1>15 DEF SleepUnallocated, Conclude
  <2>2. WorkInv(w)'
    BY <1>15 DEF SleepUnallocated, Conclude
  <2>3. Lawful(w) /\ UNCHANGED << pass, coordinator >>
    BY <1>15 DEF SleepUnallocated, Conclude
  <2> QED
    BY <2>1, <2>2, <2>3
<1>16. CASE EnsureAllocation(w)
  <2>1. \A v \in Works \ {w} : SameRow(v)
    BY <1>16 DEF EnsureAllocation, SaveContext
  <2>2. WorkInv(w)'
    BY <1>16 DEF EnsureAllocation, SaveContext
  <2>3. Lawful(w) /\ UNCHANGED << pass, coordinator >>
    BY <1>16 DEF EnsureAllocation, SaveContext
  <2> QED
    BY <2>1, <2>2, <2>3
<1>17. CASE Materialize(w)
  <2>1. \A v \in Works \ {w} : SameRow(v)
    BY <1>17 DEF Materialize, SaveContext, Conclude, EarlyVerdicts
  <2>2. OutboxInv(w)'
    BY <1>17 DEF Materialize, SaveContext, Conclude, EarlyVerdicts
  <2>3. FiberInv(w)'
    BY <1>17 DEF Materialize, SaveContext, Conclude, EarlyVerdicts
  <2>4. JobInv(w)'
    BY <1>17 DEF Materialize, SaveContext, Conclude, EarlyVerdicts
  <2>5. CancelInv(w)'
    BY <1>17 DEF Materialize, SaveContext, Conclude, EarlyVerdicts
  <2>6. ExecutionInv(w)' /\ DownInv(w)'
    BY <1>17 DEF Materialize, SaveContext, Conclude, EarlyVerdicts
  <2>7. Lawful(w) /\ UNCHANGED << pass, coordinator >>
    BY <1>17 DEF Materialize, SaveContext, Conclude, EarlyVerdicts
  <2> QED
    BY <2>1, <2>2, <2>3, <2>4, <2>5, <2>6, <2>7
<1>18. CASE StartExecution(w)
  <2>1. \A v \in Works \ {w} : SameRow(v)
    BY <1>18 DEF StartExecution, Execute
  <2>2. WorkInv(w)'
    BY <1>18 DEF StartExecution, Execute
  <2>3. Lawful(w) /\ UNCHANGED << pass, coordinator >>
    BY <1>18 DEF StartExecution, Execute
  <2> QED
    BY <2>1, <2>2, <2>3
<1>19. CASE LimitCalls(w)
  <2>1. \A v \in Works \ {w} : SameRow(v)
    BY <1>19 DEF LimitCalls
  <2>2. WorkInv(w)'
    BY <1>19 DEF LimitCalls
  <2>3. Lawful(w) /\ UNCHANGED << pass, coordinator >>
    BY <1>19 DEF LimitCalls
  <2> QED
    BY <2>1, <2>2, <2>3
<1>20. CASE EndExecution(w)
  <2>1. \A v \in Works \ {w} : SameRow(v)
    BY <1>20 DEF EndExecution, SaveContext, Conclude, Verdicts, GoesOn
  <2>2. OutboxInv(w)'
    BY <1>20 DEF EndExecution, SaveContext, Conclude, Verdicts, GoesOn
  <2>3. FiberInv(w)'
    BY <1>20 DEF EndExecution, SaveContext, Conclude, Verdicts, GoesOn
  <2>4. JobInv(w)'
    BY <1>20 DEF EndExecution, SaveContext, Conclude, Verdicts, GoesOn
  <2>5. CancelInv(w)'
    BY <1>20 DEF EndExecution, SaveContext, Conclude, Verdicts, GoesOn
  <2>6. ExecutionInv(w)' /\ DownInv(w)'
    BY <1>20 DEF EndExecution, SaveContext, Conclude, Verdicts, GoesOn
  <2>7. Lawful(w) /\ UNCHANGED << pass, coordinator >>
    BY <1>20 DEF EndExecution, SaveContext, Conclude, Verdicts, GoesOn
  <2> QED
    BY <2>1, <2>2, <2>3, <2>4, <2>5, <2>6, <2>7
<1>21. CASE Settle(w)
  <2>1. \A v \in Works \ {w} : SameRow(v)
    BY <1>21 DEF Settle, SettleAs, SetState, Superseded, Conclude
  <2>2. WorkInv(w)'
    BY <1>21 DEF Settle, SettleAs, SetState, Superseded, Conclude
  <2>3. Lawful(w) /\ UNCHANGED << pass, coordinator >>
    BY <1>21 DEF Settle, SettleAs, SetState, Superseded, Conclude
  <2> QED
    BY <2>1, <2>2, <2>3
<1>22. CASE Expire(w)
  <2>1. \A v \in Works \ {w} : SameRow(v)
    BY <1>22 DEF Expire
  <2>2. WorkInv(w)'
    BY <1>22 DEF Expire
  <2>3. Lawful(w) /\ UNCHANGED << pass, coordinator >>
    BY <1>22 DEF Expire
  <2> QED
    BY <2>1, <2>2, <2>3
<1>23. CASE LapseApproval(w)
  <2>1. \A v \in Works \ {w} : SameRow(v)
    BY <1>23 DEF LapseApproval
  <2>2. WorkInv(w)'
    BY <1>23 DEF LapseApproval
  <2>3. Lawful(w) /\ UNCHANGED << pass, coordinator >>
    BY <1>23 DEF LapseApproval
  <2> QED
    BY <2>1, <2>2, <2>3
<1>24. CASE ExpireOutput(w)
  <2>1. \A v \in Works \ {w} : SameRow(v)
    BY <1>24 DEF ExpireOutput
  <2>2. WorkInv(w)'
    BY <1>24 DEF ExpireOutput
  <2>3. Lawful(w) /\ UNCHANGED << pass, coordinator >>
    BY <1>24 DEF ExpireOutput
  <2> QED
    BY <2>1, <2>2, <2>3
<1>25. CASE OrphanEnds(w)
  <2>1. \A v \in Works \ {w} : SameRow(v)
    BY <1>25 DEF OrphanEnds
  <2>2. WorkInv(w)'
    BY <1>25 DEF OrphanEnds
  <2>3. Lawful(w) /\ UNCHANGED << pass, coordinator >>
    BY <1>25 DEF OrphanEnds
  <2> QED
    BY <2>1, <2>2, <2>3
<1>26. CASE DispatchDies(w)
  <2>1. \A v \in Works \ {w} : SameRow(v)
    BY <1>26 DEF DispatchDies
  <2>2. WorkInv(w)'
    BY <1>26 DEF DispatchDies
  <2>3. Lawful(w) /\ UNCHANGED << pass, coordinator >>
    BY <1>26 DEF DispatchDies
  <2> QED
    BY <2>1, <2>2, <2>3
<1> QED
  BY <1>1, <1>2, <1>3, <1>4, <1>5, <1>6, <1>7, <1>8, <1>9, <1>10, <1>11, <1>12, <1>13, <1>14,
     <1>15, <1>16, <1>17, <1>18, <1>19, <1>20, <1>21, <1>22, <1>23, <1>24, <1>25, <1>26
  DEF WorkAction, Cancel, Attempt, Time

\* BusyIsHeld is about phases and context rows only.
LEMMA BusyFrame ==
  ASSUME BusyIsHeld, UNCHANGED << phase, ctx >>
  PROVE  BusyIsHeld'
  BY DEF BusyIsHeld

\* setState gives a context back exactly when its Work stops holding it.
LEMMA BusyAfterSetState ==
  ASSUME TypeOK, BusyIsHeld, NEW w \in Works, NEW l, NEW out,
         NEW to \in {"settled", "reconciling", "finalizing"},
         to # "settled" => Target[w] = None \/ (to = "reconciling" /\ phase[w] = "running"),
         SetState(w, l, to, out)
  PROVE  BusyIsHeld'
<1>1. CASE UNCHANGED << phase, outcome, gate, outbox, ctx >>
  BY <1>1, BusyFrame
<1>2. CASE /\ phase' = [phase EXCEPT ![w] = to]
           /\ IF to \in {"settled", "reconciling"} THEN ctx' = ContextAfter(w, to)
              ELSE UNCHANGED ctx
  <2>1. ASSUME NEW c \in Contexts, NEW v \in Works
        PROVE  ctx'[c].busy = v <=> Target[v] = c /\ phase'[v] \in {"running", "reconciling"}
    <3>1. None \notin Works /\ None \notin Contexts
      BY ConstantsAssumption
    <3>2. ctx[c] \in Context /\ ctx \in [Contexts -> Context]
      BY DEF TypeOK
    <3>3. phase'[v] = IF v = w THEN to ELSE phase[v]
      BY <1>2 DEF TypeOK
    <3>4. ctx[c].busy = v <=> Target[v] = c /\ phase[v] \in {"running", "reconciling"}
      BY DEF BusyIsHeld
    <3>5. ctx[c].busy = w <=> Target[w] = c /\ phase[w] \in {"running", "reconciling"}
      BY DEF BusyIsHeld
    <3>6. CASE to = "finalizing"
      BY <1>2, <3>1, <3>3, <3>4, <3>6
    <3>7. CASE to = "settled"
      <4>1. ctx'[c].busy = IF ctx[c].busy = w /\ Target[w] = c THEN None ELSE ctx[c].busy
        BY <1>2, <3>2, <3>7 DEF ContextAfter, Context
      <4> QED
        BY <3>1, <3>3, <3>4, <3>5, <3>7, <4>1
    <3>8. CASE to = "reconciling"
      <4>1. ctx'[c].busy = ctx[c].busy
        BY <1>2, <3>2, <3>8 DEF ContextAfter, Context
      <4> QED
        BY <3>1, <3>3, <3>4, <3>5, <3>8, <4>1
    <3> QED
      BY <3>6, <3>7, <3>8
  <2> QED
    BY <2>1 DEF BusyIsHeld
<1> QED
  BY <1>1, <1>2 DEF SetState, Superseded

\* saveContext does not change who keeps the context busy.
LEMMA BusyAfterSaveContext ==
  ASSUME TypeOK, BusyIsHeld, NEW w \in Works, NEW c, NEW next,
         c \in Contexts => next.busy = ctx[c].busy,
         SaveContext(w, c, next)
  PROVE  BusyIsHeld'
<1>1. CASE UNCHANGED journal
  BY <1>1, BusyFrame
<1>2. CASE ctx' = [ctx EXCEPT ![c] = next] /\ UNCHANGED phase
  BY <1>2 DEF BusyIsHeld, TypeOK
<1> QED
  BY <1>1, <1>2 DEF SaveContext

\* No action of one Work breaks the agreement of contexts and phases.
LEMMA BusyStep ==
  ASSUME IInv, NEW w \in Works, WorkAction(w)
  PROVE  BusyIsHeld'
<1> USE DEF IInv
<1>1. CASE Admit(w) \/ Approve(w)
  <2>1. ctx' = ctx
    BY <1>1 DEF Admit, Approve
  <2>2. \A v \in Works : phase'[v] \in {"running", "reconciling"}
                           <=> phase[v] \in {"running", "reconciling"}
    BY <1>1 DEF Admit, Approve, TypeOK
  <2> QED
    BY <2>1, <2>2 DEF BusyIsHeld
<1>2. CASE CancelFail(w)
  BY <1>2, BusyAfterSetState DEF CancelFail
<1>3. CASE Settle(w)
  <2>1. fiber[w] \in {"settling", "refused"} /\ SettleAs(w, verdict[w])
    BY <1>3 DEF Settle
  <2>2. Kind[w] = "sandbox" => Target[w] = None
    BY ConstantsAssumption
  <2>3. CASE verdict[w] = "uncertain"
    <3>1. SetState(w, lease[w], "reconciling", "none")
      BY <2>1, <2>3 DEF SettleAs
    <3>2. phase[w] = "running" \/ Target[w] = None
      BY <2>1, <2>2 DEF WorkInv, FiberInv, Overdue
    <3> QED
      BY <3>1, <3>2, BusyAfterSetState
  <2>4. CASE verdict[w] = "finalizing"
    <3>1. SetState(w, lease[w], "finalizing", "none")
      BY <2>1, <2>4 DEF SettleAs
    <3>2. Target[w] = None
      BY <2>1, <2>2, <2>4 DEF WorkInv, FiberInv
    <3> QED
      BY <3>1, <3>2, BusyAfterSetState
  <2>5. CASE verdict[w] \notin {"uncertain", "finalizing"}
    BY <2>1, <2>5, BusyAfterSetState DEF SettleAs
  <2> QED
    BY <2>3, <2>4, <2>5
<1>4. CASE EnsureAllocation(w)
  <2>1. Target[w] \in Contexts => ctx[Target[w]] \in Context
    BY DEF TypeOK
  <2> QED
    BY <1>4, <2>1, BusyFrame, BusyAfterSaveContext DEF EnsureAllocation, Context
<1>5. CASE Materialize(w)
  <2>1. Target[w] \in Contexts => ctx[Target[w]] \in Context
    BY DEF TypeOK
  <2> QED
    BY <1>5, <2>1, BusyFrame, BusyAfterSaveContext DEF Materialize, Context
<1>6. CASE EndExecution(w)
  <2>1. Target[w] \in Contexts => ctx[Target[w]] \in Context
    BY DEF TypeOK
  <2> QED
    BY <1>6, <2>1, BusyFrame, BusyAfterSaveContext DEF EndExecution, Context
<1>7. CASE \/ Redeliver(w) \/ Time(w) \/ DispatchDies(w)
           \/ CancelObserve(w) \/ CancelCloseGate(w)
  BY <1>7, BusyFrame DEF Redeliver, Time, Expire, LapseApproval, ExpireOutput, OrphanEnds,
     DispatchDies, CancelObserve, CancelCloseGate, AfterCloseGate
<1>8. CASE \/ BeginDispatch(w) \/ RefuseDispatch(w) \/ RegisterController(w)
           \/ DispatchGate(w) \/ FailBeforeExecution(w) \/ CreateInstance(w)
           \/ RecordAllocation(w) \/ OpenContext(w) \/ SleepUnallocated(w)
           \/ StartExecution(w) \/ LimitCalls(w)
  BY <1>8, BusyFrame DEF BeginDispatch, AcceptDelivery, RefuseDispatch, DropDelivery,
     RegisterController, DispatchGate, FailBeforeExecution, CreateInstance,
     RecordAllocation, OpenContext, SleepUnallocated, StartExecution, LimitCalls
<1> QED
  BY <1>1, <1>2, <1>3, <1>4, <1>5, <1>6, <1>7, <1>8 DEF WorkAction, Cancel, Attempt

\* The steps of the pass that only move the pass: no row changes, and the lists
\* they make hold what the next steps rely on.
LEMMA BookkeepingStep ==
  ASSUME IInv,
         \/ Snapshot \/ ClaimSaturated \/ ListFinalizers \/ ListReleases \/ EndPass
         \/ \E w \in Works : FailRelease(w)
  PROVE  (\A v \in Works : WorkInv(v)' /\ Lawful(v)) /\ PassInv' /\ BusyIsHeld'
<1> USE DEF IInv
<1>1. /\ UNCHANGED << journal, clock, coordinator, deliveries, fiber, verdict, canceller, world >>
      /\ \/ Snapshot \/ ClaimSaturated \/ ListFinalizers \/ ListReleases \/ EndPass
         \/ \E w \in Works : FailRelease(w)
  BY DEF Snapshot, ClaimSaturated, ListFinalizers, ListReleases, ListToRelease, EndPass,
     FailRelease
<1>2. \A v \in Works : SameRow(v)
  BY <1>1 DEF SameRow
<1>3. (\A v \in Works : WorkInv(v)' /\ Lawful(v)) /\ BusyIsHeld'
  BY <1>1, <1>2, WorkFrame, BusyFrame
<1>4. PassInv'
  <2>1. CASE Snapshot
    BY <1>1, <2>1 DEF Snapshot, PassInv, TypeOK, Pass
  <2>2. CASE ClaimSaturated \/ EndPass
    BY <1>1, <2>2 DEF ClaimSaturated, EndPass, NoPass, PassAt, PassInv
  <2>3. CASE ListFinalizers
    BY <1>1, <2>3 DEF ListFinalizers, PassInv, TypeOK, Pass, WorkInv, JobInv, Kept
  <2>4. CASE ListReleases
    BY <1>1, <2>4 DEF ListReleases, ListToRelease, PassAt, PassInv
  <2>5. CASE \E w \in Works : FailRelease(w)
    BY <1>1, <2>5 DEF FailRelease, PassInv, TypeOK, Pass
  <2> QED
    BY <1>1, <2>1, <2>2, <2>3, <2>4, <2>5
<1> QED
  BY <1>3, <1>4

\* Finalizing a listed Work: it is finalizing, or its attempt ran over its
\* deadline meanwhile, and either way it kept its sandbox and is settled.
LEMMA FinalizeStep ==
  ASSUME IInv, NEW w \in Works, Finalize(w)
  PROVE  (\A v \in Works : WorkInv(v)' /\ Lawful(v)) /\ PassInv' /\ BusyIsHeld'
<1> USE DEF IInv, TypeOK
<1>1. /\ \/ UNCHANGED << transition >>
         \/ \E out \in {"completed", "output_failed"} : SetState(w, lease[w], "settled", out)
      /\ pass' = [pass EXCEPT !.todo = pass.todo \ {w}]
      /\ UNCHANGED << reservation, clock, coordinator, deliveries, fiber, verdict, canceller, world >>
      /\ pass.pc = "finalize" /\ w \in pass.todo
  BY DEF Finalize
<1>2. \/ phase[w] = "settled"
      \/ phase[w] \in {"finalizing", "reconciling"} /\ Kept(w)
  BY <1>1 DEF PassInv
<1>3. \A v \in Works \ {w} : SameRow(v)
  BY <1>1 DEF SetState, Superseded, SameRow
<1>4. BusyIsHeld'
  BY <1>1, BusyFrame, BusyAfterSetState
<1>5. CASE UNCHANGED << transition >>
  <2>1. SameRow(w)
    BY <1>1, <1>5 DEF SameRow
  <2>2. \A v \in Works : WorkInv(v)' /\ Lawful(v)
    BY <1>1, <1>3, <2>1, WorkFrame
  <2>3. PassInv'
    BY <1>1, <1>5 DEF PassInv, Pass, Kept
  <2> QED
    BY <1>4, <2>2, <2>3
<1>6. CASE /\ phase[w] # "settled" /\ phase' = [phase EXCEPT ![w] = "settled"]
           /\ outcome'[w] \in {"completed", "output_failed"} /\ ~gate'[w] /\ outbox'[w] = "done"
  <2>1. WorkInv(w)'
    BY <1>1, <1>2, <1>6 DEF WorkInv, OutboxInv, Untouched, FiberInv, Overdue, JobInv, Kept,
       CancelInv, ExecutionInv, DownInv
  <2>2. Lawful(w)
    BY <1>1, <1>2, <1>6 DEF Lawful, Kept,
       Advances, SameReceipt, SameExecution, SameTelling, Bears
  <2>3. \A v \in Works \ {w} : WorkInv(v)' /\ Lawful(v)
    BY <1>1, <1>3, WorkFrame
  <2>4. PassInv'
    BY <1>1, <1>6 DEF PassInv, Pass, Kept
  <2> QED
    BY <1>4, <2>1, <2>2, <2>3, <2>4
<1> QED
  BY <1>1, <1>5, <1>6 DEF SetState, Superseded

\* Releasing a sandbox: only settled Works are on the list.
LEMMA ReleaseStep ==
  ASSUME IInv, NEW w \in Works, ReleaseInstance(w) \/ RecordRelease(w)
  PROVE  (\A v \in Works : WorkInv(v)' /\ Lawful(v)) /\ PassInv' /\ BusyIsHeld'
<1> USE DEF IInv, TypeOK
<1>1. BusyIsHeld' /\ UNCHANGED coordinator
  BY BusyFrame DEF ReleaseInstance, RecordRelease
<1>2. \A v \in Works \ {w} : SameRow(v)
  BY DEF ReleaseInstance, RecordRelease, SameRow
<1>3. CASE ReleaseInstance(w)
  <2>1. phase[w] = "settled"
    BY <1>3 DEF ReleaseInstance, PassInv
  <2>2. WorkInv(w)' /\ Lawful(w)
    BY <1>3, <2>1 DEF ReleaseInstance, WorkInv, OutboxInv, Untouched, FiberInv, Overdue,
       JobInv, Kept, CancelInv, ExecutionInv, DownInv, Lawful, OutboxStates, Waiting,
       Advances, SameReceipt, SameExecution, SameTelling
  <2>3. PassInv'
    BY <1>3 DEF ReleaseInstance, PassInv, Pass
  <2> QED
    BY <1>1, <1>2, <2>2, <2>3, WorkFrame
<1>4. CASE RecordRelease(w)
  <2>1. instance[w] = "gone" /\ phase[w] = "settled"
    BY <1>4 DEF RecordRelease, PassInv, WorkInv, JobInv
  <2>2. WorkInv(w)' /\ Lawful(w)
    BY <1>4, <2>1 DEF RecordRelease, WorkInv, OutboxInv, Untouched, FiberInv, Overdue,
       JobInv, Kept, CancelInv, ExecutionInv, DownInv, Lawful, OutboxStates, Waiting,
       Advances, SameReceipt, SameExecution
  <2>3. PassInv'
    BY <1>4 DEF RecordRelease, PassInv, Pass
  <2> QED
    BY <1>1, <1>2, <2>2, <2>3, WorkFrame
<1> QED
  BY <1>3, <1>4

\* A pending Work that a claim settles, holds or skips was never executed, and
\* keeps its invariant.
LEMMA PassedOver ==
  ASSUME IInv, NEW v \in Works, outbox[v] = "pending", Fate(v) # "claimed",
         NEW q, q \in {phase[v], "settled", "held_context", "held_capacity", "held_approval"},
         phase'[v] = q,
         q = "settled" => /\ outbox'[v] = "done" /\ ~gate'[v]
                          /\ outcome'[v] \in {"denied", "queue_deadline"},
         q # "settled" => UNCHANGED << outbox[v], outcome[v] >>,
         UNCHANGED << lease[v], job[v], instance[v], fiber[v], verdict[v], started[v],
                      canceller[v], deliveries[v], live, aborted, coordinator >>,
         gate'[v] => gate[v]
  PROVE  WorkInv(v)' /\ Lawful(v)
<1>1. phase[v] \in Waiting \cup {"held_approval"} /\ Untouched(v) /\ lease[v] = NoLease
      /\ WorkInv(v)
  BY DEF IInv, WorkInv, OutboxInv
<1>2. OutboxInv(v)' /\ FiberInv(v)' /\ JobInv(v)'
  BY <1>1 DEF WorkInv, OutboxInv, Untouched, FiberInv, Overdue, JobInv, Kept, Waiting,
     BeforeStart, Preparing
<1>3. CancelInv(v)' /\ ExecutionInv(v)' /\ DownInv(v)'
  BY <1>1 DEF WorkInv, Untouched, CancelInv, ExecutionInv, DownInv, Waiting
<1>4. Lawful(v)
  BY <1>1 DEF Lawful, Waiting, Untouched, Advances, SameReceipt, SameExecution, SameTelling,
     Bears
<1> QED
  BY <1>2, <1>3, <1>4 DEF WorkInv

\* A claim that finds nothing to run.
LEMMA ClaimNothingStep ==
  ASSUME IInv, ClaimNothing
  PROVE  (\A v \in Works : WorkInv(v)' /\ Lawful(v)) /\ PassInv' /\ BusyIsHeld'
<1> USE DEF IInv
<1>1. ASSUME NEW v \in Works PROVE WorkInv(v)' /\ Lawful(v)
  <2>1. CASE v \in Pending
    <3>1. outbox[v] = "pending" /\ Fate(v) # "claimed"
      BY <2>1 DEF Pending, ClaimNothing
    <3>2. phase'[v] \in {phase[v], "settled", "held_context", "held_capacity", "held_approval"}
          /\ (phase'[v] = "settled" => v \in Closed(Pending) \/ phase[v] = "settled")
          /\ (v \in Closed(Pending) => phase'[v] = "settled")
      BY <2>1, <3>1, FateValues DEF ClaimNothing, PhaseAfter, Closed
    <3>3. phase[v] # "settled"
      BY <3>1 DEF WorkInv, OutboxInv, Waiting
    <3>4. v \in Closed(Pending) =>
            outbox'[v] = "done" /\ ~gate'[v] /\ outcome'[v] \in {"denied", "queue_deadline"}
      BY DEF ClaimNothing, PassOver, Closed, TypeOK
    <3>5. /\ v \notin Closed(Pending) => UNCHANGED << outbox[v], outcome[v] >>
          /\ gate'[v] => gate[v]
      BY DEF ClaimNothing, PassOver, TypeOK
    <3> QED
      BY <3>1, <3>2, <3>3, <3>4, <3>5, PassedOver DEF ClaimNothing
  <2>2. CASE v \notin Pending
    <3>1. v \notin Closed(Pending) /\ PhaseAfter(v, Pending) = phase[v]
      BY <2>2 DEF Closed, PhaseAfter
    <3>2. gate'[v] = gate[v]
      BY <3>1 DEF ClaimNothing, PassOver, TypeOK
    <3>3. SameRow(v) /\ UNCHANGED coordinator
      BY <3>1, <3>2 DEF ClaimNothing, PassOver, SameRow
    <3> QED
      BY <3>3, WorkFrame
  <2> QED
    BY <2>1, <2>2
<1>2. PassInv'
  BY DEF ClaimNothing, PassAt, PassInv
<1>3. BusyIsHeld'
  <2>1. ASSUME NEW v \in Works
        PROVE  phase'[v] \in {"running", "reconciling"} <=> phase[v] \in {"running", "reconciling"}
    <3>1. CASE v \in Pending
      <4>1. phase[v] \notin {"running", "reconciling"} /\ Fate(v) # "claimed"
        BY <3>1 DEF ClaimNothing, Pending, WorkInv, OutboxInv, Waiting
      <4> QED
        BY <4>1, FateValues DEF ClaimNothing, PhaseAfter
    <3>2. CASE v \notin Pending
      BY <3>2 DEF ClaimNothing, PhaseAfter
    <3> QED
      BY <3>1, <3>2
  <2>2. ctx' = ctx
    BY DEF ClaimNothing
  <2> QED
    BY <2>1, <2>2 DEF BusyIsHeld
<1> QED
  BY <1>1, <1>2, <1>3

\* A claim: the claimed Work was never executed, its context was free, and a
\* cancel that still takes it for unclaimed is noted as overtaken.
LEMMA ClaimStep ==
  ASSUME IInv, NEW w \in Works, Claim(w)
  PROVE  (\A v \in Works : WorkInv(v)' /\ Lawful(v)) /\ PassInv' /\ BusyIsHeld'
<1> USE DEF IInv
<1>1. PICK tied \in SUBSET {v \in Pending \ {w} :
                            ~Before(v, w) /\ ~Before(w, v) /\ Fate(v) # "claimed"} :
        LET passed == tied \cup {v \in Pending : Before(v, w)}
        IN  /\ PassOver(passed)
            /\ phase' = [v \in Works |-> IF v = w THEN "running" ELSE PhaseAfter(v, passed)]
            /\ outbox' = [v \in Works |-> IF v = w THEN "claimed"
                                          ELSE IF v \in Closed(passed) THEN "done"
                                          ELSE outbox[v]]
            /\ \A v \in Pending : Before(v, w) => Fate(v) # "claimed"
  BY DEF Claim
<1> DEFINE passed == tied \cup {v \in Pending : Before(v, w)}
<1>2. passed \subseteq Pending /\ \A v \in passed : Fate(v) # "claimed"
  BY <1>1
<1> HIDE DEF passed
<1>3. /\ PassOver(passed)
      /\ phase' = [v \in Works |-> IF v = w THEN "running" ELSE PhaseAfter(v, passed)]
      /\ outbox' = [v \in Works |-> IF v = w THEN "claimed"
                                    ELSE IF v \in Closed(passed) THEN "done" ELSE outbox[v]]
  BY <1>1 DEF passed
<1>4. /\ w \in Pending /\ Fate(w) = "claimed" /\ AttemptTurn(w)
      /\ lease' = [lease EXCEPT ![w] = [generation |-> lease[w].generation + 1,
                                        holder |-> coordinator.id]]
      /\ ctx' = [c \in Contexts |-> IF Target[w] = c THEN [ctx[c] EXCEPT !.busy = w] ELSE ctx[c]]
      /\ deliveries' = [deliveries EXCEPT ![w] = deliveries[w] + 1]
      /\ UNCHANGED << approved, job, clock, coordinator, fiber, verdict, world >>
      /\ pass.pc = "claiming" /\ pass'.pc \in {"claim", "finalizers"}
  BY DEF Claim, PassAt
<1>5. /\ \A v \in Works \ {w} : canceller'[v] = canceller[v]
      /\ canceller'[w].pc = canceller[w].pc
      /\ canceller'[w].unclaimed = canceller[w].unclaimed
      /\ canceller[w].pc = "observed" => canceller'[w].overtaken
  BY <1>4, AttemptTurnFrame DEF TypeOK
<1>6. coordinator.up
  BY <1>4 DEF PassInv
<1>7. outbox[w] = "pending" /\ phase[w] \in Waiting \cup {"held_approval"}
      /\ Untouched(w) /\ lease[w] = NoLease /\ w \notin Closed(passed) /\ WorkInv(w)
  BY <1>4 DEF Pending, Closed, WorkInv, OutboxInv
<1>8. WorkInv(w)' /\ Lawful(w)
  <2>1. /\ phase'[w] = "running" /\ outbox'[w] = "claimed" /\ outcome'[w] = outcome[w]
        /\ lease'[w].generation = 1
        /\ (gate'[w] => gate[w])
    BY <1>3, <1>4, <1>7 DEF PassOver, TypeOK, NoLease
  <2>2. OutboxInv(w)' /\ FiberInv(w)' /\ JobInv(w)'
    BY <1>4, <1>7, <2>1 DEF WorkInv, OutboxInv, Untouched, FiberInv, JobInv, Kept, Waiting,
       BeforeStart, Preparing
  <2>3. CancelInv(w)'
    BY <1>5, <1>7, <2>1 DEF WorkInv, CancelInv
  <2>4. ExecutionInv(w)' /\ DownInv(w)'
    BY <1>4, <1>6, <1>7, <2>1 DEF WorkInv, Untouched, ExecutionInv, DownInv
  <2>5. AddsWithinLimits(w)
    <3>1. ASSUME NEW u \in Works \ {w}, phase'[u] \in Active PROVE phase[u] \in Active
      <4>1. phase'[u] = PhaseAfter(u, passed)
        BY <1>3
      <4>2. u \in passed => Fate(u) # "claimed"
        BY <1>2
      <4> QED
        BY <3>1, <4>1, <4>2, FateValues DEF PhaseAfter, Active
    <3>2. ~(TenantLoad(Tenant[w]) >= TenantConcurrency)
      BY <1>4 DEF Fate
    <3>3. Cardinality({u \in Works : phase[u] \in Active}) < GlobalConcurrency
      BY DEF Claim
    <3> QED
      BY <3>1, <3>2, <3>3 DEF AddsWithinLimits
  <2>6. \A u \in Pending : Fate(u) = "claimed" => ~Before(u, w)
    BY <1>1
  <2>7. Lawful(w)
    BY <1>4, <1>7, <2>1, <2>5, <2>6 DEF Lawful, Untouched, Waiting,
       Advances, SameReceipt, SameExecution
  <2> QED
    BY <2>2, <2>3, <2>4, <2>7 DEF WorkInv
<1>9. ASSUME NEW v \in Works, v # w PROVE WorkInv(v)' /\ Lawful(v)
  <2>1. /\ UNCHANGED << lease[v], job[v], instance[v], fiber[v], verdict[v], started[v],
                        canceller[v], deliveries[v], live, aborted, coordinator >>
        /\ phase'[v] = PhaseAfter(v, passed)
        /\ v \notin Closed(passed) => UNCHANGED << outbox[v], outcome[v], gate[v] >>
        /\ v \in Closed(passed) => outbox'[v] = "done" /\ ~gate'[v] /\ outcome'[v] = Fate(v)
    BY <1>3, <1>4, <1>5, <1>9, ZenonT(40) DEF PassOver, TypeOK
  <2>2. CASE v \in passed
    <3>1. outbox[v] = "pending" /\ Fate(v) # "claimed" /\ phase[v] # "settled"
      BY <1>2, <2>2 DEF Pending, WorkInv, OutboxInv, Waiting
    <3>2. phase'[v] \in {phase[v], "settled", "held_context", "held_capacity", "held_approval"}
          /\ (phase'[v] = "settled" <=> v \in Closed(passed))
      BY <2>1, <2>2, <3>1, FateValues DEF PhaseAfter, Closed
    <3>3. v \in Closed(passed) => Fate(v) \in {"denied", "queue_deadline"}
      BY DEF Closed
    <3> QED
      BY <2>1, <3>1, <3>2, <3>3, PassedOver
  <2>3. CASE v \notin passed
    <3>1. v \notin Closed(passed) /\ PhaseAfter(v, passed) = phase[v]
      BY <2>3 DEF Closed, PhaseAfter
    <3>2. SameRow(v) /\ UNCHANGED coordinator
      BY <2>1, <3>1 DEF SameRow
    <3> QED
      BY <3>2, WorkFrame
  <2> QED
    BY <2>2, <2>3
<1>10. PassInv'
  BY <1>4, <1>6 DEF PassInv
<1>11. BusyIsHeld'
  <2>1. ASSUME NEW v \in Works, v # w
        PROVE  phase'[v] \in {"running", "reconciling"} <=> phase[v] \in {"running", "reconciling"}
    <3>1. CASE v \in passed
      <4>1. phase[v] \notin {"running", "reconciling"} /\ Fate(v) # "claimed"
        BY <1>2, <3>1 DEF Pending, WorkInv, OutboxInv, Waiting
      <4> QED
        BY <1>3, <2>1, <4>1, FateValues DEF PhaseAfter
    <3>2. CASE v \notin passed
      BY <1>3, <2>1, <3>2 DEF PhaseAfter
    <3> QED
      BY <3>1, <3>2
  <2>2. phase'[w] = "running"
    BY <1>3
  <2>3. Target[w] # None => ctx[Target[w]].busy = None
    BY <1>4 DEF Fate, ContextTaken
  <2>4. ASSUME NEW c \in Contexts, NEW v \in Works
        PROVE  ctx'[c].busy = v <=> Target[v] = c /\ phase'[v] \in {"running", "reconciling"}
    <3>1. None \notin Works /\ c # None
      BY ConstantsAssumption
    <3>2. ctx[c].busy = v <=> Target[v] = c /\ phase[v] \in {"running", "reconciling"}
      BY DEF BusyIsHeld
    <3>3. ctx'[c].busy = IF Target[w] = c THEN w ELSE ctx[c].busy
      BY <1>4 DEF TypeOK, Context
    <3>4. phase[w] \notin {"running", "reconciling"}
      BY <1>7 DEF Waiting
    <3>5. CASE v = w
      <4>1. Target[w] # c => ctx[c].busy # w
        BY DEF BusyIsHeld
      <4> QED
        BY <2>2, <3>3, <3>5, <4>1
    <3>6. CASE v # w
      BY <2>1, <2>3, <3>1, <3>2, <3>3, <3>6
    <3> QED
      BY <3>5, <3>6
  <2> QED
    BY <2>4 DEF BusyIsHeld
<1> QED
  BY <1>8, <1>9, <1>10, <1>11

\* Failures of requests, crashes, and the fencing of what was running.
LEMMA RestartStep ==
  ASSUME IInv, RequestDies \/ Crash \/ Recover
  PROVE  (\A v \in Works : WorkInv(v)' /\ Lawful(v)) /\ PassInv' /\ BusyIsHeld'
<1> USE DEF IInv
<1>1. CASE RequestDies
  <2>1. ASSUME NEW v \in Works PROVE canceller'[v] \in {canceller[v], NoCancel}
    BY <1>1 DEF RequestDies, TypeOK
  <2>2. ASSUME NEW v \in Works PROVE WorkInv(v)' /\ Lawful(v)
    <3>1. CancelInv(v)' /\ DownInv(v)'
      BY <1>1, <2>1 DEF RequestDies, WorkInv, CancelInv, DownInv, NoCancel
    <3>2. OutboxInv(v)' /\ FiberInv(v)' /\ JobInv(v)' /\ ExecutionInv(v)'
      BY <1>1 DEF RequestDies, WorkInv, OutboxInv, Untouched, FiberInv, Overdue, JobInv, Kept,
         ExecutionInv
    <3>3. Lawful(v)
      BY <1>1 DEF RequestDies, Lawful, Kept, Advances, SameReceipt, SameExecution
    <3> QED
      BY <3>1, <3>2, <3>3 DEF WorkInv
  <2>3. PassInv'
    BY <1>1 DEF RequestDies, PassInv, NoPass, PassAt, Kept
  <2>4. BusyIsHeld'
    BY <1>1, BusyFrame DEF RequestDies
  <2> QED
    BY <2>2, <2>3, <2>4
<1>2. CASE Crash
  <2>1. ASSUME NEW v \in Works PROVE WorkInv(v)' /\ Lawful(v)
    <3>1. /\ fiber'[v] = "idle" /\ deliveries'[v] = 0 /\ canceller'[v].pc = "idle"
          /\ UNCHANGED << journal, clock, world >>
      BY <1>2 DEF Crash, NoCancel
    <3>2. OutboxInv(v)' /\ FiberInv(v)' /\ JobInv(v)'
      BY <3>1 DEF WorkInv, OutboxInv, Untouched, FiberInv, JobInv, Kept, BeforeStart, Preparing
    <3>3. CancelInv(v)' /\ ExecutionInv(v)' /\ DownInv(v)'
      BY <3>1 DEF WorkInv, CancelInv, ExecutionInv, DownInv
    <3>4. Lawful(v)
      BY <3>1 DEF Lawful, Kept, Advances, SameReceipt, SameExecution
    <3> QED
      BY <3>2, <3>3, <3>4 DEF WorkInv
  <2>2. PassInv'
    BY <1>2 DEF Crash, PassInv, NoPass, PassAt
  <2>3. BusyIsHeld'
    BY <1>2, BusyFrame DEF Crash
  <2> QED
    BY <2>1, <2>2, <2>3
<1>3. CASE Recover
  <2>1. ~coordinator.up
    BY <1>3 DEF Recover, Fence
  <2>2. ASSUME NEW v \in Works
        PROVE  /\ phase'[v] = IF phase[v] = "running" THEN "reconciling" ELSE phase[v]
               /\ outbox'[v] = IF phase[v] = "running" THEN "done" ELSE outbox[v]
               /\ gate'[v] => gate[v] /\ phase[v] # "running"
               /\ phase[v] # "running" => lease'[v] = lease[v]
               /\ UNCHANGED << outcome, job, deliveries, fiber, verdict, canceller, world, pass >>
    BY <1>3 DEF Recover, Fence, Lost, TypeOK
  <2>3. ASSUME NEW v \in Works PROVE WorkInv(v)' /\ Lawful(v)
    <3>1. fiber[v] = "idle" /\ deliveries[v] = 0 /\ canceller[v].pc = "idle" /\ WorkInv(v)
      BY <2>1 DEF WorkInv, DownInv
    <3>2. OutboxInv(v)'
      BY <2>2, <3>1 DEF WorkInv, OutboxInv, Untouched
    <3>3. FiberInv(v)' /\ JobInv(v)'
      BY <2>2, <3>1 DEF WorkInv, FiberInv, JobInv, Kept, BeforeStart, Preparing
    <3>4. CancelInv(v)' /\ ExecutionInv(v)' /\ DownInv(v)'
      BY <2>2, <3>1 DEF WorkInv, CancelInv, ExecutionInv, DownInv
    <3>5. Lawful(v)
      BY <2>2 DEF Lawful, Kept, Advances, SameReceipt, SameExecution, SameTelling
    <3> QED
      BY <3>2, <3>3, <3>4, <3>5 DEF WorkInv
  <2>4. PassInv'
    <3>1. pass.pc = "claim" /\ pass' = pass
      BY <1>3, <2>1 DEF PassInv, Recover, Fence
    <3> QED
      BY <3>1 DEF PassInv
  <2>5. BusyIsHeld'
    <3>1. ASSUME NEW c \in Contexts PROVE ctx'[c].busy = ctx[c].busy
      <4>1. ctx[c] \in Context
        BY DEF TypeOK
      <4>2. ctx'[c] = IF \E w \in Lost : Target[w] = c
                      THEN [ctx[c] EXCEPT !.phase = "blocked", !.epoch = ctx[c].epoch + 1]
                      ELSE ctx[c]
        BY <1>3 DEF Recover, Fence
      <4> QED
        BY <4>1, <4>2 DEF Context
    <3> QED
      BY <2>2, <3>1 DEF BusyIsHeld
  <2> QED
    BY <2>3, <2>4, <2>5
<1> QED
  BY <1>1, <1>2, <1>3

\* Every step keeps the inductive invariant and is lawful for every Work.
LEMMA InvariantStep ==
  IInv /\ [Next]_vars => IInv' /\ \A v \in Works : Lawful(v)
<1> SUFFICES ASSUME IInv, [Next]_vars
             PROVE  (\A v \in Works : WorkInv(v)' /\ Lawful(v)) /\ PassInv' /\ BusyIsHeld'
  BY TypeStep DEF IInv
<1>1. ASSUME NEW w \in Works, WorkAction(w)
      PROVE  (\A v \in Works : WorkInv(v)' /\ Lawful(v)) /\ PassInv' /\ BusyIsHeld'
  <2>1. /\ \A v \in Works \ {w} : SameRow(v)
        /\ WorkInv(w)' /\ Lawful(w) /\ UNCHANGED << pass, coordinator >>
    BY <1>1, WorkStep DEF IInv
  <2>2. \A v \in Works : WorkInv(v)' /\ Lawful(v)
    BY <2>1, WorkFrame DEF IInv
  <2>3. PassInv'
    BY <2>1, <2>2, PassFrame DEF IInv, TypeOK
  <2> QED
    BY <1>1, <2>2, <2>3, BusyStep
<1>2. CASE PassStep
  BY <1>2, BookkeepingStep, FinalizeStep, ReleaseStep, ClaimStep, ClaimNothingStep DEF PassStep
<1>3. CASE RequestDies \/ Crash \/ Recover
  BY <1>3, RestartStep
<1>4. CASE UNCHANGED vars
  <2>1. \A v \in Works : SameRow(v)
    BY <1>4 DEF SameRow
  <2> QED
    BY <1>4, <2>1, WorkFrame, PassFrame, BusyFrame DEF IInv, TypeOK
<1> QED
  BY <1>1, <1>2, <1>3, <1>4 DEF Next, WorkAction

\* The inductive invariant holds in the initial state.
LEMMA InvariantInit == Init => IInv
<1> SUFFICES ASSUME Init PROVE IInv
  OBVIOUS
<1>1. TypeOK
  BY TypeInit
<1>2. ASSUME NEW w \in Works PROVE WorkInv(w)
  BY DEF Init, WorkInv, OutboxInv, Untouched, FiberInv, JobInv, Kept, CancelInv,
     ExecutionInv, DownInv, NoCancel, BeforeStart, Preparing
<1>3. PassInv
  BY DEF Init, PassInv, NoPass, PassAt
<1>4. BusyIsHeld
  BY ConstantsAssumption DEF Init, BusyIsHeld
<1> QED
  BY <1>1, <1>2, <1>3, <1>4 DEF IInv

\* The inductive invariant always holds.
THEOREM Invariant == Spec => []IInv
  BY InvariantInit, InvariantStep, PTL DEF Spec

\* Every variable always holds a value of its type.
THEOREM TypeCorrect == Spec => []TypeOK
  BY TypeInit, TypeStep, PTL DEF Spec

\* No Work is executed twice, whatever the deliveries, cancels, journal failures
\* and restarts: beginDispatch and recover.
THEOREM ExecutedAtMostOnce == Spec => []AtMostOneExecution
<1>1. IInv => AtMostOneExecution
  BY DEF IInv, WorkInv, ExecutionInv, AtMostOneExecution
<1> QED
  BY <1>1, Invariant, PTL

\* A context is busy with exactly the Work that holds it: claim, setState and
\* recover.
THEOREM BusyMatchesHolder == Spec => []BusyIsHeld
<1>1. IInv => BusyIsHeld
  BY DEF IInv
<1> QED
  BY <1>1, Invariant, PTL

\* Two executions on one context are not both of Works without a final receipt: the
\* claim passes over a context that is held, and only a settlement lets it go
\* (platform.ts:650-760, 462-506, 1479-1522).
THEOREM ContextIsExclusive == Spec => []ExclusiveContext
<1>1. IInv => ExclusiveContext
  <2> SUFFICES ASSUME IInv, NEW v \in live, NEW w \in live, v # w, Target[v] # None,
                      Target[v] = Target[w],
                      phase[v] # "settled", phase[w] # "settled"
               PROVE  FALSE
    BY DEF IInv, ExclusiveContext
  <2>1. v \in Works /\ w \in Works
    BY DEF IInv, TypeOK
  <2>2. phase[v] \in {"running", "reconciling"} /\ phase[w] \in {"running", "reconciling"}
    BY <2>1 DEF IInv, WorkInv, ExecutionInv, OutboxInv
  <2>3. Target[v] \in Contexts
    BY <2>1, ConstantsAssumption
  <2>4. ctx[Target[v]].busy = v /\ ctx[Target[v]].busy = w
    BY <2>1, <2>2, <2>3 DEF IInv, BusyIsHeld
  <2> QED
    BY <2>4
<1> QED
  BY <1>1, Invariant, PTL

\* The outbox row, the gate and the lease agree with the phase at every moment a
\* restart may find them.
THEOREM OutboxAgrees == Spec => []OutboxMirrorsPhase
<1>1. IInv => OutboxMirrorsPhase
  BY DEF IInv, TypeOK, WorkInv, OutboxInv, OutboxMirrorsPhase, OutboxStates, Waiting
<1> QED
  BY <1>1, Invariant, PTL

\* The sandbox of a job exists and is recorded while its outputs are finalized,
\* and is gone only once its Work is settled: pass and releaseCandidates.
THEOREM OutputsAreKept == Spec => []OutputsOutliveExecution
<1>1. IInv => OutputsOutliveExecution
  BY DEF IInv, WorkInv, JobInv, Kept, OutputsOutliveExecution
<1> QED
  BY <1>1, Invariant, PTL

\* A Work reported cancelled was not executed, or was told to abort: the stale row
\* that cancel decides on never erases an outcome.
THEOREM CancelIsHonest == Spec => []CancelledHonestly
<1>1. IInv => CancelledHonestly
  BY DEF IInv, WorkInv, ExecutionInv, CancelledHonestly
<1> QED
  BY <1>1, Invariant, PTL

\* Receipts are final, and a Work that awaits reconciliation is not taken up
\* again, except by the finalization of a job that exited with success.
THEOREM ReceiptsStay == Spec => ReceiptsAreFinal
<1>1. IInv /\ [Next]_vars =>
        [\A w \in Works :
           /\ phase[w] = "settled" => phase'[w] = "settled" /\ outcome'[w] = outcome[w]
           /\ phase[w] = "reconciling" =>
                \/ phase'[w] = "reconciling"
                \/ job[w] = "held" /\ phase'[w] = "settled"
                                  /\ outcome'[w] \in {"completed", "output_failed"}]_vars
  BY InvariantStep DEF Lawful
<1> QED
  BY <1>1, Invariant, PTL DEF Spec, ReceiptsAreFinal

\* Tenants take turns: of the Works that could run, the claim takes one that none
\* comes before, and the tenant served last comes after every other
\* (scheduler.ts:79-91, platform.ts:641-700).
THEOREM TurnsAreFair == Spec => FairTurns
<1>1. ASSUME IInv, [Next]_vars, NEW v \in Works, NEW w \in Works, v # w,
             phase[w] # "running", phase'[w] = "running",
             v \in Pending, Fate(v) = "claimed"
      PROVE  /\ Tenant[w] = lastTenant => Tenant[v] = Tenant[w]
             /\ Tenant[v] = Tenant[w] => Created[w] <= Created[v]
  <2>1. ~Before(v, w)
    BY <1>1, InvariantStep DEF Lawful
  <2>2. /\ Tenant[v] \in Nat /\ Tenant[w] \in Nat /\ lastTenant \in Nat
        /\ Created[v] \in Nat /\ Created[w] \in Nat
    BY <1>1, ConstantsAssumption DEF IInv, TypeOK
  <2>3. Tenant[v] = Tenant[w] => ~(Created[v] < Created[w])
    BY <2>1 DEF Before
  <2>4. ASSUME Tenant[w] = lastTenant, Tenant[v] # lastTenant
        PROVE  FALSE
    <3>1. Turn(Tenant[w]) = << 1, lastTenant >>
      BY <2>2, <2>4 DEF Turn
    <3>2. CASE Tenant[v] > lastTenant
      <4>1. Turn(Tenant[v]) = << 0, Tenant[v] >>
        BY <3>2 DEF Turn
      <4> QED
        BY <2>1, <3>1, <4>1 DEF Before
    <3>3. CASE ~(Tenant[v] > lastTenant)
      <4>1. Turn(Tenant[v]) = << 1, Tenant[v] >> /\ Tenant[v] < lastTenant
        BY <2>2, <2>4, <3>3 DEF Turn
      <4> QED
        BY <2>1, <3>1, <4>1 DEF Before
    <3> QED
      BY <3>2, <3>3
  <2> QED
    BY <2>2, <2>3, <2>4
<1>2. IInv /\ [Next]_vars =>
        [\A v, w \in Works :
           /\ phase[w] # "running" /\ phase'[w] = "running"
           /\ v \in Pending /\ Fate(v) = "claimed" /\ v # w
           => /\ Tenant[w] = lastTenant => Tenant[v] = Tenant[w]
              /\ Tenant[v] = Tenant[w] => Created[w] <= Created[v]]_vars
  BY <1>1
<1> QED
  BY <1>2, Invariant, PTL DEF Spec, FairTurns

\* What is left of PassOwnsFinalization (platform.ts:1312): a Work comes out of
\* finalizing by its receipt, unless its own fiber, for which the deadline of
\* dispatch fired after finalizing was committed and before setState returned,
\* moves it on to reconciling.  That fiber has not ended yet, and so this happens
\* before the first restart after the commit, if at all.
OnlyAnOverdueFiberInterferes ==
  [][\A w \in Works : phase[w] = "finalizing" =>
       \/ phase'[w] \in {"finalizing", "settled"}
       \/ /\ phase'[w] = "reconciling"
          /\ coordinator.up /\ fiber[w] = "settling" /\ verdict[w] = "uncertain"
          /\ w \notin live]_vars

\* Nothing but a fiber that is overdue takes a Work from the pass.
THEOREM FinalizationIsOwned == Spec => OnlyAnOverdueFiberInterferes
<1>1. IInv /\ [Next]_vars =>
        [\A w \in Works : phase[w] = "finalizing" =>
           \/ phase'[w] \in {"finalizing", "settled"}
           \/ /\ phase'[w] = "reconciling"
              /\ coordinator.up /\ fiber[w] = "settling" /\ verdict[w] = "uncertain"
              /\ w \notin live]_vars
  BY InvariantStep DEF Lawful, Overdue, IInv, WorkInv, DownInv
<1> QED
  BY <1>1, Invariant, PTL DEF Spec, OnlyAnOverdueFiberInterferes

-----------------------------------------------------------------------------
(* The refinement of Lifecycle *)

\* The initial rows are those of Works of which nothing is known.
LEMMA LifecycleStarts == Init => Promise!LifecycleInit
<1> SUFFICES ASSUME Init PROVE Promise!LifecycleInit
  OBVIOUS
<1>1. \A w \in Works : phase[w] = "absent" /\ w \notin live /\ started[w] = 0 /\ w \notin aborted
  BY DEF Init
<1>2. \A w \in Works : Receipt(w) = "none" /\ Execution(w) = "never"
  BY <1>1 DEF Receipt, Execution
<1>3. /\ [w \in Works |-> Receipt(w)] = [w \in Works |-> "none"]
      /\ [w \in Works |-> Execution(w)] = [w \in Works |-> "never"]
  BY <1>2
<1>4. \A w \in Works : (w \in aborted) = FALSE
  BY <1>1
<1>5. [w \in Works |-> w \in aborted] = [w \in Works |-> FALSE]
  BY <1>4, Zenon
<1> QED
  BY <1>3, <1>5, Zenon DEF Promise!LifecycleInit

\* The mapped variables have the types that LifecycleNext asks of them.
LEMMA MappedTypes ==
  ASSUME TypeOK'
  PROVE  \A w \in Works : /\ Receipt(w)' \in Promise!Receipts
                         /\ Execution(w)' \in {"never", "going", "over"}
<1>1. \A w \in Works : outcome'[w] \in Outcomes
  BY DEF TypeOK
<1> QED
  BY <1>1 DEF Receipt, Execution, Promise!Receipts, Promise!Results, Outcomes

\* What the step makes of Work v is a step of Lifecycle for v, or none.
LEMMA WorkRefines ==
  ASSUME TypeOK, TypeOK', NEW v \in Works, WorkInv(v), Advances(v)
  PROVE  \/ Promise!WorkNext(v)
         \/ /\ Receipt(v)' = Receipt(v) /\ Execution(v)' = Execution(v)
            /\ v \in aborted' <=> v \in aborted
<1>1. ASSUME SameReceipt(v) PROVE Receipt(v)' = Receipt(v)
  BY <1>1 DEF SameReceipt, Receipt
<1>2. ASSUME SameExecution(v) PROVE Execution(v)' = Execution(v)
  BY <1>2 DEF SameExecution, Execution
<1>3. CASE SameReceipt(v) /\ SameExecution(v) /\ (v \in aborted => v \in aborted')
  <2>1. CASE v \in aborted' <=> v \in aborted
    BY <1>1, <1>2, <1>3, <2>1
  <2>2. CASE v \in aborted' /\ v \notin aborted
    <3>1. Promise!Tell(v)
      BY <1>1, <1>2, <1>3, <2>2 DEF Promise!Tell, Receipt, Execution
    <3> QED
      BY <3>1 DEF Promise!WorkNext
  <2> QED
    BY <1>3, <2>1, <2>2
<1>4. CASE /\ SameReceipt(v) /\ SameTelling(v)
           /\ phase[v] = "running" /\ started[v] = 0 /\ v \notin live
           /\ started'[v] = 1 /\ v \in live'
  <2>1. Promise!Begin(v)
    BY <1>1, <1>4 DEF Promise!Begin, Receipt, Execution, SameTelling
  <2> QED
    BY <2>1 DEF Promise!WorkNext
<1>5. CASE /\ SameReceipt(v) /\ SameTelling(v)
           /\ v \in live /\ v \notin live' /\ started'[v] = started[v]
  <2>1. started[v] = 1
    BY <1>5 DEF WorkInv, ExecutionInv
  <2>2. Promise!End(v)
    BY <1>1, <1>5, <2>1 DEF Promise!End, Receipt, Execution, SameTelling
  <2> QED
    BY <2>2 DEF Promise!WorkNext
<1>6. CASE /\ SameExecution(v) /\ SameTelling(v)
           /\ phase[v] \notin {"reconciling", "settled"} /\ phase'[v] = "reconciling"
  <2>1. Promise!Doubt(v)
    BY <1>2, <1>6 DEF Promise!Doubt, Receipt, Execution, SameTelling
  <2> QED
    BY <2>1 DEF Promise!WorkNext
<1>7. CASE /\ SameExecution(v) /\ SameTelling(v)
           /\ phase[v] # "settled" /\ phase'[v] = "settled" /\ Bears(v, outcome'[v])
           /\ phase[v] = "reconciling" =>
                Kind[v] = "sandbox" /\ outcome'[v] \in {"completed", "output_failed"}
  <2>1. Receipt(v)' = outcome'[v] /\ outcome'[v] \in Promise!Results
    BY <1>7 DEF Receipt, Bears, Promise!Results
  <2>2. Promise!Honest(v, outcome'[v])
    BY <1>7 DEF Bears, Execution, Promise!Honest
  <2>3. CASE phase[v] = "reconciling"
    <3>1. Promise!Resolve(v, outcome'[v])
      BY <1>2, <1>7, <2>1, <2>2, <2>3 DEF Promise!Resolve, Receipt, Execution, SameTelling
    <3> QED
      BY <2>1, <3>1 DEF Promise!WorkNext
  <2>4. CASE phase[v] # "reconciling"
    <3>1. Promise!Settle(v, outcome'[v])
      BY <1>2, <1>7, <2>1, <2>2, <2>4 DEF Promise!Settle, Receipt, Execution, SameTelling
    <3> QED
      BY <2>1, <3>1 DEF Promise!WorkNext
  <2> QED
    BY <2>3, <2>4
<1> QED
  BY <1>3, <1>4, <1>5, <1>6, <1>7 DEF Advances

\* Every step of the system is one step of Lifecycle.
LEMMA StepRefines ==
  ASSUME IInv, [Next]_vars PROVE Promise!LifecycleNext
<1>1. TypeOK /\ TypeOK' /\ \A v \in Works : WorkInv(v) /\ Advances(v)
  BY InvariantStep DEF IInv, Lawful
<1>2. \A v \in Works : /\ Receipt(v)' \in Promise!Receipts
                       /\ Execution(v)' \in {"never", "going", "over"}
  BY <1>1, MappedTypes
<1>3. \A v \in Works :
        \/ Promise!WorkNext(v)
        \/ /\ Receipt(v)' = Receipt(v) /\ Execution(v)' = Execution(v)
           /\ v \in aborted' <=> v \in aborted
  BY <1>1, WorkRefines
<1> QED
  BY <1>1, <1>2, <1>3 DEF Promise!LifecycleNext

\* The receipts of the platform, its executions and its aborts behave as Lifecycle
\* promises the client, through every interleaving and restart (setState, fail and
\* recover of platform.ts).
THEOREM LifecycleImplemented == Spec => ImplementsLifecycle
  BY LifecycleStarts, StepRefines, Invariant, PTL DEF Spec, ImplementsLifecycle,
     Promise!LifecycleSpec

=============================================================================
