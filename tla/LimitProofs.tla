----------------------------- MODULE LimitProofs -----------------------------
EXTENDS WorkManagerProofs, FiniteSetTheorems

(***************************************************************************)
(* The limits of WorkManager, for every value of the constants: the active *)
(* Works of a tenant and of all, the slots of each backend, and what is    *)
(* true of a running Work that is left without an attempt.                 *)
(*                                                                         *)
(* The claim is the only step that takes a slot.  What has to be shown is  *)
(* that nothing else does: that a slot which passes between a running      *)
(* Work, its idle context and its unreleased job is never counted less     *)
(* than once (Occupied), and that what is at a backend is counted.         *)
(***************************************************************************)
USE DEF transition, reservation, journal, clock, process, world, vars

-----------------------------------------------------------------------------
(* Concurrency *)

\* The active Works, and those of one tenant.
ActiveWorks == {w \in Works : phase[w] \in Active}
OfTenant(t) == {w \in ActiveWorks : Tenant[w] = t}

\* A step makes one Work active at most, and then within both limits (platform.ts:633, 705-707).
LEMMA ActiveGrows ==
  ASSUME IInv, [Next]_vars
  PROVE  \/ ActiveWorks' \subseteq ActiveWorks
         \/ \E w \in Works : AddsWithinLimits(w) /\ ActiveWorks' \subseteq ActiveWorks \cup {w}
<1>1. \A w \in Works : Lawful(w)
  BY InvariantStep
<1>2. CASE \E w \in ActiveWorks' : w \notin ActiveWorks
  <2>1. PICK w \in Works : phase'[w] \in Active /\ phase[w] \notin Active
    BY <1>2 DEF ActiveWorks
  <2>2. AddsWithinLimits(w)
    BY <1>1, <2>1 DEF Lawful, Active
  <2>3. ActiveWorks' \subseteq ActiveWorks \cup {w}
    BY <2>2 DEF AddsWithinLimits, ActiveWorks
  <2> QED
    BY <2>2, <2>3
<1> QED
  BY <1>2

\* A set that grows by one element at most.
LEMMA OneMore ==
  ASSUME NEW S, NEW T, NEW x, IsFiniteSet(S), T \subseteq S \cup {x}
  PROVE  /\ IsFiniteSet(T)
         /\ Cardinality(S) \in Nat /\ Cardinality(T) \in Nat
         /\ Cardinality(T) <= Cardinality(S) + 1
<1>1. IsFiniteSet(S \cup {x}) /\ Cardinality(S \cup {x}) <= Cardinality(S) + 1
      /\ Cardinality(S) \in Nat /\ Cardinality(S \cup {x}) \in Nat
  BY FS_AddElement, FS_CardinalityType
<1>2. IsFiniteSet(T) /\ Cardinality(T) <= Cardinality(S \cup {x})
  BY <1>1, FS_Subset
<1>3. Cardinality(T) \in Nat
  BY <1>2, FS_CardinalityType
<1> QED
  BY <1>1, <1>2, <1>3

\* The running, finalizing and reconciling Works stay within the limits of their
\* tenant and of all (claim, platform.ts:614-633, 705-707).  They are finitely many, also of infinitely
\* many Works, since the claims make them active one by one.
THEOREM ConcurrencyHolds == Spec => []WithinConcurrency
<1> DEFINE Within == /\ IsFiniteSet(ActiveWorks)
                     /\ Cardinality(ActiveWorks) <= GlobalConcurrency
                     /\ \A t \in Nat : Cardinality(OfTenant(t)) <= TenantConcurrency
<1>1. Init => Within
  <2> SUFFICES ASSUME Init PROVE Within
    OBVIOUS
  <2>1. ActiveWorks = {} /\ \A t \in Nat : OfTenant(t) = {}
    BY DEF Init, ActiveWorks, OfTenant, Active
  <2>2. IsFiniteSet(ActiveWorks) /\ Cardinality(ActiveWorks) = 0
        /\ \A t \in Nat : Cardinality(OfTenant(t)) = 0
    BY <2>1, FS_EmptySet, Zenon
  <2> QED
    BY <2>2, ConstantsAssumption
<1>2. IInv /\ Within /\ [Next]_vars => Within'
  <2> SUFFICES ASSUME IInv, Within, [Next]_vars PROVE Within'
    OBVIOUS
  <2>1. \A t \in Nat : OfTenant(t) \subseteq ActiveWorks /\ IsFiniteSet(OfTenant(t))
    BY FS_Subset DEF OfTenant
  <2>2. CASE ActiveWorks' \subseteq ActiveWorks
    <3>1. IsFiniteSet(ActiveWorks') /\ Cardinality(ActiveWorks') <= Cardinality(ActiveWorks)
      BY <2>2, FS_Subset
    <3>2. ASSUME NEW t \in Nat PROVE Cardinality(OfTenant(t)') <= TenantConcurrency
      <4>1. OfTenant(t)' \subseteq OfTenant(t)
        BY <2>2 DEF OfTenant
      <4>2. IsFiniteSet(OfTenant(t)') /\ Cardinality(OfTenant(t)') <= Cardinality(OfTenant(t))
        BY <2>1, <4>1, FS_Subset
      <4> QED
        BY <2>1, <4>2, FS_CardinalityType, ConstantsAssumption
    <3> QED
      BY <3>1, <3>2, FS_CardinalityType, ConstantsAssumption
  <2>3. ASSUME NEW w \in Works, AddsWithinLimits(w), ActiveWorks' \subseteq ActiveWorks \cup {w}
        PROVE  Within'
    <3>1. IsFiniteSet(ActiveWorks') /\ Cardinality(ActiveWorks') <= GlobalConcurrency
      <4>1. Cardinality(ActiveWorks) < GlobalConcurrency
        BY <2>3 DEF AddsWithinLimits, ActiveWorks
      <4>2. /\ IsFiniteSet(ActiveWorks') /\ Cardinality(ActiveWorks) \in Nat
            /\ Cardinality(ActiveWorks') \in Nat
            /\ Cardinality(ActiveWorks') <= Cardinality(ActiveWorks) + 1
        BY <2>3, OneMore, Zenon
      <4> QED
        BY <4>1, <4>2, ConstantsAssumption
    <3>2. ASSUME NEW t \in Nat, t = Tenant[w] PROVE Cardinality(OfTenant(t)') <= TenantConcurrency
      <4>1. TenantLoad(t) = Cardinality(OfTenant(t))
        <5>1. {v \in Works : Tenant[v] = t /\ phase[v] \in Active} = OfTenant(t)
          BY DEF OfTenant, ActiveWorks
        <5> QED
          BY <5>1 DEF TenantLoad
      <4>2. OfTenant(t)' \subseteq OfTenant(t) \cup {w}
        BY <2>3 DEF OfTenant
      <4>3. ~(Cardinality(OfTenant(t)) >= TenantConcurrency)
        BY <2>3, <3>2, <4>1 DEF AddsWithinLimits
      <4>4. IsFiniteSet(OfTenant(t))
        BY <2>1
      <4>5. /\ Cardinality(OfTenant(t)) \in Nat /\ Cardinality(OfTenant(t)') \in Nat
            /\ Cardinality(OfTenant(t)') <= Cardinality(OfTenant(t)) + 1
        BY <4>2, <4>4, OneMore, Zenon
      <4> QED
        BY <4>3, <4>5, ConstantsAssumption
    <3>3. ASSUME NEW t \in Nat, t # Tenant[w] PROVE Cardinality(OfTenant(t)') <= TenantConcurrency
      <4>1. OfTenant(t)' \subseteq OfTenant(t)
        BY <2>3, <3>3 DEF OfTenant
      <4>2. IsFiniteSet(OfTenant(t)') /\ Cardinality(OfTenant(t)') <= Cardinality(OfTenant(t))
        BY <2>1, <4>1, FS_Subset
      <4> QED
        BY <2>1, <4>2, FS_CardinalityType, ConstantsAssumption
    <3> QED
      BY <3>1, <3>2, <3>3
  <2> QED
    BY <2>2, <2>3, ActiveGrows
<1>3. Within => WithinConcurrency
  <2> SUFFICES ASSUME Within PROVE WithinConcurrency
    OBVIOUS
  <2>1. \A w \in Works : Tenant[w] \in Nat
    BY ConstantsAssumption
  <2> QED
    BY <2>1 DEF WithinConcurrency, ActiveWorks, OfTenant
<1> QED
  BY <1>1, <1>2, <1>3, Invariant, PTL DEF Spec

-----------------------------------------------------------------------------
(* Capacity *)

\* What Occupied counts of a backend: Works that have a slot there, idle contexts.
Holders(b) == {w \in Works : placement[w] = b /\ (phase[w] \in Active \/ job[w] = "held")}
IdleContexts(b) == {c \in Contexts : /\ ctx[c].backend = b /\ ctx[c].busy = None
                                     /\ ctx[c].phase = "ready"}

\* A Work that may use a backend was placed on it, and a connector call on none.
PlacedInv ==
  \A w \in Works :
    IF Kind[w] = "connector" THEN placement[w] = None
    ELSE phase[w] \in Active => placement[w] \in Backends

\* A ready context is at a backend, that of the Work which keeps it busy.
ReadyInv ==
  \A c \in Contexts : ctx[c].phase = "ready" =>
    /\ ctx[c].backend \in Backends
    /\ \A w \in Works : ctx[c].busy = w => ctx[c].backend = placement[w]

SlotsInv ==
  \A b \in Backends :
    /\ IsFiniteSet(Holders(b)) /\ IsFiniteSet(IdleContexts(b))
    /\ Cardinality(Holders(b)) + Cardinality(IdleContexts(b)) <= Capacity[b]

PlacesInv == PlacedInv /\ ReadyInv /\ SlotsInv

\* Occupied counts these two sets (claim, platform.ts:609-632).
LEMMA OccupiedCounts ==
  ASSUME NEW b
  PROVE  Occupied(b) = Cardinality(Holders(b)) + Cardinality(IdleContexts(b))
  BY DEF Occupied, Holders, IdleContexts

\* A step that takes no slot.
LEMMA FewerSlots ==
  ASSUME NEW b \in Backends, SlotsInv,
         Holders(b)' \subseteq Holders(b), IdleContexts(b)' \subseteq IdleContexts(b)
  PROVE  /\ IsFiniteSet(Holders(b)') /\ IsFiniteSet(IdleContexts(b)')
         /\ Cardinality(Holders(b)') + Cardinality(IdleContexts(b)') <= Capacity[b]
<1>1. /\ IsFiniteSet(Holders(b)) /\ IsFiniteSet(IdleContexts(b))
      /\ Cardinality(Holders(b)) + Cardinality(IdleContexts(b)) <= Capacity[b]
  BY DEF SlotsInv
<1>2. IsFiniteSet(Holders(b)') /\ Cardinality(Holders(b)') <= Cardinality(Holders(b))
  BY <1>1, FS_Subset
<1>3. /\ IsFiniteSet(IdleContexts(b)')
      /\ Cardinality(IdleContexts(b)') <= Cardinality(IdleContexts(b))
  BY <1>1, FS_Subset
<1>4. /\ Cardinality(Holders(b)) \in Nat /\ Cardinality(IdleContexts(b)) \in Nat
      /\ Cardinality(Holders(b)') \in Nat /\ Cardinality(IdleContexts(b)') \in Nat
  BY <1>1, <1>2, <1>3, FS_CardinalityType
<1>5. Capacity[b] \in Nat
  BY ConstantsAssumption
<1> QED
  BY <1>1, <1>2, <1>3, <1>4, <1>5

\* A Work that gives its slot to its context (ContextAfter, platform.ts:483-499).
LEMMA PassedOn ==
  ASSUME NEW b \in Backends, SlotsInv, NEW w \in Holders(b), NEW c,
         Holders(b)' \subseteq Holders(b) \ {w},
         IdleContexts(b)' \subseteq IdleContexts(b) \cup {c}
  PROVE  /\ IsFiniteSet(Holders(b)') /\ IsFiniteSet(IdleContexts(b)')
         /\ Cardinality(Holders(b)') + Cardinality(IdleContexts(b)') <= Capacity[b]
<1>1. /\ IsFiniteSet(Holders(b)) /\ IsFiniteSet(IdleContexts(b))
      /\ Cardinality(Holders(b)) + Cardinality(IdleContexts(b)) <= Capacity[b]
  BY DEF SlotsInv
<1>2. /\ IsFiniteSet(Holders(b) \ {w})
      /\ Cardinality(Holders(b) \ {w}) = Cardinality(Holders(b)) - 1
  BY <1>1, FS_RemoveElement
<1>3. /\ IsFiniteSet(Holders(b)')
      /\ Cardinality(Holders(b)') <= Cardinality(Holders(b) \ {w})
  BY <1>2, FS_Subset
<1>4. /\ IsFiniteSet(IdleContexts(b)') /\ Cardinality(IdleContexts(b)') \in Nat
      /\ Cardinality(IdleContexts(b)) \in Nat
      /\ Cardinality(IdleContexts(b)') <= Cardinality(IdleContexts(b)) + 1
  BY <1>1, OneMore, Zenon
<1>5. Cardinality(Holders(b)) \in Nat /\ Cardinality(Holders(b)') \in Nat
  BY <1>1, <1>3, FS_CardinalityType
<1>6. Capacity[b] \in Nat
  BY ConstantsAssumption
<1> QED
  BY <1>1, <1>2, <1>3, <1>4, <1>5, <1>6

\* Nothing about the slots changes.
LEMMA SameSlots ==
  ASSUME PlacesInv, UNCHANGED << phase, job, placement, ctx >>
  PROVE  PlacesInv'
<1>1. PlacedInv' /\ ReadyInv'
  BY DEF PlacesInv, PlacedInv, ReadyInv
<1>2. SlotsInv'
  BY DEF PlacesInv, SlotsInv, Holders, IdleContexts
<1> QED
  BY <1>1, <1>2 DEF PlacesInv

\* Works that are not active stay so, and jobs that are not recorded.
LEMMA FewerHolders ==
  ASSUME PlacesInv, UNCHANGED << placement, ctx >>,
         \A w \in Works : /\ phase'[w] \in Active \/ job'[w] = "held" =>
                               phase[w] \in Active \/ job[w] = "held"
                          /\ phase'[w] \in Active => phase[w] \in Active
  PROVE  PlacesInv'
<1>1. PlacedInv' /\ ReadyInv'
  BY DEF PlacesInv, PlacedInv, ReadyInv
<1>2. ASSUME NEW b \in Backends
      PROVE  Holders(b)' \subseteq Holders(b) /\ IdleContexts(b)' \subseteq IdleContexts(b)
  BY DEF Holders, IdleContexts
<1>3. SlotsInv'
  BY <1>2, FewerSlots DEF PlacesInv, SlotsInv
<1> QED
  BY <1>1, <1>3 DEF PlacesInv

\* setState: a Work that is settled passes its slot on to its context (platform.ts:462-506).
LEMMA SetStateKeepsSlots ==
  ASSUME IInv, PlacesInv, NEW w \in Works, NEW l, NEW to, NEW out, SetState(w, l, to, out),
         \/ to = "settled"
         \/ to \in {"reconciling", "finalizing"} /\ phase[w] \in Active \cup {"settled"},
         UNCHANGED << placement, job >>
  PROVE  PlacesInv'
<1> USE DEF IInv, TypeOK
<1>1. CASE UNCHANGED << transition >>
  BY <1>1, SameSlots
<1>2. CASE /\ phase[w] # "settled" /\ phase' = [phase EXCEPT ![w] = to]
           /\ to = "finalizing" /\ UNCHANGED ctx
  BY <1>2, FewerHolders DEF Active
<1>3. CASE /\ phase[w] # "settled" /\ phase' = [phase EXCEPT ![w] = to]
           /\ to \in {"settled", "reconciling"} /\ ctx' = ContextAfter(w, to)
  <2>1. \A v \in Works : phase'[v] \in Active => phase[v] \in Active
    BY <1>3 DEF Active
  <2>2. ASSUME NEW c \in Contexts
        PROVE  /\ ctx'[c].backend = ctx[c].backend
               /\ \/ ctx'[c] = ctx[c]
                  \/ Target[w] = c /\ ctx[c].busy = w /\ ctx'[c].phase = "blocked"
                  \/ /\ Target[w] = c /\ ctx[c].busy = w /\ to = "settled"
                     /\ ctx'[c].busy = None /\ ctx'[c].phase = ctx[c].phase
    BY <1>3 DEF ContextAfter, Context
  <2>3. PlacedInv'
    BY <2>1 DEF PlacesInv, PlacedInv
  <2>4. ReadyInv'
    <3>1. None \notin Works
      BY ConstantsAssumption
    <3> QED
      BY <2>2, <3>1 DEF PlacesInv, ReadyInv
  <2>5. ASSUME NEW b \in Backends
        PROVE  /\ IsFiniteSet(Holders(b)') /\ IsFiniteSet(IdleContexts(b)')
               /\ Cardinality(Holders(b)') + Cardinality(IdleContexts(b)') <= Capacity[b]
    <3>1. Holders(b)' \subseteq Holders(b)
      BY <2>1 DEF Holders
    <3>2. CASE IdleContexts(b)' \subseteq IdleContexts(b)
      BY <3>1, <3>2, FewerSlots DEF PlacesInv
    <3>3. ASSUME NEW c \in IdleContexts(b)', c \notin IdleContexts(b)
          PROVE  /\ w \in Holders(b) /\ Holders(b)' \subseteq Holders(b) \ {w}
                 /\ IdleContexts(b)' \subseteq IdleContexts(b) \cup {c}
      <4>1. /\ c \in Contexts /\ Target[w] = c /\ ctx[c].busy = w /\ to = "settled"
            /\ ctx[c].phase = "ready" /\ ctx[c].backend = b
        BY <2>2, <3>3 DEF IdleContexts
      <4>2. placement[w] = b /\ phase[w] \in Active
        BY <4>1 DEF PlacesInv, ReadyInv, BusyIsHeld, Active
      <4>3. job[w] # "held"
        BY <4>1, ConstantsAssumption DEF WorkInv, JobInv
      <4>4. w \in Holders(b) /\ w \notin Holders(b)'
        BY <1>3, <4>1, <4>2, <4>3 DEF Holders, Active
      <4>5. IdleContexts(b)' \subseteq IdleContexts(b) \cup {c}
        BY <2>2, <4>1 DEF IdleContexts
      <4> QED
        BY <3>1, <4>4, <4>5
    <3> QED
      BY <3>2, <3>3, PassedOn DEF PlacesInv
  <2> QED
    BY <2>3, <2>4, <2>5 DEF PlacesInv, SlotsInv
<1> QED
  BY <1>1, <1>2, <1>3 DEF SetState, Superseded

\* saveContext changes a context that is busy and stays so (platform.ts:805-815).
LEMMA SaveContextKeepsSlots ==
  ASSUME IInv, PlacesInv, NEW w \in Works, NEW c, NEW next, SaveContext(w, c, next),
         c \in Contexts /\ ctx[c].busy = w =>
           /\ next.busy = w
           /\ next.phase = "ready" => next.backend = placement[w] /\ placement[w] \in Backends
  PROVE  PlacesInv'
<1> USE DEF IInv, TypeOK
<1>1. CASE UNCHANGED journal \/ c \notin Contexts
  <2>1. UNCHANGED << phase, job, placement, ctx >>
    BY <1>1 DEF SaveContext
  <2> QED
    BY <2>1, SameSlots
<1>2. CASE c \in Contexts /\ ctx[c].busy = w /\ ctx' = [ctx EXCEPT ![c] = next]
           /\ UNCHANGED << phase, job, placement >>
  <2>1. None \notin Works
    BY ConstantsAssumption
  <2>2. PlacedInv' /\ ReadyInv'
    BY <1>2 DEF PlacesInv, PlacedInv, ReadyInv
  <2>3. ASSUME NEW b \in Backends
        PROVE  Holders(b)' \subseteq Holders(b) /\ IdleContexts(b)' \subseteq IdleContexts(b)
    BY <1>2, <2>1 DEF Holders, IdleContexts
  <2>4. SlotsInv'
    BY <2>3, FewerSlots DEF PlacesInv, SlotsInv
  <2> QED
    BY <2>2, <2>4 DEF PlacesInv
<1> QED
  BY <1>1, <1>2 DEF SaveContext

\* Actions that leave the rows of Works, placements and contexts alone.
Elsewhere(w) ==
  \/ CancelObserve(w) \/ CancelCloseGate(w) \/ Redeliver(w) \/ BeginDispatch(w)
  \/ RefuseDispatch(w) \/ RegisterController(w) \/ DispatchGate(w) \/ FailBeforeExecution(w)
  \/ CreateInstance(w) \/ OpenContext(w) \/ SleepUnallocated(w) \/ StartExecution(w)
  \/ LimitCalls(w) \/ Time(w) \/ DispatchDies(w) \/ ReleaseInstance(w) \/ FailRelease(w)

\* They keep the slots.
LEMMA ElsewhereKeepsSlots ==
  ASSUME PlacesInv,
         \/ \E w \in Works : Elsewhere(w)
         \/ Snapshot \/ ClaimSaturated \/ ListFinalizers \/ ListReleases \/ EndPass
         \/ RequestDies \/ Crash
  PROVE  PlacesInv'
<1>1. CASE Snapshot \/ ClaimSaturated \/ ListFinalizers \/ ListReleases \/ EndPass
           \/ RequestDies \/ Crash
  BY <1>1, SameSlots DEF Snapshot, ClaimSaturated, ListFinalizers, ListReleases, ListToRelease,
     EndPass, RequestDies, Crash
<1>2. ASSUME NEW w \in Works, Elsewhere(w) PROVE UNCHANGED << phase, job, placement, ctx >>
  <2>1. CASE CancelObserve(w) \/ CancelCloseGate(w) \/ Redeliver(w) \/ BeginDispatch(w)
             \/ RefuseDispatch(w) \/ RegisterController(w) \/ DispatchGate(w)
    BY <2>1 DEF CancelObserve, CancelCloseGate, AfterCloseGate, Redeliver, BeginDispatch,
       AcceptDelivery, RefuseDispatch, DropDelivery, RegisterController, DispatchGate
  <2>2. CASE FailBeforeExecution(w) \/ CreateInstance(w) \/ OpenContext(w)
             \/ SleepUnallocated(w) \/ StartExecution(w) \/ LimitCalls(w)
    BY <2>2 DEF FailBeforeExecution, CreateInstance, OpenContext, SleepUnallocated,
       StartExecution, LimitCalls
  <2>3. CASE Time(w) \/ DispatchDies(w) \/ ReleaseInstance(w) \/ FailRelease(w)
    BY <2>3 DEF Time, Expire, LapseApproval, ExpireOutput, OrphanEnds, DispatchDies,
       ReleaseInstance, FailRelease
  <2> QED
    BY <1>2, <2>1, <2>2, <2>3 DEF Elsewhere
<1> QED
  BY <1>1, <1>2, SameSlots

\* A context that its Work keeps busy: the Work is active and was placed (platform.ts:770-799).
LEMMA BusyIsPlaced ==
  ASSUME IInv, PlacesInv, NEW w \in Works, NEW c \in Contexts, ctx[c].busy = w
  PROVE  Target[w] = c /\ phase[w] \in Active /\ placement[w] \in Backends
<1>1. Target[w] = c /\ phase[w] \in {"running", "reconciling"}
  BY DEF IInv, BusyIsHeld
<1>2. Kind[w] # "connector"
  BY <1>1, ConstantsAssumption
<1> QED
  BY <1>1, <1>2 DEF PlacesInv, PlacedInv, Active

\* The other steps of one Work keep them.
LEMMA WorkKeepsSlots ==
  ASSUME IInv, PlacesInv, NEW w \in Works,
         \/ Admit(w) \/ Approve(w) \/ CancelFail(w) \/ Settle(w) \/ Finalize(w)
         \/ RecordAllocation(w) \/ RecordRelease(w)
         \/ EnsureAllocation(w) \/ Materialize(w) \/ EndExecution(w)
  PROVE  PlacesInv'
<1> USE DEF IInv, TypeOK
<1>1. CASE Admit(w) \/ Approve(w)
  <2>1. \A v \in Works : /\ phase'[v] \in Active => phase[v] \in Active
                         /\ job'[v] = job[v]
    BY <1>1 DEF Admit, Approve, Active
  <2>2. UNCHANGED << placement, ctx >>
    BY <1>1 DEF Admit, Approve
  <2> QED
    BY <2>1, <2>2, FewerHolders
<1>2. CASE CancelFail(w)
  BY <1>2, SetStateKeepsSlots DEF CancelFail
<1>3. CASE Finalize(w)
  <2>1. \/ \E out : SetState(w, lease[w], "settled", out)
        \/ UNCHANGED << transition >>
    BY <1>3 DEF Finalize
  <2>2. UNCHANGED << placement, job >>
    BY <1>3 DEF Finalize
  <2> QED
    BY <2>1, <2>2, SetStateKeepsSlots, SameSlots
<1>4. CASE Settle(w)
  <2>1. UNCHANGED << placement, job >> /\ SettleAs(w, verdict[w]) /\ fiber[w] \in {"settling", "refused"}
    BY <1>4 DEF Settle
  <2>2. phase[w] \in Active \cup {"settled"}
    BY <2>1 DEF WorkInv, FiberInv, Overdue, Active
  <2>3. \E to \in {"settled", "reconciling", "finalizing"} : \E out : SetState(w, lease[w], to, out)
    BY <2>1 DEF SettleAs
  <2> QED
    BY <2>1, <2>2, <2>3, SetStateKeepsSlots
<1>5. CASE RecordAllocation(w)
  <2>1. phase[w] \in Active
    BY <1>5 DEF RecordAllocation, WorkInv, FiberInv, Overdue, Active
  <2>2. /\ \A v \in Works \ {w} : job'[v] = job[v]
        /\ UNCHANGED << phase, placement, ctx >>
    BY <1>5 DEF RecordAllocation
  <2> QED
    BY <2>1, <2>2, FewerHolders
<1>6. CASE RecordRelease(w)
  <2>1. \A v \in Works : job'[v] = "held" => job[v] = "held"
    BY <1>6 DEF RecordRelease
  <2>2. UNCHANGED << phase, placement, ctx >>
    BY <1>6 DEF RecordRelease
  <2> QED
    BY <2>1, <2>2, FewerHolders
<1>7. CASE EnsureAllocation(w)
  <2>1. CASE UNCHANGED journal
    BY <2>1, SameSlots
  <2>2. CASE SaveContext(w, Target[w],
                         [ctx[Target[w]] EXCEPT !.phase = "ready", !.backend = placement[w],
                                                !.epoch = ctx[Target[w]].epoch + 1])
    <3>1. ASSUME Target[w] \in Contexts, ctx[Target[w]].busy = w
          PROVE  placement[w] \in Backends
      BY <3>1, BusyIsPlaced
    <3> QED
      BY <2>2, <3>1, SaveContextKeepsSlots, ZenonT(40) DEF Context
  <2> QED
    BY <1>7, <2>1, <2>2 DEF EnsureAllocation
<1>8. CASE Materialize(w)
  <2>1. CASE UNCHANGED journal
    BY <2>1, SameSlots
  <2>2. CASE SaveContext(w, Target[w], [ctx[Target[w]] EXCEPT !.phase = "blocked"])
    BY <2>2, SaveContextKeepsSlots DEF Context
  <2> QED
    BY <1>8, <2>1, <2>2 DEF Materialize
<1>9. CASE EndExecution(w)
  <2>1. CASE UNCHANGED journal
    BY <2>1, SameSlots
  <2>2. CASE SaveContext(w, Target[w], [ctx[Target[w]] EXCEPT !.phase = "parked"])
    BY <2>2, SaveContextKeepsSlots DEF Context
  <2> QED
    BY <1>9, <2>1, <2>2 DEF EndExecution
<1> QED
  BY <1>1, <1>2, <1>3, <1>4, <1>5, <1>6, <1>7, <1>8, <1>9

\* recover blocks contexts and keeps what is active so (platform.ts:1479-1522).
LEMMA RecoverKeepsSlots == ASSUME IInv, PlacesInv, Recover PROVE PlacesInv'
<1> USE DEF IInv, TypeOK
<1>1. /\ UNCHANGED << placement, job >>
      /\ \A w \in Works : phase'[w] \in Active => phase[w] \in Active
  BY DEF Recover, Fence, Lost, Active
<1>2. ASSUME NEW c \in Contexts
      PROVE  ctx'[c] = ctx[c] \/ ctx'[c].phase = "blocked"
  <2>1. ctx[c] \in Context
    OBVIOUS
  <2>2. \/ ctx'[c] = ctx[c]
        \/ ctx'[c] = [ctx[c] EXCEPT !.phase = "blocked", !.epoch = ctx[c].epoch + 1]
    BY Zenon DEF Recover, Fence
  <2> QED
    BY <2>1, <2>2 DEF Context
<1>3. PlacedInv' /\ ReadyInv'
  BY <1>1, <1>2 DEF PlacesInv, PlacedInv, ReadyInv
<1>4. ASSUME NEW b \in Backends
      PROVE  Holders(b)' \subseteq Holders(b) /\ IdleContexts(b)' \subseteq IdleContexts(b)
  BY <1>1, <1>2 DEF Holders, IdleContexts
<1>5. SlotsInv'
  BY <1>4, FewerSlots DEF PlacesInv, SlotsInv
<1> QED
  BY <1>3, <1>5 DEF PlacesInv

\* A claim that finds nothing makes no Work active.
LEMMA ClaimNothingKeepsSlots == ASSUME IInv, PlacesInv, ClaimNothing PROVE PlacesInv'
<1>1. ASSUME NEW v \in Works, phase'[v] \in Active PROVE phase[v] \in Active
  <2>1. phase'[v] = PhaseAfter(v, Pending) /\ (v \in Pending => Fate(v) # "claimed")
    BY DEF ClaimNothing
  <2> QED
    BY <1>1, <2>1, FateValues DEF PhaseAfter, Active
<1> QED
  BY <1>1, FewerHolders DEF ClaimNothing

\* A claim takes one slot, that of an idle context or one that is free (platform.ts:727-799).
LEMMA ClaimKeepsSlots ==
  ASSUME IInv, PlacesInv, NEW w \in Works, Claim(w)
  PROVE  PlacesInv'
<1> USE DEF IInv, TypeOK
<1>1. /\ Fate(w) = "claimed" /\ w \in Pending /\ UNCHANGED job
      /\ ctx' = [c \in Contexts |-> IF Target[w] = c THEN [ctx[c] EXCEPT !.busy = w] ELSE ctx[c]]
      /\ phase'[w] = "running"
  BY DEF Claim
<1>2. phase[w] \notin Active /\ job[w] = "none"
  BY <1>1 DEF Pending, WorkInv, OutboxInv, Untouched, Waiting, Active
<1>3. \A v \in Works \ {w} : phase'[v] \in Active => phase[v] \in Active
  <2>1. AddsWithinLimits(w)
    BY <1>1, <1>2, ClaimStep DEF Lawful, Active
  <2> QED
    BY <2>1 DEF AddsWithinLimits
<1>4. Target[w] # None => ctx[Target[w]].busy = None
  BY <1>1 DEF Fate, ContextTaken
<1>5. \/ Kind[w] = "connector" /\ UNCHANGED placement
      \/ /\ Kind[w] # "connector"
         /\ \E b \in Placements(w) : placement' = [placement EXCEPT ![w] = b]
  BY DEF Claim
<1>6. None \notin Works /\ None \notin Contexts /\ None \notin Backends
  BY ConstantsAssumption
<1>7. ASSUME NEW c \in Contexts
      PROVE  /\ ctx'[c].backend = ctx[c].backend /\ ctx'[c].phase = ctx[c].phase
             /\ ctx'[c].busy = IF Target[w] = c THEN w ELSE ctx[c].busy
  BY <1>1 DEF Context
<1>8. ASSUME NEW b \in Backends PROVE IdleContexts(b)' = IdleContexts(b) \ {Target[w]}
  BY <1>6, <1>7 DEF IdleContexts
<1>9. ASSUME NEW c \in Contexts, ctx[c].busy = w PROVE FALSE
  BY <1>2, <1>9 DEF BusyIsHeld, Active
<1>10. CASE Kind[w] = "connector"
  <2>1. Target[w] = None /\ UNCHANGED placement
    BY <1>5, <1>10, ConstantsAssumption
  <2>2. ctx' = ctx
    BY <1>1, <1>6, <2>1
  <2>3. placement[w] = None
    BY <1>10 DEF PlacesInv, PlacedInv
  <2>4. PlacedInv' /\ ReadyInv'
    BY <1>3, <1>10, <2>1, <2>2 DEF PlacesInv, PlacedInv, ReadyInv
  <2>5. ASSUME NEW b \in Backends
        PROVE  Holders(b)' \subseteq Holders(b) /\ IdleContexts(b)' \subseteq IdleContexts(b)
    BY <1>1, <1>3, <1>6, <2>1, <2>2, <2>3 DEF Holders, IdleContexts
  <2>6. SlotsInv'
    BY <2>5, FewerSlots DEF PlacesInv, SlotsInv
  <2> QED
    BY <2>4, <2>6 DEF PlacesInv
<1>11. CASE Kind[w] # "connector"
  <2>1. PICK b \in Placements(w) : placement' = [placement EXCEPT ![w] = b]
    BY <1>5, <1>11
  <2>2. /\ b \in Backends
        /\ Target[w] # None => ctx[Target[w]].backend \in {None, b}
        /\ Occupied(b) < Capacity[b] + Reserved(w, b)
    BY ConstantsAssumption DEF Placements
  <2>3. PlacedInv'
    BY <1>3, <1>11, <2>1, <2>2 DEF PlacesInv, PlacedInv
  <2>4. ReadyInv'
    <3> SUFFICES ASSUME NEW c \in Contexts, ctx'[c].phase = "ready"
                 PROVE  /\ ctx'[c].backend \in Backends
                        /\ \A v \in Works : ctx'[c].busy = v => ctx'[c].backend = placement'[v]
      BY DEF ReadyInv
    <3>1. ctx[c].phase = "ready" /\ ctx[c].backend \in Backends /\ ctx'[c].backend = ctx[c].backend
      BY <1>7 DEF PlacesInv, ReadyInv
    <3>2. CASE Target[w] = c
      BY <1>6, <1>7, <2>1, <2>2, <3>1, <3>2
    <3>3. CASE Target[w] # c
      <4>1. ASSUME NEW v \in Works, ctx'[c].busy = v PROVE ctx'[c].backend = placement'[v]
        <5>1. v # w /\ ctx[c].busy = v
          BY <1>7, <1>9, <3>3, <4>1
        <5> QED
          BY <2>1, <3>1, <5>1 DEF PlacesInv, ReadyInv
      <4> QED
        BY <3>1, <4>1
    <3> QED
      BY <3>2, <3>3
  <2>5. ASSUME NEW d \in Backends, d # b
        PROVE  Holders(d)' \subseteq Holders(d) /\ IdleContexts(d)' \subseteq IdleContexts(d)
    BY <1>1, <1>3, <1>8, <2>1, <2>5 DEF Holders
  <2>6. /\ IsFiniteSet(Holders(b)') /\ IsFiniteSet(IdleContexts(b)')
        /\ Cardinality(Holders(b)') + Cardinality(IdleContexts(b)') <= Capacity[b]
    <3>1. IsFiniteSet(Holders(b)) /\ IsFiniteSet(IdleContexts(b))
      BY <2>2 DEF PlacesInv, SlotsInv
    <3>2. Holders(b)' \subseteq Holders(b) \cup {w}
      BY <1>1, <1>3, <2>1 DEF Holders
    <3>3. /\ IsFiniteSet(Holders(b)') /\ Cardinality(Holders(b)') \in Nat
          /\ Cardinality(Holders(b)) \in Nat
          /\ Cardinality(Holders(b)') <= Cardinality(Holders(b)) + 1
      BY <3>1, <3>2, OneMore, Zenon
    <3>4. IdleContexts(b)' = IdleContexts(b) \ {Target[w]}
      BY <1>8, <2>2
    <3>5. /\ IsFiniteSet(IdleContexts(b) \ {Target[w]})
          /\ Cardinality(IdleContexts(b) \ {Target[w]}) =
             IF Target[w] \in IdleContexts(b) THEN Cardinality(IdleContexts(b)) - 1
             ELSE Cardinality(IdleContexts(b))
      BY <3>1, FS_RemoveElement
    <3>6. Cardinality(IdleContexts(b)) \in Nat /\ Capacity[b] \in Nat
      BY <2>2, <3>1, FS_CardinalityType, ConstantsAssumption
    <3>7. Cardinality(Holders(b)) + Cardinality(IdleContexts(b)) < Capacity[b] + Reserved(w, b)
      BY <2>2, OccupiedCounts
    <3>8. Reserved(w, b) = IF Target[w] \in IdleContexts(b) THEN 1 ELSE 0
      <4>1. Target[w] \in Contexts \cup {None}
        BY ConstantsAssumption
      <4> QED
        BY <1>4, <1>6, <4>1 DEF Reserved, IdleContexts
    <3> QED
      BY <3>3, <3>4, <3>5, <3>6, <3>7, <3>8
  <2>7. SlotsInv'
    BY <2>5, <2>6, FewerSlots DEF PlacesInv, SlotsInv
  <2> QED
    BY <2>3, <2>4, <2>7 DEF PlacesInv
<1> QED
  BY <1>10, <1>11

\* Every step keeps the slots.
LEMMA SlotsStep == ASSUME IInv, PlacesInv, [Next]_vars PROVE PlacesInv'
<1>1. CASE UNCHANGED vars
  BY <1>1, SameSlots
<1>2. ASSUME NEW w \in Works, WorkAction(w) PROVE PlacesInv'
  BY <1>2, ElsewhereKeepsSlots, WorkKeepsSlots DEF WorkAction, Cancel, Attempt, Elsewhere
<1>3. CASE PassStep
  BY <1>3, ElsewhereKeepsSlots, WorkKeepsSlots, ClaimKeepsSlots, ClaimNothingKeepsSlots
     DEF PassStep, Elsewhere
<1>4. CASE RequestDies \/ Crash \/ Recover
  BY <1>4, ElsewhereKeepsSlots, RecoverKeepsSlots
<1> QED
  BY <1>1, <1>2, <1>3, <1>4 DEF Next, WorkAction

\* Initially every slot is free.
LEMMA SlotsInit == Init => PlacesInv
<1> SUFFICES ASSUME Init PROVE PlacesInv
  OBVIOUS
<1>1. PlacedInv /\ ReadyInv
  BY DEF Init, PlacedInv, ReadyInv, Active
<1>2. ASSUME NEW b \in Backends PROVE Holders(b) = {} /\ IdleContexts(b) = {}
  BY ConstantsAssumption DEF Init, Holders, IdleContexts, Active
<1>3. SlotsInv
  <2>1. ASSUME NEW b \in Backends
        PROVE  /\ IsFiniteSet(Holders(b)) /\ Cardinality(Holders(b)) = 0
               /\ IsFiniteSet(IdleContexts(b)) /\ Cardinality(IdleContexts(b)) = 0
    BY <1>2, FS_EmptySet, Zenon
  <2> QED
    BY <2>1, ConstantsAssumption DEF SlotsInv
<1> QED
  BY <1>1, <1>3 DEF PlacesInv

\* What WithinCapacity adds up is counted by the claim: a recorded job and the program of
\* a Work without a final receipt have a holder, and so has a context that is not idle, the
\* Work that keeps it busy.
LEMMA CountedAtBackend ==
  ASSUME IInv, PlacesInv, NEW b \in Backends,
         NEW S, S = {w \in Works : /\ placement[w] = b
                                   /\ \/ job[w] = "held"
                                      \/ /\ Kind[w] = "code"
                                         /\ w \in live /\ phase[w] # "settled"},
         NEW R, R = {c \in Contexts : ctx[c].backend = b /\ ctx[c].phase = "ready"}
  PROVE  Cardinality(S) + Cardinality(R) <= Capacity[b]
<1> USE DEF IInv
<1> DEFINE T == {w \in Holders(b) : Target[w] # None}
           B == R \ IdleContexts(b)
           f == [c \in B |-> ctx[c].busy]
<1>1. /\ IsFiniteSet(Holders(b)) /\ IsFiniteSet(IdleContexts(b))
      /\ Cardinality(Holders(b)) + Cardinality(IdleContexts(b)) <= Capacity[b]
  BY DEF PlacesInv, SlotsInv
<1>2. S \subseteq Holders(b) /\ T \subseteq Holders(b) /\ S \cap T = {}
  <2>1. \A w \in S : phase[w] \in Active \/ job[w] = "held"
    BY DEF WorkInv, ExecutionInv, OutboxInv, Active
  <2>2. \A w \in S : Kind[w] \in {"code", "sandbox"}
    BY DEF WorkInv, JobInv
  <2> QED
    BY <2>1, <2>2, ConstantsAssumption DEF Holders
<1>3. ASSUME NEW c \in B PROVE f[c] \in T /\ Target[f[c]] = c
  <2>1. c \in Contexts /\ ctx[c].busy \in Works /\ ctx[c].phase = "ready" /\ ctx[c].backend = b
    BY DEF IdleContexts, TypeOK, Context
  <2>2. /\ Target[ctx[c].busy] = c /\ phase[ctx[c].busy] \in Active
        /\ placement[ctx[c].busy] = b
    BY <2>1, BusyIsPlaced DEF PlacesInv, ReadyInv
  <2>3. c # None
    BY <2>1, ConstantsAssumption
  <2> QED
    BY <2>1, <2>2, <2>3 DEF Holders
<1>4. f \in Injection(B, T)
  <2>1. f \in [B -> T]
    BY <1>3
  <2>2. DOMAIN f = B
    OBVIOUS
  <2> HIDE DEF f
  <2>3. ASSUME NEW c \in B, NEW d \in B, f[c] = f[d] PROVE c = d
    <3>1. Target[f[c]] = c /\ Target[f[d]] = d
      BY <1>3
    <3> QED
      BY <2>3, <3>1
  <2> QED
    BY <2>1, <2>2, <2>3 DEF Injection, IsInjective
<1>5. IsFiniteSet(T) /\ IsFiniteSet(S) /\ IsFiniteSet(S \cup T)
      /\ Cardinality(S \cup T) <= Cardinality(Holders(b))
  BY <1>1, <1>2, FS_Subset
<1>6. IsFiniteSet(B) /\ Cardinality(B) <= Cardinality(T)
  BY <1>4, <1>5, FS_Injection
<1>7. Cardinality(S \cup T) = Cardinality(S) + Cardinality(T) - Cardinality(S \cap T)
  BY <1>5, FS_Union
<1>8. Cardinality(S \cap T) = 0
  BY <1>2, FS_EmptySet
<1>9. R = B \cup IdleContexts(b) /\ B \cap IdleContexts(b) = {}
  BY DEF IdleContexts
<1>10. Cardinality(R) = Cardinality(B) + Cardinality(IdleContexts(b))
                         - Cardinality(B \cap IdleContexts(b))
  BY <1>1, <1>6, <1>9, FS_Union
<1>11. Cardinality(B \cap IdleContexts(b)) = 0
  BY <1>9, FS_EmptySet
<1>12. /\ Cardinality(S) \in Nat /\ Cardinality(T) \in Nat /\ Cardinality(B) \in Nat
       /\ Cardinality(IdleContexts(b)) \in Nat /\ Cardinality(Holders(b)) \in Nat
       /\ Capacity[b] \in Nat
  BY <1>1, <1>5, <1>6, FS_CardinalityType, ConstantsAssumption
<1> HIDE DEF T, B, f
<1> QED
  BY <1>1, <1>5, <1>6, <1>7, <1>8, <1>10, <1>11, <1>12

\* The jobs and contexts on record at a backend and the programs there of Works without a
\* final receipt never exceed its capacity, for all Works, contexts and backends, although a slot passes between the rows of three tables
\* (claim, platform.ts:609-632 and 727-799; setState, 483-499; pass, 1555-1588).
THEOREM CapacityHolds == Spec => []WithinCapacity
<1>1. IInv /\ PlacesInv => WithinCapacity
  BY CountedAtBackend DEF WithinCapacity
<1>2. IInv /\ PlacesInv /\ [Next]_vars => PlacesInv'
  BY SlotsStep
<1> QED
  BY <1>1, <1>2, SlotsInit, Invariant, PTL DEF Spec

-----------------------------------------------------------------------------
(* Attendance *)

\* A running Work waits for the delivery that its claim returned, and for no other
\* coordinator's, or it has a fiber.
AttendedInv(w) ==
  coordinator.up /\ phase[w] = "running" =>
    /\ outbox[w] = "claimed" /\ gate[w] =>
         deliveries[w] > 0 /\ lease[w].holder = coordinator.id
    /\ outbox[w] = "dispatched" => fiber[w] # "idle"

\* An action of one Work keeps that.
LEMMA WorkKeepsAttended ==
  ASSUME IInv, NEW w \in Works \ Faulty, AttendedInv(w), WorkAction(w)
  PROVE  AttendedInv(w)'
<1> USE DEF IInv, TypeOK, AttendedInv
<1>1. CASE Admit(w) \/ Approve(w)
  BY <1>1 DEF Admit, Approve
<1>2. CASE CancelObserve(w) \/ CancelCloseGate(w)
  BY <1>2 DEF CancelObserve, CancelCloseGate, AfterCloseGate
<1>3. CASE CancelFail(w)
  BY <1>3 DEF CancelFail, SetState, Superseded
<1>4. CASE Redeliver(w)
  BY <1>4 DEF Redeliver
<1>5. CASE BeginDispatch(w)
  BY <1>5 DEF BeginDispatch, AcceptDelivery
<1>6. CASE RefuseDispatch(w)
  BY <1>6 DEF RefuseDispatch, DropDelivery, DispatchAllowed
<1>7. CASE RegisterController(w) \/ DispatchGate(w)
  BY <1>7 DEF RegisterController, DispatchGate
<1>8. CASE FailBeforeExecution(w) \/ CreateInstance(w) \/ RecordAllocation(w) \/ OpenContext(w)
           \/ SleepUnallocated(w)
  BY <1>8 DEF FailBeforeExecution, CreateInstance, RecordAllocation, OpenContext,
     SleepUnallocated, Conclude
<1>9. CASE EnsureAllocation(w)
  BY <1>9 DEF EnsureAllocation, SaveContext
<1>10. CASE Materialize(w)
  BY <1>10 DEF Materialize, SaveContext, Conclude
<1>11. CASE StartExecution(w) \/ LimitCalls(w)
  BY <1>11 DEF StartExecution, Execute, LimitCalls
<1>12. CASE EndExecution(w)
  BY <1>12 DEF EndExecution, SaveContext, Conclude
<1>13. CASE Settle(w)
  BY <1>13 DEF Settle, SettleAs, SetState, Superseded, Conclude, WorkInv, FiberInv, OutboxInv
<1>14. CASE Time(w)
  BY <1>14 DEF Time, Expire, LapseApproval, ExpireOutput, OrphanEnds
<1>15. CASE DispatchDies(w)
  BY <1>15 DEF DispatchDies
<1> QED
  BY <1>1, <1>2, <1>3, <1>4, <1>5, <1>6, <1>7, <1>8, <1>9, <1>10, <1>11, <1>12, <1>13, <1>14,
     <1>15 DEF WorkAction, Cancel, Attempt

\* So does every other step: a claim brings its delivery, and recover leaves nothing running.
LEMMA AttendedStep ==
  ASSUME IInv, \A w \in Works \ Faulty : AttendedInv(w), [Next]_vars
  PROVE  \A w \in Works \ Faulty : AttendedInv(w)'
<1> USE DEF IInv, TypeOK, AttendedInv
<1>1. CASE UNCHANGED vars
  BY <1>1
<1>2. ASSUME NEW u \in Works, WorkAction(u), NEW w \in Works \ Faulty PROVE AttendedInv(w)'
  <2>1. u # w => SameRow(w) /\ UNCHANGED coordinator
    BY <1>2, WorkStep
  <2> QED
    BY <1>2, <2>1, WorkKeepsAttended DEF SameRow
<1>3. CASE Snapshot \/ ClaimSaturated \/ ListFinalizers \/ ListReleases \/ EndPass
           \/ RequestDies \/ Crash
  BY <1>3 DEF Snapshot, ClaimSaturated, ListFinalizers, ListReleases, ListToRelease, EndPass,
     RequestDies, Crash, Coordinator
<1>4. ASSUME NEW u \in Works, ReleaseInstance(u) \/ RecordRelease(u) \/ FailRelease(u),
             NEW w \in Works \ Faulty
      PROVE  AttendedInv(w)'
  BY <1>4 DEF ReleaseInstance, RecordRelease, FailRelease
<1>5. ASSUME NEW u \in Works, Finalize(u), NEW w \in Works \ Faulty PROVE AttendedInv(w)'
  BY <1>5 DEF Finalize, SetState, Superseded
<1>6. ASSUME ClaimNothing, NEW w \in Works \ Faulty PROVE AttendedInv(w)'
  <2>1. CASE w \in Pending
    <3>1. phase'[w] # "running"
      <4>1. phase'[w] = PhaseAfter(w, Pending) /\ Fate(w) # "claimed" /\ phase[w] # "running"
        BY <1>6, <2>1 DEF ClaimNothing, Pending, WorkInv, OutboxInv, Waiting
      <4> QED
        BY <4>1, FateValues DEF PhaseAfter
    <3> QED
      BY <3>1
  <2>2. CASE w \notin Pending
    <3>1. phase'[w] = phase[w] /\ outbox'[w] = outbox[w] /\ (gate'[w] => gate[w])
      BY <1>6, <2>2 DEF ClaimNothing, PassOver, PhaseAfter, Closed
    <3> QED
      BY <1>6, <3>1 DEF ClaimNothing
  <2> QED
    BY <2>1, <2>2
<1>7. ASSUME NEW u \in Works, Claim(u), NEW w \in Works \ Faulty PROVE AttendedInv(w)'
  <2>1. /\ u \in Pending /\ UNCHANGED << coordinator, fiber >>
        /\ outbox'[u] = "claimed" /\ lease' = [lease EXCEPT ![u] =
             [generation |-> lease[u].generation + 1, holder |-> coordinator.id]]
        /\ deliveries' = [deliveries EXCEPT ![u] = deliveries[u] + 1]
    BY <1>7 DEF Claim
  <2>2. CASE w = u
    BY <2>1, <2>2
  <2>3. CASE w # u
    <3>1. PICK passed \in SUBSET Pending :
            /\ \A v \in passed : Fate(v) # "claimed"
            /\ PassOver(passed) /\ phase'[w] = PhaseAfter(w, passed)
            /\ outbox'[w] = IF w \in Closed(passed) THEN "done" ELSE outbox[w]
      <4>1. PICK tied \in SUBSET {v \in Pending \ {u} :
                                  ~Before(v, u) /\ ~Before(u, v) /\ Fate(v) # "claimed"} :
              LET passed == tied \cup {v \in Pending : Before(v, u)}
              IN  /\ PassOver(passed)
                  /\ phase' = [v \in Works |-> IF v = u THEN "running" ELSE PhaseAfter(v, passed)]
                  /\ outbox' = [v \in Works |-> IF v = u THEN "claimed"
                                                ELSE IF v \in Closed(passed) THEN "done"
                                                ELSE outbox[v]]
                  /\ \A v \in Pending : Before(v, u) => Fate(v) # "claimed"
        BY <1>7 DEF Claim
      <4> WITNESS tied \cup {v \in Pending : Before(v, u)} \in SUBSET Pending
      <4> QED
        BY <2>3, <4>1
    <3>2. gate'[w] => gate[w]
      BY <3>1 DEF PassOver
    <3>3. CASE w \in passed
      <4>1. phase[w] # "running" /\ Fate(w) # "claimed"
        BY <3>1, <3>3 DEF Pending, WorkInv, OutboxInv, Waiting
      <4>2. phase'[w] # "running"
        BY <3>1, <4>1, FateValues DEF PhaseAfter
      <4> QED
        BY <4>2
    <3>4. CASE w \notin passed
      <4>1. phase'[w] = phase[w] /\ outbox'[w] = outbox[w]
        BY <3>1, <3>4 DEF PhaseAfter, Closed
      <4> QED
        BY <2>1, <2>3, <3>2, <4>1
    <3> QED
      BY <3>3, <3>4
  <2> QED
    BY <2>2, <2>3
<1>8. ASSUME Recover, NEW w \in Works \ Faulty PROVE AttendedInv(w)'
  BY <1>8 DEF Recover, Fence, Lost
<1> QED
  BY <1>1, <1>2, <1>3, <1>4, <1>5, <1>6, <1>7, <1>8 DEF Next, PassStep, WorkAction

\* Where no transaction of its dispatch fails, a running Work has a delivery that is not
\* refused or a fiber, through redeliveries, cancels and restarts, unless a cancel closed its
\* gate before it was claimed; and then it is as the claim left it: nothing was executed,
\* and a second cancel settles it (dispatch, platform.ts:1411-1478; cancel, 1719-1737).
THEOREM UnattendedWorksAreUntouched == Spec => []UnattendedIsUntouched
<1> DEFINE Attended == \A w \in Works \ Faulty : AttendedInv(w)
<1>1. Init => Attended
  BY DEF Init, AttendedInv
<1>2. IInv /\ Attended /\ [Next]_vars => Attended'
  BY AttendedStep
<1>3. IInv /\ Attended => UnattendedIsUntouched
  <2> SUFFICES ASSUME IInv, Attended, NEW w \in Works \ Faulty, coordinator.up,
                      phase[w] = "running", deliveries[w] = 0, fiber[w] = "idle"
               PROVE  ~gate[w] /\ outbox[w] = "claimed" /\ started[w] = 0
    BY DEF UnattendedIsUntouched
  <2>1. outbox[w] \in {"claimed", "dispatched"}
    BY DEF IInv, TypeOK, WorkInv, OutboxInv, OutboxStates, Waiting
  <2>2. outbox[w] = "claimed" /\ ~gate[w]
    BY <2>1 DEF AttendedInv
  <2> QED
    BY <2>2 DEF IInv, WorkInv, OutboxInv, Untouched
<1> QED
  BY <1>1, <1>2, <1>3, Invariant, PTL DEF Spec

=============================================================================
