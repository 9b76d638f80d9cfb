------------------------ MODULE ContextRuntimeProofs ------------------------
EXTENDS ContextRuntimeInvariant, FiniteSetTheorems, TLAPS

(***************************************************************************)
(* Proofs that the safety properties of ContextRuntime hold for every set  *)
(* of Works and any number of crashes, and that it implements Workspace.   *)
(* At most one fiber is under way (Alone), so that the parts of IInv about *)
(* fibers are about the one that moves; what a step does to the row, the   *)
(* workspace and the receipts is proved action by action.                  *)
(***************************************************************************)
USE DEF journal, attempt, workspace, process, vars

-----------------------------------------------------------------------------
(* Contexts and types *)

\* What each update of a context makes of its fields.
LEMMA Fields ==
  ASSUME NEW c \in Contexts
  PROVE  /\ Ready(c) \in Contexts /\ Ready(c).phase = "ready"
         /\ Ready(c).generation = Ready(c).epoch /\ Ready(c).epoch = c.epoch + 1
         /\ Ready(c).step = c.step /\ Ready(c).lastSeal = c.lastSeal
         /\ Ready(c).busy = c.busy
         /\ Blocked(c) \in Contexts /\ Blocked(c).phase = "blocked"
         /\ Blocked(c).step = c.step /\ Blocked(c).lastSeal = c.lastSeal
         /\ Blocked(c).busy = c.busy /\ Blocked(c).epoch = c.epoch
         /\ Counted(c) \in Contexts /\ Counted(c).step = c.step + 1
         /\ Counted(c).phase = c.phase /\ Counted(c).epoch = c.epoch
         /\ Counted(c).generation = c.generation
         /\ Counted(c).lastSeal = c.lastSeal /\ Counted(c).busy = c.busy
         /\ Parked(c) \in Contexts /\ Parked(c).phase = "parked"
         /\ Parked(c).step = c.step /\ Parked(c).lastSeal = c.lastSeal
         /\ Parked(c).busy = c.busy /\ Parked(c).epoch = c.epoch
<1>1. /\ c.epoch + 1 \in Nat /\ c.step + 1 \in Nat
      /\ {"ready", "blocked", "parked"} \subseteq {"unallocated", "ready", "parked", "blocked"}
  BY DEF Contexts
<1>2. /\ Ready(c) \in Contexts /\ Ready(c).phase = "ready"
      /\ Ready(c).generation = Ready(c).epoch /\ Ready(c).epoch = c.epoch + 1
      /\ Ready(c).step = c.step /\ Ready(c).lastSeal = c.lastSeal
      /\ Ready(c).busy = c.busy
  BY <1>1 DEF Ready, Contexts
<1>3. /\ Blocked(c) \in Contexts /\ Blocked(c).phase = "blocked"
      /\ Blocked(c).step = c.step /\ Blocked(c).lastSeal = c.lastSeal
      /\ Blocked(c).busy = c.busy /\ Blocked(c).epoch = c.epoch
  BY DEF Blocked, Contexts
<1>4. /\ Counted(c) \in Contexts /\ Counted(c).step = c.step + 1
      /\ Counted(c).phase = c.phase /\ Counted(c).epoch = c.epoch
      /\ Counted(c).generation = c.generation
      /\ Counted(c).lastSeal = c.lastSeal /\ Counted(c).busy = c.busy
  BY <1>1 DEF Counted, Contexts
<1>5. /\ Parked(c) \in Contexts /\ Parked(c).phase = "parked"
      /\ Parked(c).step = c.step /\ Parked(c).lastSeal = c.lastSeal
      /\ Parked(c).busy = c.busy /\ Parked(c).epoch = c.epoch
  BY DEF Parked, Contexts
<1> QED
  BY <1>2, <1>3, <1>4, <1>5

LEMMA SealFields ==
  ASSUME NEW c \in Contexts, NEW tree \in SUBSET Works
  PROVE  LET s == SealedAs(c, tree)
         IN  /\ s \in Contexts /\ s.lastSeal = [tree |-> tree, step |-> c.step]
             /\ s.lastSeal \in WorkspacePoints
             /\ s.phase = c.phase /\ s.step = c.step /\ s.busy = c.busy
             /\ s.epoch = c.epoch /\ s.generation = c.generation
<1>1. [tree |-> tree, step |-> c.step] \in WorkspacePoints
  BY DEF Contexts, WorkspacePoints
<1> QED
  BY <1>1 DEF SealedAs, Contexts, Points

LEMMA BusyFields ==
  ASSUME NEW c \in Contexts, NEW w \in Works \cup {None}
  PROVE  LET s == [c EXCEPT !.busy = w]
         IN  /\ s \in Contexts /\ s.busy = w
             /\ s.phase = c.phase /\ s.step = c.step /\ s.lastSeal = c.lastSeal
             /\ s.epoch = c.epoch /\ s.generation = c.generation
  BY DEF Contexts

\* What recover leaves of the row.
Fenced(c, n) == [Blocked(c) EXCEPT !.epoch = @ + n]
LEMMA FencedFields ==
  ASSUME NEW c \in Contexts, NEW n \in Nat
  PROVE  /\ Fenced(c, n) \in Contexts /\ Fenced(c, n).phase = "blocked"
         /\ Fenced(c, n).step = c.step /\ Fenced(c, n).lastSeal = c.lastSeal
         /\ Fenced(c, n).busy = c.busy
<1>1. Blocked(c) \in Contexts /\ Blocked(c).epoch = c.epoch /\ c.epoch + n \in Nat
  <2>1. c.epoch + n \in Nat
    BY DEF Contexts
  <2> QED
    BY <2>1, Fields
<1> QED
  BY <1>1, Fields DEF Fenced, Contexts

\* The states of fibers, so that the proofs need not look into the set.
LEMMA States ==
  \A x \in {"idle", "inspect", "ensure", "created", "seeding", "blocking",
            "mounted", "act", "executing", "counting", "capturing", "sealing",
            "parking", "parked", "settling", "sealFailed", "failing", "dead"} :
    x \in FiberStates
  BY DEF FiberStates

LEMMA ReceiptTypes ==
  /\ NoReceipt \in Receipts /\ Failed \in Receipts
  /\ [NoReceipt EXCEPT !.outcome = "completed"] \in Receipts
  /\ \A c \in Contexts : /\ Sealed(c) \in Receipts
                         /\ Unsealed("completed", c) \in Receipts
                         /\ Unsealed("seal_failed", c) \in Receipts
<1>1. NoReceipt \in Receipts
  BY DEF NoReceipt, Receipts, Points
<1>2. /\ Failed \in Receipts
      /\ [NoReceipt EXCEPT !.outcome = "completed"] \in Receipts
  BY <1>1 DEF Failed, Receipts
<1>3. ASSUME NEW c \in Contexts
      PROVE  /\ Sealed(c) \in Receipts
             /\ Unsealed("completed", c) \in Receipts
             /\ Unsealed("seal_failed", c) \in Receipts
  BY DEF Sealed, Unsealed, Receipts, Contexts
<1> QED
  BY <1>1, <1>2, <1>3

-----------------------------------------------------------------------------
(* Fibers *)

\* While one fiber is under way, no other is, and no other Work runs.
LEMMA Alone ==
  ASSUME HolderInv, NEW v \in Works, pc[v] # "idle"
  PROVE  /\ context.busy = v /\ work[v] = "running" /\ up
         /\ \A w \in Works \ {v} : pc[w] = "idle" /\ work[w] # "running"
  BY DEF HolderInv

\* A step of run moves one fiber that is under way, and leaves the Works alone.
LEMMA RunShape ==
  ASSUME TypeOK, NEW w \in Works, Run(w) \/ CompleteFails(w) \/ RecordFailureDies(w)
  PROVE  /\ pc[w] \notin {"idle", "dead"}
         /\ \E x \in FiberStates \ {"idle"} : pc' = [pc EXCEPT ![w] = x]
         /\ UNCHANGED << work, receipt, up, crashes >>
<1> USE States DEF Continues, Fails
<1>1. CASE Inspect(w) \/ AlreadyReady(w) \/ Wake(w) \/ Create(w) \/ Seed(w)
  BY <1>1 DEF Inspect, AlreadyReady, Wake, Create, Seed
<1>2. CASE StartCommand(w) \/ CommandExits(w) \/ CommandStopped(w) \/ CommandLost(w)
  BY <1>2 DEF StartCommand, CommandExits, CommandStopped, CommandLost
<1>3. CASE Report(w) \/ Capture(w) \/ Park(w) \/ TimesOut(w)
  BY <1>3 DEF Report, Capture, Capturing, Park, TimesOut
<1>4. CASE SaveContext(w)
  BY <1>4 DEF SaveContext, Saving, AfterSave
<1>5. CASE SaveContextFails(w)
  BY <1>5 DEF SaveContextFails, Saving
<1>6. ASSUME NEW e \in {"fault", "uncertain"},
             SeedFails(w, e) \/ CaptureFails(w, e) \/ RunFails(w, e)
      PROVE  /\ pc[w] \notin {"idle", "dead"}
             /\ \E x \in FiberStates \ {"idle"} : pc' = [pc EXCEPT ![w] = x]
             /\ UNCHANGED << work, receipt, up, crashes >>
  BY <1>6 DEF SeedFails, CaptureFails, Capturing, RunFails
<1>7. CASE CompleteFails(w) \/ RecordFailureDies(w)
  BY <1>7 DEF CompleteFails, RecordFailureDies
<1> QED
  BY <1>1, <1>2, <1>3, <1>4, <1>5, <1>6, <1>7 DEF Run

\* Only a save, and a settlement, writes the row; a fiber's copy is its own.
LEMMA RunKeepsContext ==
  ASSUME TypeOK, NEW w \in Works, Run(w) \/ CompleteFails(w) \/ RecordFailureDies(w)
  PROVE  SaveContext(w) \/ UNCHANGED context
  BY DEF Run, Inspect, AlreadyReady, Wake, Create, Seed, StartCommand, CommandExits,
    CommandStopped, CommandLost, Report, Capture, Park, TimesOut, SaveContextFails,
    SeedFails, CaptureFails, RunFails, CompleteFails, RecordFailureDies

-----------------------------------------------------------------------------
(* Types *)

LEMMA RunTypes ==
  ASSUME TypeOK, NEW w \in Works, Run(w) \/ CompleteFails(w) \/ RecordFailureDies(w)
  PROVE  TypeOK'
<1>1. pc' \in [Works -> FiberStates]
  BY RunShape DEF TypeOK
<1>2. work' \in [Works -> Phases] /\ receipt' \in [Works -> Receipts]
      /\ up' \in BOOLEAN /\ crashes' \in 0..MaxCrashes
  BY RunShape DEF TypeOK
<1>3. copy[w] \in Contexts /\ context \in Contexts /\ edits \in SUBSET Works
  BY DEF TypeOK
<1>4. context' \in Contexts
  BY <1>3, RunKeepsContext DEF SaveContext
<1>5. copy' \in [Works -> Contexts]
  <2>1. copy' = copy \/ \E c \in Contexts : copy' = [copy EXCEPT ![w] = c]
    <3>1. /\ Ready(copy[w]) \in Contexts /\ Blocked(copy[w]) \in Contexts
          /\ Counted(copy[w]) \in Contexts /\ Parked(copy[w]) \in Contexts
          /\ SealedAs(copy[w], edits) \in Contexts
      BY <1>3, Fields, SealFields
    <3> QED
      BY <1>3, <3>1 DEF Run, Inspect, AlreadyReady, Wake, Create, Seed, StartCommand,
        CommandExits, CommandStopped, CommandLost, Report, Capture, Park, TimesOut,
        SaveContext, SaveContextFails, SeedFails, CaptureFails, RunFails, CompleteFails,
        RecordFailureDies, Holds
  <2> QED
    BY <2>1 DEF TypeOK
<1>6. error' \in [Works -> {"none", "fault", "uncertain"}]
  BY DEF TypeOK, Run, Inspect, AlreadyReady, Wake, Create, Seed, StartCommand,
    CommandExits, CommandStopped, CommandLost, Report, Capture, Park, TimesOut,
    SaveContext, SaveContextFails, SeedFails, CaptureFails, RunFails, CompleteFails,
    RecordFailureDies, Fails
<1>7. seeded' \in {"no", "yes"} /\ edits' \subseteq Works /\ live' \subseteq Works
  BY DEF TypeOK, Run, Inspect, AlreadyReady, Wake, Create, Seed, StartCommand,
    CommandExits, CommandStopped, CommandLost, Report, Capture, Park, TimesOut,
    SaveContext, SaveContextFails, SeedFails, CaptureFails, RunFails, CompleteFails,
    RecordFailureDies, Shells
<1> QED
  BY <1>1, <1>2, <1>4, <1>5, <1>6, <1>7 DEF TypeOK

\* What a settlement makes of the row of the context.
LEMMA SettledRow ==
  ASSUME TypeOK, NEW w \in Works
  PROVE  /\ Released(w) \in Contexts /\ Doubted(w) \in Contexts
         /\ Released(w).phase = context.phase /\ Released(w).epoch = context.epoch
         /\ Released(w).generation = context.generation
         /\ Released(w).step = context.step /\ Released(w).lastSeal = context.lastSeal
         /\ Released(w).busy = (IF context.busy = w THEN None ELSE context.busy)
         /\ Doubted(w).step = context.step /\ Doubted(w).lastSeal = context.lastSeal
         /\ Doubted(w).busy = context.busy
         /\ context.busy = w => Doubted(w).phase = "blocked"
         /\ context.busy # w => Doubted(w) = context
<1>1. context \in Contexts
  BY DEF TypeOK
<1>2. CASE context.busy = w
  <2>1. Released(w) = [context EXCEPT !.busy = None] /\ Doubted(w) = Blocked(context)
    BY <1>2 DEF Released, Doubted
  <2>2. /\ [context EXCEPT !.busy = None] \in Contexts
        /\ [context EXCEPT !.busy = None].phase = context.phase
        /\ [context EXCEPT !.busy = None].epoch = context.epoch
        /\ [context EXCEPT !.busy = None].generation = context.generation
        /\ [context EXCEPT !.busy = None].step = context.step
        /\ [context EXCEPT !.busy = None].lastSeal = context.lastSeal
        /\ [context EXCEPT !.busy = None].busy = None
    BY <1>1, BusyFields
  <2>3. /\ Blocked(context) \in Contexts /\ Blocked(context).phase = "blocked"
        /\ Blocked(context).step = context.step
        /\ Blocked(context).lastSeal = context.lastSeal
        /\ Blocked(context).busy = context.busy
    BY <1>1, Fields
  <2> HIDE DEF Released, Doubted
  <2> QED
    BY <1>2, <2>1, <2>2, <2>3
<1>3. CASE context.busy # w
  BY <1>1, <1>3 DEF Released, Doubted
<1> QED
  BY <1>2, <1>3

LEMMA ReceiptOfTypes ==
  ASSUME TypeOK, NEW w \in Works
  PROVE  ReceiptOf(w) \in Receipts
  BY ReceiptTypes DEF TypeOK, ReceiptOf

\* What recover makes of it: one Work was running, at most.
LEMMA RecoveredRow ==
  ASSUME TypeOK, HolderInv, Recover
  PROVE  \/ context' = context /\ \A w \in Works : work[w] # "running"
         \/ \E n \in Nat : context' = Fenced(context, n)
<1> DEFINE lost == {w \in Works : work[w] = "running"}
<1>1. CASE lost = {}
  BY <1>1 DEF Recover
<1>2. CASE lost # {}
  <2>1. lost \subseteq {context.busy}
    BY DEF HolderInv
  <2>2. IsFiniteSet(lost)
    BY <2>1, FS_Singleton, FS_Subset
  <2>3. Cardinality(lost) \in Nat
    BY <2>2, FS_CardinalityType
  <2>4. context' = Fenced(context, Cardinality(lost))
    BY <1>2 DEF Recover, Fenced
  <2> QED
    BY <2>3, <2>4
<1> QED
  BY <1>1, <1>2

LEMMA TypeStep ==
  ASSUME TypeOK, HolderInv, [Next]_vars
  PROVE  TypeOK'
<1>1. CASE UNCHANGED vars
  BY <1>1 DEF TypeOK
<1>2. ASSUME NEW w \in Works, Run(w) \/ CompleteFails(w) \/ RecordFailureDies(w)
      PROVE  TypeOK'
  BY <1>2, RunTypes
<1>3. ASSUME NEW w \in Works, Claim(w)
      PROVE  TypeOK'
  <2>1. [context EXCEPT !.busy = w] \in Contexts
    BY BusyFields DEF TypeOK
  <2>2. "running" \in Phases
    BY DEF Phases
  <2> QED
    BY <1>3, <2>1, <2>2, States DEF TypeOK, Claim, Continues
<1>4. ASSUME NEW w \in Works, Refuse(w)
      PROVE  TypeOK'
  <2>1. "settled" \in Phases
    BY DEF Phases
  <2> QED
    BY <1>4, <2>1, ReceiptTypes DEF TypeOK, Refuse
<1>5. ASSUME NEW w \in Works, Complete(w) \/ RecordFailure(w)
      PROVE  TypeOK'
  <2>1. "settled" \in Phases /\ "reconciling" \in Phases
    BY DEF Phases
  <2> QED
    BY <1>5, <2>1, ReceiptTypes, ReceiptOfTypes, SettledRow, States
    DEF TypeOK, Complete, RecordFailure, SettleWith
<1>6. ASSUME NEW w \in Works, Write(w) \/ OrphanEnds(w)
      PROVE  TypeOK'
  BY <1>6 DEF TypeOK, Write, OrphanEnds
<1>7. CASE Crash
  <2>1. crashes + 1 \in 0..MaxCrashes
    BY <1>7, RuntimeAssumption DEF TypeOK, Crash
  <2>2. pc' \in [Works -> FiberStates]
    BY <1>7, States DEF Crash
  <2> QED
    BY <1>7, <2>1, <2>2 DEF TypeOK, Crash
<1>8. CASE Recover
  <2>1. context' \in Contexts
    BY <1>8, RecoveredRow, FencedFields DEF TypeOK
  <2>2. "reconciling" \in Phases
    BY DEF Phases
  <2> QED
    BY <1>8, <2>1, <2>2 DEF TypeOK, Recover
<1> QED
  BY <1>1, <1>2, <1>3, <1>4, <1>5, <1>6, <1>7, <1>8 DEF Next

-----------------------------------------------------------------------------
(* Who holds the context *)

\* The same Works run, and the row is held as before.
LEMMA HolderFrame ==
  ASSUME HolderInv, NEW w \in Works, pc[w] # "idle", NEW x, x # "idle",
         pc' = [pc EXCEPT ![w] = x], TypeOK, UNCHANGED << work, up >>,
         context'.busy = context.busy
  PROVE  HolderInv'
<1>1. \A v \in Works : (pc'[v] # "idle" <=> pc[v] # "idle")
  BY DEF TypeOK
<1>2. context.busy = w /\ work[w] = "running"
  BY Alone
<1> QED
  BY <1>1, <1>2 DEF HolderInv

LEMMA HolderStep ==
  ASSUME IInv, [Next]_vars
  PROVE  HolderInv'
<1> USE DEF IInv
<1>1. CASE UNCHANGED vars
  BY <1>1 DEF HolderInv
<1>2. ASSUME NEW w \in Works, Run(w) \/ CompleteFails(w) \/ RecordFailureDies(w)
      PROVE  HolderInv'
  <2>1. context'.busy = context.busy
    BY <1>2, RunKeepsContext DEF SaveContext, Stale
  <2>2. PICK x \in FiberStates \ {"idle"} : pc' = [pc EXCEPT ![w] = x]
    BY <1>2, RunShape
  <2>3. pc[w] # "idle" /\ UNCHANGED << work, up >>
    BY <1>2, RunShape
  <2> QED
    BY <2>1, <2>2, <2>3, HolderFrame
<1>3. ASSUME NEW w \in Works, Claim(w)
      PROVE  HolderInv'
  <2>1. context'.busy = w /\ context'.phase = context.phase /\ context.phase # "blocked"
    BY <1>3, BusyFields DEF Claim, Claimable, TypeOK
  <2>2. \A v \in Works : work[v] # "running" /\ pc[v] = "idle"
    BY <1>3, RuntimeAssumption DEF Claim, Claimable, HolderInv
  <2>3. /\ work' = [work EXCEPT ![w] = "running"]
        /\ pc' = [pc EXCEPT ![w] = "inspect"] /\ up /\ UNCHANGED up
    BY <1>3 DEF Claim, Continues
  <2> QED
    BY <2>1, <2>2, <2>3 DEF HolderInv, TypeOK
<1>4. ASSUME NEW w \in Works, Refuse(w)
      PROVE  HolderInv'
  BY <1>4 DEF Refuse, HolderInv, TypeOK
<1>5. ASSUME NEW w \in Works, Complete(w) \/ RecordFailure(w)
      PROVE  HolderInv'
  <2>1. pc[w] # "idle"
    BY <1>5 DEF Complete, RecordFailure
  <2>2. /\ context.busy = w /\ work[w] = "running" /\ up
        /\ \A v \in Works \ {w} : pc[v] = "idle" /\ work[v] # "running"
    BY <2>1, Alone
  <2>3. pc' = [pc EXCEPT ![w] = "idle"] /\ UNCHANGED up
    BY <1>5 DEF Complete, RecordFailure, SettleWith
  <2>4. \/ context' = Released(w) /\ work' = [work EXCEPT ![w] = "settled"]
        \/ context' = Doubted(w) /\ work' = [work EXCEPT ![w] = "reconciling"]
    BY <1>5 DEF Complete, RecordFailure, SettleWith
  <2>5. CASE context' = Released(w) /\ work' = [work EXCEPT ![w] = "settled"]
    <3>1. context'.busy = None
      BY <2>2, <2>5, SettledRow
    <3> QED
      BY <2>2, <2>3, <2>5, <3>1, RuntimeAssumption DEF HolderInv, TypeOK
  <2>6. CASE context' = Doubted(w) /\ work' = [work EXCEPT ![w] = "reconciling"]
    <3>1. context'.busy = w /\ context'.phase = "blocked"
      BY <2>2, <2>6, SettledRow
    <3> QED
      BY <2>2, <2>3, <2>6, <3>1 DEF HolderInv, TypeOK
  <2> QED
    BY <2>4, <2>5, <2>6
<1>6. ASSUME NEW w \in Works, Write(w) \/ OrphanEnds(w)
      PROVE  HolderInv'
  BY <1>6 DEF HolderInv, Write, OrphanEnds
<1>7. CASE Crash
  BY <1>7 DEF HolderInv, Crash
<1>8. CASE Recover
  <2>1. \A w \in Works : pc[w] = "idle" /\ work'[w] # "running"
                         /\ (work'[w] = "reconciling" <=> work[w] \in {"running", "reconciling"})
    BY <1>8 DEF HolderInv, Recover, TypeOK
  <2>2. CASE context' = context /\ \A w \in Works : work[w] # "running"
    BY <1>8, <2>1, <2>2 DEF HolderInv, Recover
  <2>3. CASE \E n \in Nat : context' = Fenced(context, n)
    <3>1. context'.busy = context.busy /\ context'.phase = "blocked"
      BY <2>3, FencedFields DEF TypeOK
    <3> QED
      BY <1>8, <2>1, <3>1 DEF HolderInv, Recover
  <2> QED
    BY <1>8, <2>2, <2>3, RecoveredRow
<1> QED
  BY <1>1, <1>2, <1>3, <1>4, <1>5, <1>6, <1>7, <1>8 DEF Next

-----------------------------------------------------------------------------
(* What the fiber under way holds *)

\* The other fibers are idle, and hold nothing that matters.
LEMMA CopyFrame ==
  ASSUME IInv, NEW w \in Works, pc[w] # "idle", NEW x, pc' = [pc EXCEPT ![w] = x],
         CopyOf(w)'
  PROVE  CopyInv'
<1>1. \A v \in Works \ {w} : pc'[v] = "idle"
  BY Alone DEF IInv, TypeOK
<1>2. \A v \in Works \ {w} : CopyOf(v)'
  BY <1>1 DEF CopyOf, Ended, InStep, Mounted
<1> QED
  BY <1>2 DEF CopyInv

\* The row under a fiber is not blocked, and a ready one is of its epoch.
LEMMA SaveStep ==
  ASSUME IInv, NEW w \in Works, SaveContext(w)
  PROVE  /\ CopyOf(w)' /\ FenceInv'
         /\ context'.epoch >= context.epoch
         /\ pc[w] = "sealing" =>
              context'.lastSeal = [tree |-> edits, step |-> context.step]
         /\ pc[w] # "sealing" => context'.lastSeal = context.lastSeal
         /\ pc[w] = "counting" => context'.step = context.step + 1
         /\ pc[w] # "counting" => context'.step = context.step
<1> USE DEF IInv
<1>1. context \in Contexts /\ copy[w] \in Contexts /\ edits \in SUBSET Works
  BY DEF TypeOK
<1>2. context.epoch \in Nat /\ context.step \in Nat
  BY <1>1 DEF Contexts
<1>3. CopyOf(w) /\ FenceInv
  BY DEF CopyInv
<1>4. /\ context' = copy[w] /\ copy' = copy /\ edits' = edits
      /\ pc'[w] = AfterSave(w)
  BY DEF SaveContext, TypeOK
<1>5. CASE pc[w] = "created"
  <2>1. pc'[w] = "seeding" /\ copy[w] = Ready(context)
    BY <1>3, <1>4, <1>5 DEF AfterSave, CopyOf
  <2>2. /\ context'.phase = "ready" /\ context'.generation = context'.epoch
        /\ context'.epoch = context.epoch + 1
        /\ context'.lastSeal = context.lastSeal /\ context'.step = context.step
    BY <1>1, <1>4, <2>1, Fields
  <2> QED
    BY <1>2, <1>4, <1>5, <2>1, <2>2 DEF CopyOf, FenceInv, Ended, InStep, Mounted
<1>6. CASE pc[w] = "blocking"
  <2>1. pc'[w] = "failing" /\ copy[w] = Blocked(context)
    BY <1>3, <1>4, <1>6 DEF AfterSave, CopyOf
  <2>2. /\ context'.phase = "blocked" /\ context'.epoch = context.epoch
        /\ context'.lastSeal = context.lastSeal /\ context'.step = context.step
    BY <1>1, <1>4, <2>1, Fields
  <2> QED
    BY <1>2, <1>6, <2>1, <2>2 DEF CopyOf, FenceInv, Ended, InStep, Mounted
<1>7. CASE pc[w] = "mounted"
  <2>1. /\ pc'[w] = "act"
        /\ \/ copy[w] = context /\ context.phase = "ready"
           \/ copy[w] = Ready(context)
    BY <1>3, <1>4, <1>7 DEF AfterSave, CopyOf
  <2>2. /\ context'.phase = "ready" /\ context'.generation = context'.epoch
        /\ context'.epoch \in {context.epoch, context.epoch + 1}
        /\ context'.lastSeal = context.lastSeal /\ context'.step = context.step
    BY <1>1, <1>3, <1>4, <2>1, Fields DEF FenceInv
  <2> QED
    BY <1>2, <1>4, <1>7, <2>1, <2>2 DEF CopyOf, FenceInv, Ended, InStep, Mounted
<1>8. CASE pc[w] = "counting"
  <2>1. /\ pc'[w] = IF Kind[w] = "sealedShell" THEN "capturing" ELSE "settling"
        /\ copy[w] = Counted(context) /\ context.phase = "ready" /\ w \in Shells
    BY <1>3, <1>4, <1>8 DEF AfterSave, CopyOf, Mounted
  <2>2. /\ context'.phase = "ready" /\ context'.generation = context'.epoch
        /\ context'.epoch = context.epoch
        /\ context'.lastSeal = context.lastSeal /\ context'.step = context.step + 1
    BY <1>1, <1>3, <1>4, <2>1, Fields DEF FenceInv
  <2>3. Kind[w] \in {"shell", "sealedShell"}
    BY <2>1 DEF Shells
  <2> QED
    BY <1>2, <1>4, <1>8, <2>1, <2>2, <2>3 DEF CopyOf, FenceInv, Ended, InStep, Mounted
<1>9. CASE pc[w] = "sealing"
  <2>1. /\ pc'[w] = IF Kind[w] = "sleep" THEN "parking" ELSE "settling"
        /\ copy[w] = SealedAs(context, edits) /\ context.phase = "ready"
    BY <1>3, <1>4, <1>9 DEF AfterSave, CopyOf, Mounted
  <2>2. /\ context'.phase = "ready" /\ context'.generation = context'.epoch
        /\ context'.epoch = context.epoch /\ context'.step = context.step
        /\ context'.lastSeal = [tree |-> edits, step |-> context.step]
        /\ context'.lastSeal \in WorkspacePoints
    BY <1>1, <1>3, <1>4, <2>1, SealFields DEF FenceInv
  <2>3. context'.lastSeal # NoPoint
    BY <2>2, RuntimeAssumption
  <2> QED
    BY <1>2, <1>4, <1>9, <2>1, <2>2, <2>3 DEF CopyOf, FenceInv, Ended, InStep, Mounted
<1>10. CASE pc[w] = "parked"
  <2>1. /\ pc'[w] = "settling" /\ copy[w] = Parked(context)
        /\ context.lastSeal = [tree |-> edits, step |-> context.step]
    BY <1>3, <1>4, <1>10 DEF AfterSave, CopyOf
  <2>2. /\ context'.phase = "parked" /\ context'.epoch = context.epoch
        /\ context'.step = context.step /\ context'.lastSeal = context.lastSeal
    BY <1>1, <1>4, <2>1, Fields
  <2>3. context'.lastSeal # NoPoint
    <3>1. context.lastSeal \in WorkspacePoints
      BY <1>1, <1>2, <2>1 DEF WorkspacePoints
    <3> QED
      BY <2>2, <3>1, RuntimeAssumption
  <2> QED
    BY <1>2, <1>4, <1>10, <2>1, <2>2, <2>3 DEF CopyOf, FenceInv, Ended, InStep, Mounted
<1> QED
  BY <1>5, <1>6, <1>7, <1>8, <1>9, <1>10 DEF SaveContext, Saving

\* Every other step of a fiber leaves the row as it is.
LEMMA CopyMove ==
  ASSUME IInv, NEW w \in Works, ~SaveContext(w),
         Run(w) \/ CompleteFails(w) \/ RecordFailureDies(w)
  PROVE  CopyOf(w)'
<1> USE DEF IInv
<1>1. context \in Contexts /\ copy[w] \in Contexts /\ edits \in SUBSET Works
  BY DEF TypeOK
<1>2. CopyOf(w) /\ context' = context
  BY RunKeepsContext DEF CopyInv
<1>3. ASSUME Inspect(w)
      PROVE  CopyOf(w)'
  <2>1. /\ copy'[w] = context
        /\ pc'[w] \in {"settling", "ensure"} /\ context.phase # "blocked"
        /\ pc'[w] = "settling" => Kind[w] = "sleep" /\ context.phase = "unallocated"
    BY <1>2, <1>3 DEF Inspect, Holds, Continues, TypeOK, CopyOf, Ended
  <2> QED
    BY <1>2, <2>1 DEF CopyOf, Ended, InStep, Mounted
<1>4. ASSUME AlreadyReady(w)
      PROVE  CopyOf(w)'
  <2>1. /\ pc'[w] = "act" /\ copy' = copy /\ copy[w] = context
        /\ context.phase = "ready"
    BY <1>2, <1>4 DEF AlreadyReady, Continues, TypeOK, CopyOf, InStep
  <2> QED
    BY <1>2, <2>1 DEF CopyOf, Ended, InStep, Mounted
<1>5. ASSUME Wake(w) \/ Create(w)
      PROVE  CopyOf(w)'
  <2>1. /\ copy[w] = context /\ copy'[w] = Ready(context)
        /\ \/ pc'[w] = "mounted" /\ context.phase = "parked"
           \/ pc'[w] = "created" /\ context.phase = "unallocated"
    BY <1>2, <1>5 DEF Wake, Create, Continues, Holds, TypeOK, CopyOf, InStep
  <2> QED
    BY <1>2, <2>1 DEF CopyOf, Ended, InStep, Mounted
<1>6. ASSUME Seed(w)
      PROVE  CopyOf(w)'
  <2>1. /\ pc'[w] = "mounted" /\ copy' = copy /\ copy[w] = context
        /\ context.phase = "ready"
    BY <1>2, <1>6 DEF Seed, Continues, TypeOK, CopyOf, InStep, Mounted
  <2> QED
    BY <1>2, <2>1 DEF CopyOf, Ended, InStep, Mounted
<1>7. ASSUME NEW e \in {"fault", "uncertain"}, SeedFails(w, e)
      PROVE  CopyOf(w)'
  <2>1. /\ pc'[w] = "blocking" /\ copy'[w] = Blocked(context)
        /\ context.phase = "ready"
    BY <1>2, <1>7 DEF SeedFails, Continues, Holds, TypeOK, CopyOf, InStep, Mounted
  <2> QED
    BY <1>2, <2>1 DEF CopyOf, Ended, InStep, Mounted
<1>8. ASSUME StartCommand(w)
      PROVE  CopyOf(w)'
  <2>1. /\ pc'[w] = "executing" /\ copy' = copy /\ copy[w] = context
        /\ context.phase = "ready" /\ w \in Shells
    BY <1>2, <1>8 DEF StartCommand, Continues, TypeOK, CopyOf, InStep, Mounted
  <2> QED
    BY <1>2, <2>1 DEF CopyOf, Ended, InStep, Mounted
<1>9. ASSUME CommandExits(w)
      PROVE  CopyOf(w)'
  <2>1. /\ pc'[w] = "counting" /\ copy'[w] = Counted(context)
        /\ context.phase = "ready" /\ w \in Shells
    BY <1>2, <1>9 DEF CommandExits, Continues, Holds, TypeOK, CopyOf, InStep, Mounted
  <2> QED
    BY <1>2, <2>1 DEF CopyOf, Ended, InStep, Mounted
<1>10. ASSUME Report(w)
       PROVE  CopyOf(w)'
  <2>1. /\ pc'[w] = "settling" /\ copy' = copy /\ copy[w] = context
        /\ context.phase = "ready" /\ Kind[w] \in {"read", "wake"}
    BY <1>2, <1>10 DEF Report, Continues, TypeOK, CopyOf, InStep, Mounted
  <2> QED
    BY <1>2, <2>1 DEF CopyOf, Ended, InStep, Mounted
<1>11. ASSUME Capture(w)
       PROVE  CopyOf(w)'
  <2>1. /\ pc'[w] = "sealing" /\ copy'[w] = SealedAs(context, edits)
        /\ context.phase = "ready" /\ edits' = edits
        /\ Kind[w] \in {"sealedShell", "seal", "sleep"}
    BY <1>2, <1>11 DEF Capture, Capturing, Holds, TypeOK, CopyOf, InStep, Mounted
  <2> QED
    BY <1>2, <2>1 DEF CopyOf, Ended, InStep, Mounted
<1>12. ASSUME Park(w)
       PROVE  CopyOf(w)'
  <2>1. /\ pc'[w] = "parked" /\ copy'[w] = Parked(context) /\ edits' = edits
        /\ context.phase = "ready" /\ Kind[w] = "sleep"
        /\ context.lastSeal = [tree |-> edits, step |-> context.step]
    BY <1>2, <1>12 DEF Park, Continues, Holds, TypeOK, CopyOf, InStep, Mounted
  <2> QED
    BY <1>2, <2>1 DEF CopyOf, Ended, InStep, Mounted
<1>13. ASSUME pc'[w] \in {"failing", "dead"}
       PROVE  CopyOf(w)'
  BY <1>13 DEF CopyOf, Ended, InStep, Mounted
<1>14. ASSUME pc'[w] = "sealFailed", pc[w] \in {"capturing", "sealing"},
              Kind[w] = "sealedShell", copy' = copy, edits' = edits
       PROVE  CopyOf(w)'
  <2>1. context.phase = "ready"
    BY <1>2, <1>14 DEF CopyOf, Mounted
  <2>2. /\ copy[w].step = context.step
        /\ copy[w].lastSeal \in {context.lastSeal, [tree |-> edits, step |-> context.step]}
    <3>1. CASE pc[w] = "capturing"
      BY <1>2, <3>1 DEF CopyOf, InStep
    <3>2. CASE pc[w] = "sealing"
      <4>1. copy[w] = SealedAs(context, edits)
        BY <1>2, <3>2 DEF CopyOf
      <4>2. /\ SealedAs(context, edits).step = context.step
            /\ SealedAs(context, edits).lastSeal
                 = [tree |-> edits, step |-> context.step]
        BY <1>1, SealFields
      <4> QED
        BY <4>1, <4>2
    <3> QED
      BY <1>14, <3>1, <3>2
  <2> QED
    BY <1>2, <1>14, <2>1, <2>2 DEF CopyOf, Ended, InStep, Mounted
<1>15. ASSUME SaveContextFails(w) \/ TimesOut(w) \/ CommandStopped(w) \/ CommandLost(w)
              \/ CompleteFails(w) \/ RecordFailureDies(w)
       PROVE  CopyOf(w)'
  <2>1. \/ pc'[w] \in {"failing", "dead"}
        \/ /\ pc'[w] = "sealFailed" /\ pc[w] = "sealing" /\ Kind[w] = "sealedShell"
           /\ copy' = copy /\ edits' = edits
    BY <1>15 DEF SaveContextFails, TimesOut, CommandStopped, CommandLost, CompleteFails,
      RecordFailureDies, Fails, Continues, TypeOK
  <2> QED
    BY <2>1, <1>13, <1>14
<1>16. ASSUME NEW e \in {"fault", "uncertain"}, CaptureFails(w, e) \/ RunFails(w, e)
       PROVE  CopyOf(w)'
  <2>1. \/ pc'[w] \in {"failing", "dead"}
        \/ /\ pc'[w] = "sealFailed" /\ pc[w] = "capturing" /\ Kind[w] = "sealedShell"
           /\ copy' = copy /\ edits' = edits
    BY <1>16 DEF CaptureFails, RunFails, Fails, Continues, TypeOK
  <2> QED
    BY <2>1, <1>13, <1>14
<1> QED
  BY <1>3, <1>4, <1>5, <1>6, <1>7, <1>8, <1>9, <1>10, <1>11, <1>12, <1>15, <1>16 DEF Run

\* A step that is not of a fiber under way.
LEMMA CopyStep ==
  ASSUME IInv, [Next]_vars
  PROVE  CopyInv' /\ FenceInv'
<1> USE DEF IInv
<1>1. CASE UNCHANGED vars
  BY <1>1 DEF CopyInv, CopyOf, FenceInv
<1>2. ASSUME NEW w \in Works, Run(w) \/ CompleteFails(w) \/ RecordFailureDies(w)
      PROVE  CopyInv' /\ FenceInv'
  <2>1. pc[w] # "idle" /\ \E x \in FiberStates \ {"idle"} : pc' = [pc EXCEPT ![w] = x]
    BY <1>2, RunShape
  <2>2. CopyOf(w)' /\ FenceInv'
    <3>1. CASE SaveContext(w)
      BY <3>1, SaveStep
    <3>2. CASE ~SaveContext(w)
      BY <1>2, <3>2, CopyMove, RunKeepsContext DEF FenceInv
    <3> QED
      BY <3>1, <3>2
  <2> QED
    BY <2>1, <2>2, CopyFrame
<1>3. ASSUME NEW w \in Works, Claim(w)
      PROVE  CopyInv' /\ FenceInv'
  <2>1. /\ context'.phase = context.phase /\ context.phase # "blocked"
        /\ context'.generation = context.generation /\ context'.epoch = context.epoch
    BY <1>3, BusyFields DEF Claim, Claimable, TypeOK
  <2>2. \A v \in Works : pc[v] = "idle"
    BY <1>3, RuntimeAssumption DEF Claim, Claimable, HolderInv
  <2>3. \A v \in Works : pc'[v] \in {"idle", "inspect"}
    BY <1>3, <2>2 DEF Claim, Continues, TypeOK
  <2> QED
    BY <2>1, <2>3 DEF CopyInv, CopyOf, FenceInv, Ended, InStep, Mounted
<1>4. ASSUME NEW w \in Works, Refuse(w) \/ OrphanEnds(w)
      PROVE  CopyInv' /\ FenceInv'
  <2>1. UNCHANGED << context, pc, copy, edits >>
    BY <1>4 DEF Refuse, OrphanEnds
  <2> QED
    BY <2>1 DEF CopyInv, CopyOf, FenceInv
<1>5. ASSUME NEW w \in Works, Complete(w) \/ RecordFailure(w)
      PROVE  CopyInv' /\ FenceInv'
  <2>1. pc[w] # "idle" /\ pc' = [pc EXCEPT ![w] = "idle"]
    BY <1>5 DEF Complete, RecordFailure, SettleWith
  <2>2. CopyOf(w)'
    BY <2>1 DEF CopyOf, Ended, InStep, Mounted, TypeOK
  <2>3. context.busy = w /\ context' \in {Released(w), Doubted(w)}
    BY <1>5, <2>1, Alone DEF Complete, RecordFailure, SettleWith
  <2>4. FenceInv'
    BY <2>3, SettledRow DEF FenceInv
  <2> QED
    BY <2>1, <2>2, <2>4, CopyFrame
<1>6. ASSUME NEW w \in Works, Write(w)
      PROVE  CopyInv' /\ FenceInv'
  <2>1. UNCHANGED << context, pc, copy, work >> /\ w \in live
    BY <1>6 DEF Write
  <2>2. ASSUME NEW v \in Works
        PROVE  CopyOf(v)'
    <3>1. CASE pc[v] \in {"sealing", "parking", "parked", "sealFailed"}
      <4>1. context.phase # "blocked"
        BY <3>1 DEF CopyInv, CopyOf, Ended
      <4>2. work[w] = "running" /\ pc[w] \in {"executing", "failing", "dead", "idle"}
        BY <2>1, <4>1 DEF LiveInv
      <4>3. v = w
        BY <3>1, <4>2, Alone
      <4> QED
        BY <3>1, <4>2, <4>3
    <3>2. CASE pc[v] \notin {"sealing", "parking", "parked", "sealFailed"}
      BY <2>1, <3>2 DEF CopyInv, CopyOf
    <3> QED
      BY <3>1, <3>2
  <2> QED
    BY <2>1, <2>2 DEF CopyInv, FenceInv
<1>7. CASE Crash
  <2>1. \A v \in Works : pc'[v] = "idle"
    BY <1>7 DEF Crash
  <2> QED
    BY <1>7, <2>1 DEF Crash, CopyInv, CopyOf, FenceInv, Ended, InStep, Mounted
<1>8. CASE Recover
  <2>1. \A v \in Works : pc'[v] = "idle"
    BY <1>8 DEF Recover, HolderInv
  <2>2. CopyInv'
    BY <2>1 DEF CopyInv, CopyOf, Ended, InStep, Mounted
  <2>3. FenceInv'
    BY <1>8, RecoveredRow, FencedFields DEF FenceInv, TypeOK
  <2> QED
    BY <2>2, <2>3
<1> QED
  BY <1>1, <1>2, <1>3, <1>4, <1>5, <1>6, <1>7, <1>8 DEF Next

-----------------------------------------------------------------------------
(* What may still write *)

\* While a fiber is under way, only its own command may be live.
LEMMA OnlyOwn ==
  ASSUME IInv, NEW w \in Works, pc[w] # "idle", context.phase # "blocked",
         NEW u \in live
  PROVE  u = w /\ pc[w] \in {"executing", "failing", "dead"}
<1>1. u \in Works /\ work[u] = "running" /\ pc[u] \in {"executing", "failing", "dead", "idle"}
  BY DEF IInv, TypeOK, LiveInv
<1> QED
  BY <1>1, Alone DEF IInv

LEMMA LiveStep ==
  ASSUME IInv, [Next]_vars
  PROVE  LiveInv'
<1> USE DEF IInv
<1>1. CASE UNCHANGED vars
  BY <1>1 DEF LiveInv
<1>2. ASSUME NEW w \in Works, Run(w) \/ CompleteFails(w) \/ RecordFailureDies(w)
      PROVE  LiveInv'
  <2>1. /\ pc[w] \notin {"idle", "dead"} /\ UNCHANGED work /\ work[w] = "running"
        /\ \E x \in FiberStates \ {"idle"} : pc' = [pc EXCEPT ![w] = x]
    BY <1>2, RunShape, Alone
  <2>2. CASE StartCommand(w)
    <3>1. /\ live' = live \cup {w} /\ pc'[w] = "executing" /\ UNCHANGED context
          /\ context.phase = "ready" /\ pc[w] = "act"
      BY <2>2 DEF StartCommand, Continues, TypeOK, CopyInv, CopyOf, Mounted
    <3>2. live = {}
      BY <3>1, OnlyOwn
    <3> QED
      BY <2>1, <3>1, <3>2 DEF LiveInv
  <2>3. CASE CommandExits(w) \/ CommandStopped(w)
    <3>1. pc[w] = "executing" /\ live' = live \ {w} /\ UNCHANGED context
      BY <2>3 DEF CommandExits, CommandStopped, Continues
    <3>2. context.phase # "blocked"
      BY <3>1 DEF CopyInv, CopyOf, Ended
    <3>3. live' = {}
      BY <3>1, <3>2, OnlyOwn
    <3> QED
      BY <3>3 DEF LiveInv
  <2>4. CASE CommandLost(w) \/ TimesOut(w)
    <3>1. /\ pc'[w] = "failing" /\ error'[w] = "uncertain"
          /\ UNCHANGED << context, live >>
      BY <2>4 DEF CommandLost, TimesOut, Fails, TypeOK
    <3>2. \A u \in live : context.phase # "blocked" => u = w
      BY <2>1, OnlyOwn
    <3> QED
      BY <2>1, <3>1, <3>2 DEF LiveInv
  <2>5. CASE RecordFailureDies(w)
    <3>1. pc'[w] = "dead" /\ UNCHANGED << context, live >>
      BY <2>5 DEF RecordFailureDies, Continues, TypeOK
    <3>2. \A u \in live : context.phase # "blocked" => u = w
      BY <2>1, OnlyOwn
    <3> QED
      BY <2>1, <3>1, <3>2 DEF LiveInv
  <2>6. CASE ~ (StartCommand(w) \/ CommandExits(w) \/ CommandStopped(w)
                \/ CommandLost(w) \/ TimesOut(w) \/ RecordFailureDies(w))
    <3>1. pc[w] \notin {"executing", "failing", "dead"} /\ UNCHANGED live
      BY <1>2, <2>6 DEF Run, Inspect, AlreadyReady, Wake, Create, Seed, Report, Capture,
        Capturing, Park, SaveContext, Saving, SaveContextFails, SeedFails, CaptureFails,
        RunFails, CompleteFails, Continues
    <3>2. context.phase # "blocked"
      BY <2>1, <3>1 DEF CopyInv, CopyOf, Ended
    <3>3. live = {}
      BY <2>1, <3>1, <3>2, OnlyOwn
    <3> QED
      BY <3>1, <3>3 DEF LiveInv
  <2> QED
    BY <2>2, <2>3, <2>4, <2>5, <2>6
<1>3. ASSUME NEW w \in Works, Claim(w)
      PROVE  LiveInv'
  <2>1. context.phase # "blocked" /\ \A v \in Works : work[v] # "running"
    BY <1>3, RuntimeAssumption DEF Claim, Claimable, HolderInv
  <2>2. live = {} /\ UNCHANGED live
    BY <1>3, <2>1 DEF Claim, LiveInv, TypeOK
  <2> QED
    BY <2>2 DEF LiveInv
<1>4. ASSUME NEW w \in Works, Refuse(w)
      PROVE  LiveInv'
  <2>1. \A v \in live : v # w
    BY <1>4 DEF Refuse, LiveInv
  <2> QED
    BY <1>4, <2>1 DEF Refuse, LiveInv, TypeOK
<1>5. ASSUME NEW w \in Works, Complete(w) \/ RecordFailure(w)
      PROVE  LiveInv'
  <2>1. pc[w] \in {"settling", "sealFailed", "failing"} /\ UNCHANGED live
    BY <1>5 DEF Complete, RecordFailure, SettleWith
  <2>2. \A v \in live : work'[v] # "queued"
    BY <1>5 DEF Complete, RecordFailure, SettleWith, LiveInv, TypeOK
  <2>3. CASE context'.phase = "blocked"
    BY <2>1, <2>2, <2>3 DEF LiveInv
  <2>4. CASE context'.phase # "blocked"
    <3>1. context.busy = w
      BY <2>1, Alone
    <3>2. context' = Released(w) /\ (pc[w] = "failing" => error[w] = "fault")
      BY <1>5, <2>4, <3>1, SettledRow DEF Complete, RecordFailure, SettleWith
    <3>3. context.phase # "blocked"
      BY <2>4, <3>2, SettledRow
    <3>4. live = {}
      BY <2>1, <3>2, <3>3, OnlyOwn DEF LiveInv
    <3> QED
      BY <2>1, <3>4 DEF LiveInv
  <2> QED
    BY <2>3, <2>4
<1>6. ASSUME NEW w \in Works, Write(w) \/ OrphanEnds(w)
      PROVE  LiveInv'
  BY <1>6 DEF Write, OrphanEnds, LiveInv
<1>7. CASE Crash
  BY <1>7 DEF Crash, LiveInv, TypeOK
<1>8. CASE Recover
  <2>1. UNCHANGED live /\ \A v \in live : work'[v] # "queued"
    BY <1>8 DEF Recover, LiveInv, TypeOK
  <2>2. CASE context' = context /\ \A v \in Works : work[v] # "running"
    <3>1. \A v \in live : context'.phase = "blocked"
      BY <2>2 DEF LiveInv, TypeOK
    <3> QED
      BY <2>1, <3>1 DEF LiveInv
  <2>3. CASE \E n \in Nat : context' = Fenced(context, n)
    <3>1. context'.phase = "blocked"
      BY <2>3, FencedFields DEF TypeOK
    <3> QED
      BY <2>1, <3>1 DEF LiveInv
  <2> QED
    BY <1>8, <2>2, <2>3, RecoveredRow
<1> QED
  BY <1>1, <1>2, <1>3, <1>4, <1>5, <1>6, <1>7, <1>8 DEF Next

-----------------------------------------------------------------------------
(* Cursors and seals *)

\* The seal that a capture makes now.
Present == [tree |-> edits, step |-> context.step]

LEMMA ToldTypes ==
  ASSUME TypeOK
  PROVE  Told \subseteq WorkspacePoints
<1>1. context.lastSeal \in Points
  BY DEF TypeOK, Contexts
<1>2. \A w \in Works : receipt[w].point \in Points /\ copy[w].lastSeal \in Points
  BY DEF TypeOK, Receipts, Contexts
<1> QED
  BY <1>1, <1>2 DEF Told, KnownPoints, Points

\* A Work that is not settled was told nothing.
LEMMA Untold ==
  ASSUME IInv, NEW w \in Works, work[w] # "settled"
  PROVE  ~Attested(w) /\ receipt[w].point = NoPoint /\ receipt[w].state = "none"
  BY DEF IInv, ReceiptInv, Attested, NoReceipt

\* No command is counted anew, and no seal but the present one is told anew.
Kept ==
  /\ \A w \in Works : IsCounted(w)' => IsCounted(w) /\ CursorOf(w)' = CursorOf(w)
  /\ Told' \subseteq Told \cup {Present}
  /\ edits \subseteq edits' /\ context'.step = context.step

LEMMA KeptStep ==
  ASSUME IInv, Kept
  PROVE  CursorInv' /\ PointInv'
<1> USE DEF IInv
<1>1. CursorInv'
  BY DEF Kept, CursorInv
<1>2. ASSUME NEW p \in Told'
      PROVE  /\ p.tree \subseteq edits' /\ p.step <= context'.step
             /\ \A w \in Works : IsCounted(w)' => (w \in p.tree <=> CursorOf(w)' <= p.step)
  <2>1. CASE p \in Told
    BY <2>1 DEF Kept, PointInv
  <2>2. CASE p = Present
    <3>1. p.tree = edits /\ p.step = context.step /\ context.step \in Nat
      BY <2>2 DEF Present, TypeOK, Contexts
    <3>2. \A w \in Works : IsCounted(w)' => w \in p.tree /\ CursorOf(w)' <= p.step
      BY <3>1 DEF Kept, CursorInv
    <3> QED
      BY <3>1, <3>2 DEF Kept
  <2> QED
    BY <1>2, <2>1, <2>2 DEF Kept
<1> QED
  BY <1>1, <1>2 DEF PointInv

\* What a step of a fiber does to cursors and seals.
LEMMA RunKept ==
  ASSUME IInv, NEW w \in Works, Run(w) \/ CompleteFails(w) \/ RecordFailureDies(w),
         ~(SaveContext(w) /\ pc[w] = "counting")
  PROVE  Kept
<1> USE DEF IInv
<1>1. /\ pc[w] \notin {"idle", "dead"} /\ UNCHANGED << receipt, work >>
      /\ \E x \in FiberStates \ {"idle"} : pc' = [pc EXCEPT ![w] = x]
      /\ work[w] = "running" /\ CopyOf(w)
      /\ \A v \in Works \ {w} : pc'[v] = "idle" /\ pc[v] = "idle"
  BY RunShape, Alone DEF CopyInv, TypeOK
<1>2. ~Attested(w) /\ \A v \in Works : Attested(v)' <=> Attested(v)
  BY <1>1, Untold DEF Attested
<1>3. context \in Contexts /\ copy[w] \in Contexts /\ edits \in SUBSET Works
  BY DEF TypeOK
<1>4. edits \subseteq edits'
  BY DEF Run, Inspect, AlreadyReady, Wake, Create, Seed, StartCommand, CommandExits,
    CommandStopped, CommandLost, Report, Capture, Park, TimesOut, SaveContext,
    SaveContextFails, SeedFails, CaptureFails, RunFails, CompleteFails, RecordFailureDies
<1>5. context'.step = context.step /\ context'.lastSeal \in {context.lastSeal, Present}
  BY RunKeepsContext, SaveStep DEF Present
<1>6. /\ pc'[w] = "sealFailed" => copy'[w].lastSeal \in {context.lastSeal, Present}
      /\ w \in Shells /\ pc'[w] \in Exited =>
           pc[w] \in Exited /\ copy'[w].step = copy[w].step
  <2>1. CASE SaveContext(w)
    BY <1>1, <2>1, ZenonT(40) DEF SaveContext, Saving, AfterSave, TypeOK, CopyOf, Shells, Exited
  <2>2. CASE Capture(w)
    <3>1. /\ pc'[w] = "sealing" /\ copy'[w] = SealedAs(copy[w], edits)
          /\ w \in Shells => pc[w] = "capturing"
      BY <2>2 DEF Capture, Capturing, Holds, Shells, TypeOK
    <3>2. SealedAs(copy[w], edits).step = copy[w].step
      BY <1>3, SealFields
    <3> QED
      BY <3>1, <3>2 DEF Exited
  <2>3. CASE SaveContextFails(w)
    <3>1. /\ pc'[w] \in {"sealFailed", "failing"} /\ copy' = copy
          /\ pc'[w] = "sealFailed" => pc[w] = "sealing"
      BY <2>3 DEF SaveContextFails, Fails, Continues, TypeOK
    <3>2. pc[w] = "sealing" => copy[w].lastSeal = Present
      <4>1. SealedAs(context, edits).lastSeal = Present
        BY <1>3, SealFields DEF Present
      <4> QED
        BY <1>1, <4>1 DEF CopyOf
    <3> QED
      BY <3>1, <3>2 DEF Exited
  <2>4. ASSUME NEW e \in {"fault", "uncertain"}, CaptureFails(w, e)
        PROVE  <1>6!1 /\ <1>6!2
    <3>1. /\ pc'[w] \in {"sealFailed", "failing"} /\ copy' = copy
          /\ pc'[w] = "sealFailed" => pc[w] = "capturing"
      BY <2>4 DEF CaptureFails, Fails, Continues, TypeOK
    <3> QED
      BY <1>1, <3>1 DEF Exited, CopyOf, InStep
  <2>5. CASE Inspect(w) \/ AlreadyReady(w) \/ Wake(w) \/ Create(w) \/ Seed(w)
             \/ StartCommand(w) \/ CommandExits(w) \/ Report(w) \/ Park(w)
    BY <2>5 DEF Inspect, AlreadyReady, Wake, Create, Seed, StartCommand, CommandExits,
      Report, Park, Continues, Exited, Shells, TypeOK
  <2>6. ASSUME pc'[w] \in {"failing", "dead", "blocking"}
        PROVE  <1>6!1 /\ <1>6!2
    BY <2>6 DEF Exited
  <2>7. CASE CommandStopped(w) \/ CommandLost(w) \/ TimesOut(w) \/ CompleteFails(w)
             \/ RecordFailureDies(w)
             \/ \E e \in {"fault", "uncertain"} : SeedFails(w, e) \/ RunFails(w, e)
    BY <2>6, <2>7 DEF CommandStopped, CommandLost, TimesOut, CompleteFails,
      RecordFailureDies, SeedFails, RunFails, Fails, Continues, TypeOK
  <2> QED
    BY <2>1, <2>2, <2>3, <2>4, <2>5, <2>7 DEF Run
<1>7. copy' = copy \/ \E c : copy' = [copy EXCEPT ![w] = c]
  BY DEF Run, Inspect, AlreadyReady, Wake, Create, Seed, StartCommand, CommandExits,
    CommandStopped, CommandLost, Report, Capture, Park, TimesOut, SaveContext,
    SaveContextFails, SeedFails, CaptureFails, RunFails, CompleteFails,
    RecordFailureDies, Holds
<1>8. ASSUME NEW v \in Works, IsCounted(v)'
      PROVE  IsCounted(v) /\ CursorOf(v)' = CursorOf(v)
  <2>1. CASE v = w
    BY <1>2, <1>6, <1>8, <2>1 DEF IsCounted, CursorOf
  <2>2. CASE v # w
    <3>1. pc'[v] = "idle" /\ Attested(v)' = Attested(v)
      BY <1>1, <1>2, <2>2 DEF Attested
    <3>2. Attested(v)'
      BY <1>8, <3>1 DEF IsCounted, Exited
    <3> QED
      BY <1>1, <1>2, <1>8, <3>2 DEF IsCounted, CursorOf
  <2> QED
    BY <2>1, <2>2
<1>9. Told' \subseteq Told \cup {Present}
  <2>1. KnownPoints' \subseteq KnownPoints \cup {Present}
    BY <1>1, <1>5 DEF KnownPoints
  <2>2. ASSUME NEW v \in Works, pc'[v] = "sealFailed"
        PROVE  copy'[v].lastSeal \in KnownPoints \cup {Present}
    BY <1>1, <1>6, <2>2 DEF KnownPoints
  <2> QED
    BY <2>1, <2>2 DEF Told
<1> QED
  BY <1>4, <1>5, <1>8, <1>9 DEF Kept

\* The step that counts a command gives it the cursor after the last.
LEMMA CountStep ==
  ASSUME IInv, NEW w \in Works, SaveContext(w), pc[w] = "counting"
  PROVE  CursorInv' /\ PointInv'
<1> USE DEF IInv
<1>1. /\ UNCHANGED << receipt, work, copy, edits >> /\ CopyOf(w) /\ FreshInv
      /\ pc' = [pc EXCEPT ![w] = AfterSave(w)] /\ pc'[w] \in {"capturing", "settling"}
      /\ work[w] = "running" /\ \A v \in Works \ {w} : pc'[v] = "idle" /\ pc[v] = "idle"
  BY Alone DEF CopyInv, TypeOK, SaveContext, AfterSave
<1>2. context.step \in Nat /\ context'.step = context.step + 1
      /\ context'.lastSeal = context.lastSeal
  BY SaveStep DEF TypeOK, Contexts
<1>3. w \in Shells /\ w \in edits /\ \A p \in Told : w \notin p.tree
  BY <1>1 DEF CopyOf, FreshInv
<1>4. ~Attested(w) /\ copy[w].step = context.step + 1
  <2>1. copy[w] = Counted(context) /\ context \in Contexts
    BY <1>1 DEF CopyOf, TypeOK
  <2>2. Counted(context).step = context.step + 1
    BY <2>1, Fields
  <2> QED
    BY <1>1, <2>1, <2>2, Untold
<1>5. /\ IsCounted(w)' /\ CursorOf(w)' = context.step + 1
      /\ \A v \in Works \ {w} : /\ IsCounted(v)' <=> IsCounted(v)
                                /\ CursorOf(v)' = CursorOf(v)
  BY <1>1, <1>3, <1>4 DEF IsCounted, CursorOf, Attested, Exited
<1>6. Told' \subseteq Told
  BY <1>1, <1>2 DEF Told, KnownPoints
<1>7. \A v \in Works : IsCounted(v) => CursorOf(v) \in Nat
  BY DEF CursorOf, TypeOK, Receipts, Contexts
<1>8. CursorInv'
  <2>1. \A v \in Works \ {w} :
          IsCounted(v)' => v \in edits /\ CursorOf(v)' <= context.step /\ CursorOf(v)' \in Nat
    BY <1>5, <1>7 DEF CursorInv
  <2>2. \A v \in Works : IsCounted(v)' => v \in edits' /\ CursorOf(v)' <= context'.step
    BY <1>1, <1>2, <1>3, <1>5, <2>1
  <2>3. \A v, u \in Works : IsCounted(v)' /\ IsCounted(u)' /\ v # u =>
          CursorOf(v)' # CursorOf(u)'
    BY <1>2, <1>5, <2>1 DEF CursorInv
  <2> QED
    BY <2>2, <2>3 DEF CursorInv
<1>9. PointInv'
  <2>1. ASSUME NEW p \in Told'
        PROVE  /\ p.tree \subseteq edits' /\ p.step <= context'.step
               /\ \A v \in Works : IsCounted(v)' => (v \in p.tree <=> CursorOf(v)' <= p.step)
    <3>1. p \in Told /\ p.step \in Nat
      BY <1>6, <2>1, ToldTypes DEF WorkspacePoints
    <3>2. p.tree \subseteq edits /\ p.step <= context.step
      BY <3>1 DEF PointInv
    <3>3. w \notin p.tree /\ ~(CursorOf(w)' <= p.step)
      BY <1>2, <1>3, <1>5, <3>1, <3>2
    <3>4. \A v \in Works \ {w} : IsCounted(v)' => (v \in p.tree <=> CursorOf(v)' <= p.step)
      BY <1>5, <3>1 DEF PointInv
    <3> QED
      BY <1>1, <1>2, <3>1, <3>2, <3>3, <3>4
  <2> QED
    BY <2>1 DEF PointInv
<1> QED
  BY <1>8, <1>9

\* A settlement tells the Work what its fiber already counted and sealed.
LEMMA SettleKept ==
  ASSUME IInv, NEW w \in Works, Complete(w) \/ RecordFailure(w)
  PROVE  /\ Kept /\ context'.lastSeal = context.lastSeal
         /\ \A v \in Works \ {w} : receipt'[v] = receipt[v]
         /\ receipt'[w].state = "sealed" =>
              receipt'[w].point = context.lastSeal /\ context.lastSeal # NoPoint
<1> USE DEF IInv
<1>1. /\ pc[w] \in {"settling", "sealFailed", "failing"} /\ pc' = [pc EXCEPT ![w] = "idle"]
      /\ UNCHANGED << copy, edits >> /\ CopyOf(w) /\ work[w] = "running"
      /\ context' \in {Released(w), Doubted(w)}
      /\ \A v \in Works \ {w} : pc[v] = "idle"
  BY Alone DEF CopyInv, Complete, RecordFailure, SettleWith
<1>2. context'.step = context.step /\ context'.lastSeal = context.lastSeal
  BY <1>1, SettledRow
<1>3. \A v \in Works \ {w} : receipt'[v] = receipt[v] /\ pc'[v] = "idle"
  BY <1>1 DEF Complete, RecordFailure, SettleWith, TypeOK
<1>4. ~Attested(w) /\ receipt[w].point = NoPoint /\ receipt[w].state = "none"
  BY <1>1, Untold
<1>5. CASE Complete(w)
  <2>1. receipt'[w] = ReceiptOf(w) /\ pc[w] \in {"settling", "sealFailed"}
    BY <1>5 DEF Complete, SettleWith, TypeOK
  <2>2. /\ receipt'[w].point \in {copy[w].lastSeal, NoPoint}
        /\ w \in Shells => receipt'[w].step = copy[w].step
        /\ receipt'[w].state = "sealed" =>
             /\ pc[w] = "settling" /\ receipt'[w].point = copy[w].lastSeal
             /\ Kind[w] \in {"sealedShell", "seal", "sleep"}
             /\ ~(Kind[w] = "sleep" /\ copy[w].phase = "unallocated")
    BY <2>1 DEF ReceiptOf, Unsealed, Sealed, NoReceipt, Shells
  <2>3. pc[w] = "settling" => copy[w] = context
    BY <1>1 DEF CopyOf, InStep
  <2>4. receipt'[w].state = "sealed" =>
          receipt'[w].point = context.lastSeal /\ context.lastSeal # NoPoint
    BY <1>1, <2>2, <2>3 DEF CopyOf
  <2>5. ASSUME NEW v \in Works, IsCounted(v)'
        PROVE  IsCounted(v) /\ CursorOf(v)' = CursorOf(v)
    <3>1. CASE v = w
      <4>1. w \in Shells /\ Attested(w)'
        BY <1>1, <2>5, <3>1 DEF IsCounted, Exited, TypeOK
      <4> QED
        BY <1>4, <2>1, <2>2, <3>1, <4>1 DEF IsCounted, Exited, CursorOf
    <3>2. CASE v # w
      <4>1. Attested(v)' /\ Attested(v)
        BY <1>3, <2>5, <3>2 DEF IsCounted, Exited, Attested
      <4> QED
        BY <1>3, <2>5, <3>2, <4>1 DEF IsCounted, CursorOf
    <3> QED
      BY <3>1, <3>2
  <2>6. Told' \subseteq Told
    <3>1. receipt'[w].point \in Told \cup {NoPoint}
      BY <2>1, <2>2, <2>3 DEF Told, KnownPoints
    <3> QED
      BY <1>2, <1>3, <1>1, <3>1 DEF Told, KnownPoints, TypeOK
  <2> QED
    BY <1>1, <1>2, <1>3, <2>4, <2>5, <2>6 DEF Kept
<1>6. CASE RecordFailure(w)
  <2>1. /\ receipt'[w] \in {Failed, receipt[w]} /\ pc[w] = "failing"
    BY <1>6 DEF RecordFailure, SettleWith, TypeOK
  <2>2. receipt'[w].state = "none" /\ receipt'[w].point = NoPoint
    BY <1>4, <2>1 DEF Failed, NoReceipt
  <2>3. ~IsCounted(w)'
    BY <1>1, <2>2 DEF IsCounted, Attested, Exited, TypeOK
  <2>4. ASSUME NEW v \in Works, IsCounted(v)'
        PROVE  IsCounted(v) /\ CursorOf(v)' = CursorOf(v)
    <3>1. v # w
      BY <2>3, <2>4
    <3>2. Attested(v)' /\ Attested(v)
      BY <1>3, <2>4, <3>1 DEF IsCounted, Exited, Attested
    <3> QED
      BY <1>1, <1>3, <2>4, <3>1, <3>2 DEF IsCounted, CursorOf
  <2>5. Told' \subseteq Told
    BY <1>1, <1>2, <1>3, <2>2 DEF Told, KnownPoints, TypeOK
  <2> QED
    BY <1>1, <1>2, <1>3, <2>2, <2>4, <2>5 DEF Kept
<1> QED
  BY <1>5, <1>6

\* Steps that settle or move a Work that no fiber tends, or none.
LEMMA OtherKept ==
  ASSUME IInv,
         \/ Crash \/ Recover \/ UNCHANGED vars
         \/ \E w \in Works : Claim(w) \/ Refuse(w) \/ Write(w) \/ OrphanEnds(w)
  PROVE  /\ Kept /\ context'.lastSeal = context.lastSeal
         /\ \A v \in Works : receipt'[v].state = receipt[v].state
                             /\ receipt'[v].point = receipt[v].point
<1> USE DEF IInv
<1>1. CASE Crash
  <2>1. /\ UNCHANGED << receipt, copy, edits, context >>
        /\ \A v \in Works : pc'[v] = "idle"
    BY <1>1 DEF Crash
  <2>2. \A v \in Works : /\ Attested(v)' <=> Attested(v)
                         /\ IsCounted(v)' => Attested(v)
    BY <2>1 DEF IsCounted, Attested, Exited
  <2>3. \A v \in Works : IsCounted(v)' => IsCounted(v) /\ CursorOf(v)' = CursorOf(v)
    BY <2>1, <2>2 DEF IsCounted, CursorOf
  <2>4. Told' \subseteq Told
    BY <2>1 DEF Told, KnownPoints
  <2> QED
    BY <2>1, <2>3, <2>4 DEF Kept
<1>2. ASSUME UNCHANGED << receipt, copy, pc >>, edits \subseteq edits',
             context'.step = context.step, context'.lastSeal = context.lastSeal
      PROVE  Kept
  BY <1>2 DEF Kept, IsCounted, CursorOf, Attested, Told, KnownPoints
<1>3. CASE Recover
  <2>1. context'.step = context.step /\ context'.lastSeal = context.lastSeal
    BY <1>3, RecoveredRow, FencedFields DEF TypeOK
  <2>2. UNCHANGED << receipt, copy, pc, edits >>
    BY <1>3 DEF Recover
  <2> QED
    BY <1>2, <2>1, <2>2
<1>4. CASE UNCHANGED vars
  BY <1>2, <1>4
<1>5. ASSUME NEW w \in Works, Write(w) \/ OrphanEnds(w)
      PROVE  /\ UNCHANGED << receipt, copy, pc, context >> /\ edits \subseteq edits'
  BY <1>5 DEF Write, OrphanEnds
<1>6. ASSUME NEW w \in Works, Claim(w)
      PROVE  /\ Kept /\ context'.lastSeal = context.lastSeal
             /\ UNCHANGED receipt
  <2>1. /\ pc' = [pc EXCEPT ![w] = "inspect"] /\ pc[w] = "idle"
        /\ UNCHANGED << receipt, copy, edits >>
    BY <1>6 DEF Claim, Continues
  <2>2. context'.step = context.step /\ context'.lastSeal = context.lastSeal
    BY <1>6, BusyFields DEF Claim, TypeOK
  <2>3. \A v \in Works : /\ Attested(v)' <=> Attested(v)
                         /\ pc'[v] \in Exited => pc[v] \in Exited
                         /\ pc'[v] = "sealFailed" => pc[v] = "sealFailed"
    BY <2>1 DEF Attested, Exited, TypeOK
  <2>4. \A v \in Works : IsCounted(v)' => IsCounted(v) /\ CursorOf(v)' = CursorOf(v)
    BY <2>1, <2>3 DEF IsCounted, CursorOf
  <2>5. Told' \subseteq Told
    BY <2>1, <2>2, <2>3 DEF Told, KnownPoints
  <2> QED
    BY <2>1, <2>2, <2>4, <2>5 DEF Kept
<1>7. ASSUME NEW w \in Works, Refuse(w)
      PROVE  /\ Kept /\ context'.lastSeal = context.lastSeal
             /\ \A v \in Works : receipt'[v].state = receipt[v].state
                                 /\ receipt'[v].point = receipt[v].point
  <2>1. /\ receipt' = [receipt EXCEPT ![w] = Failed] /\ work[w] = "queued"
        /\ UNCHANGED << context, copy, pc, edits >>
    BY <1>7 DEF Refuse
  <2>2. /\ receipt[w].state = "none" /\ receipt[w].point = NoPoint
        /\ Failed.state = "none" /\ Failed.point = NoPoint
    BY <2>1, Untold DEF Failed, NoReceipt
  <2>3. \A v \in Works : /\ receipt'[v].state = receipt[v].state
                         /\ receipt'[v].point = receipt[v].point
                         /\ v # w => receipt'[v] = receipt[v]
    BY <2>1, <2>2 DEF TypeOK
  <2>4. \A v \in Works : /\ Attested(v)' <=> Attested(v)
                         /\ Attested(v) => receipt'[v] = receipt[v]
    BY <2>2, <2>3 DEF Attested
  <2>5. \A v \in Works : IsCounted(v)' => IsCounted(v) /\ CursorOf(v)' = CursorOf(v)
    BY <2>1, <2>4 DEF IsCounted, CursorOf
  <2>6. Told' \subseteq Told
    BY <2>1, <2>3 DEF Told, KnownPoints
  <2> QED
    BY <2>1, <2>3, <2>5, <2>6 DEF Kept
<1> QED
  BY <1>1, <1>2, <1>3, <1>4, <1>5, <1>6, <1>7 DEF Crash, Recover

LEMMA PointStep ==
  ASSUME IInv, [Next]_vars
  PROVE  CursorInv' /\ PointInv'
<1>1. CASE \E w \in Works : SaveContext(w) /\ pc[w] = "counting"
  BY <1>1, CountStep
<1>2. CASE ~\E w \in Works : SaveContext(w) /\ pc[w] = "counting"
  BY <1>2, RunKept, SettleKept, OtherKept, KeptStep DEF Next
<1> QED
  BY <1>1, <1>2

\* The seal on record only ever moves on.
LEMMA SealedStep ==
  ASSUME IInv, [Next]_vars
  PROVE  SealedIsOnRecord'
<1> USE DEF IInv
<1>1. /\ context.lastSeal # NoPoint =>
           context.lastSeal.tree \subseteq edits /\ context.lastSeal.step <= context.step
      /\ context.lastSeal # NoPoint => context.lastSeal.step \in Nat
      /\ context.step \in Nat /\ Present.tree = edits /\ Present.step = context.step
      /\ Present # NoPoint
  <2>1. context.lastSeal # NoPoint => context.lastSeal \in Told
    BY DEF Told, KnownPoints
  <2>2. context.step \in Nat /\ Present \in WorkspacePoints
    BY DEF TypeOK, Contexts, Present, WorkspacePoints
  <2> QED
    BY <2>1, <2>2, ToldTypes, RuntimeAssumption DEF PointInv, WorkspacePoints, Present
<1>2. /\ context'.lastSeal \in {context.lastSeal, Present}
      /\ \A v \in Works : receipt'[v].state = "sealed" =>
           \/ /\ receipt[v].state = "sealed" /\ receipt'[v].point = receipt[v].point
           \/ /\ receipt'[v].point = context.lastSeal /\ context.lastSeal # NoPoint
              /\ context'.lastSeal = context.lastSeal
  <2>1. ASSUME NEW w \in Works, Run(w) \/ CompleteFails(w) \/ RecordFailureDies(w)
        PROVE  <1>2!1 /\ <1>2!2
    BY <2>1, RunShape, RunKeepsContext, SaveStep DEF Present
  <2>2. ASSUME NEW w \in Works, Complete(w) \/ RecordFailure(w)
        PROVE  <1>2!1 /\ <1>2!2
    BY <2>2, SettleKept
  <2>3. CASE \/ Crash \/ Recover \/ UNCHANGED vars
             \/ \E w \in Works : Claim(w) \/ Refuse(w) \/ Write(w) \/ OrphanEnds(w)
    BY <2>3, OtherKept
  <2> QED
    BY <2>1, <2>2, <2>3 DEF Next
<1>3. ASSUME NEW v \in Works, receipt'[v].state = "sealed"
      PROVE  /\ receipt'[v].point # NoPoint /\ context'.lastSeal # NoPoint
             /\ receipt'[v].point.tree \subseteq context'.lastSeal.tree
             /\ receipt'[v].point.step <= context'.lastSeal.step
  <2>1. CASE receipt[v].state = "sealed" /\ receipt'[v].point = receipt[v].point
    <3>1. /\ context.lastSeal # NoPoint
          /\ receipt[v].point.tree \subseteq context.lastSeal.tree
          /\ receipt[v].point.step <= context.lastSeal.step
      BY <2>1 DEF SealedIsOnRecord
    <3>2. receipt[v].point # NoPoint /\ receipt[v].point.step \in Nat
      <4>1. receipt[v].point \in Told
        BY <2>1 DEF SealedIsOnRecord, Told, KnownPoints
      <4> QED
        BY <4>1, ToldTypes DEF WorkspacePoints, Told
    <3> QED
      BY <1>1, <1>2, <2>1, <3>1, <3>2
  <2>2. CASE /\ receipt'[v].point = context.lastSeal /\ context.lastSeal # NoPoint
             /\ context'.lastSeal = context.lastSeal
    BY <1>1, <2>2
  <2> QED
    BY <1>2, <1>3, <2>1, <2>2
<1> QED
  BY <1>3 DEF SealedIsOnRecord

-----------------------------------------------------------------------------
(* Receipts and traces *)

LEMMA ReceiptStep ==
  ASSUME IInv, [Next]_vars
  PROVE  ReceiptInv'
<1> USE DEF IInv
<1>1. CASE UNCHANGED vars
  BY <1>1 DEF ReceiptInv
<1>2. ASSUME NEW w \in Works, Run(w) \/ CompleteFails(w) \/ RecordFailureDies(w)
      PROVE  ReceiptInv'
  BY <1>2, RunShape DEF ReceiptInv
<1>3. ASSUME NEW w \in Works, Claim(w)
      PROVE  ReceiptInv'
  BY <1>3 DEF Claim, ReceiptInv, TypeOK
<1>4. ASSUME NEW w \in Works, Refuse(w)
      PROVE  ReceiptInv'
  BY <1>4 DEF Refuse, ReceiptInv, TypeOK
<1>5. ASSUME NEW w \in Works, Complete(w) \/ RecordFailure(w)
      PROVE  ReceiptInv'
  <2>1. work[w] = "running"
    BY <1>5, Alone DEF Complete, RecordFailure, SettleWith
  <2> QED
    BY <1>5, <2>1 DEF Complete, RecordFailure, SettleWith, ReceiptInv, TypeOK
<1>6. ASSUME NEW w \in Works, Write(w) \/ OrphanEnds(w)
      PROVE  ReceiptInv'
  BY <1>6 DEF Write, OrphanEnds, ReceiptInv
<1>7. CASE Crash
  BY <1>7 DEF Crash, ReceiptInv
<1>8. CASE Recover
  BY <1>8 DEF Recover, ReceiptInv, TypeOK
<1> QED
  BY <1>1, <1>2, <1>3, <1>4, <1>5, <1>6, <1>7, <1>8 DEF Next

\* What FreshInv says of one command.
Untouched == {"inspect", "ensure", "created", "seeding", "blocking", "mounted", "act"}
FreshOf(w) ==
  /\ work[w] = "queued" => w \notin edits
  /\ pc[w] \in Untouched => w \notin edits
  /\ pc[w] \in {"executing", "counting"} => \A p \in Told : w \notin p.tree
  /\ pc[w] = "counting" => w \in edits

LEMMA FreshIs == FreshInv <=> \A w \in Shells : FreshOf(w)
  BY DEF FreshInv, FreshOf, Untouched

\* Works whose fibers are idle are fresh if they were, and were queued before.
LEMMA FreshIdle ==
  ASSUME IInv, NEW w \in Shells, pc'[w] = "idle",
         work'[w] = "queued" => work[w] = "queued" /\ (w \in edits' => w \in edits)
  PROVE  FreshOf(w)'
  BY FreshIs DEF IInv, FreshOf, Untouched

\* The same seals are known, and no fiber comes to know another.
LEMMA SameTold ==
  ASSUME context'.lastSeal = context.lastSeal, copy' = copy,
         \A v \in Works : /\ receipt'[v].point = receipt[v].point
                          /\ pc'[v] = "sealFailed" => pc[v] = "sealFailed"
  PROVE  Told' \subseteq Told
  BY DEF Told, KnownPoints

\* A command writes once it has started, and is counted after that.
LEMMA RunFresh ==
  ASSUME IInv, NEW w \in Shells, Run(w) \/ CompleteFails(w) \/ RecordFailureDies(w)
  PROVE  FreshOf(w)'
<1> USE DEF IInv
<1>1. /\ w \in Works /\ work'[w] = "running" /\ FreshOf(w)
      /\ \E x \in FiberStates \ {"idle"} : pc' = [pc EXCEPT ![w] = x]
  BY RunShape, Alone, FreshIs DEF Shells
<1>2. CASE StartCommand(w)
  <2>1. /\ pc[w] = "act" /\ pc'[w] = "executing" /\ UNCHANGED << edits, context, copy, receipt >>
    BY <1>1, <1>2 DEF StartCommand, Continues, TypeOK
  <2>2. w \notin edits /\ \A p \in Told : p.tree \subseteq edits
    BY <1>1, <2>1 DEF FreshOf, Untouched, PointInv
  <2>3. Told' \subseteq Told
    <3>1. \A v \in Works : pc'[v] = "sealFailed" => pc[v] = "sealFailed"
      BY <1>1, <2>1 DEF TypeOK
    <3> QED
      BY <2>1, <3>1, SameTold
  <2> QED
    BY <1>1, <2>1, <2>2, <2>3 DEF FreshOf, Untouched
<1>3. CASE CommandExits(w)
  <2>1. /\ pc[w] = "executing" /\ pc'[w] = "counting" /\ w \in edits'
        /\ UNCHANGED << context, receipt >> /\ \A v \in Works \ {w} : copy'[v] = copy[v]
    BY <1>1, <1>3 DEF CommandExits, Continues, Holds, TypeOK
  <2>2. Told' \subseteq Told
    <3>1. \A v \in Works : pc'[v] = "sealFailed" => pc[v] = "sealFailed" /\ v # w
      BY <1>1, <2>1 DEF TypeOK
    <3> QED
      BY <2>1, <3>1 DEF Told, KnownPoints
  <2> QED
    BY <1>1, <2>1, <2>2 DEF FreshOf, Untouched
<1>4. CASE ~StartCommand(w) /\ ~CommandExits(w)
  <2>1. /\ UNCHANGED edits
        /\ pc'[w] \in Untouched => pc[w] \in Untouched
        /\ pc'[w] \notin {"executing", "counting"}
    <3>1. CASE SaveContext(w)
      BY <1>1, <3>1 DEF SaveContext, Saving, AfterSave, Untouched, TypeOK
    <3>2. CASE Inspect(w) \/ AlreadyReady(w) \/ Wake(w) \/ Create(w) \/ Seed(w)
               \/ Report(w) \/ Capture(w) \/ Park(w)
      BY <1>1, <3>2 DEF Inspect, AlreadyReady, Wake, Create, Seed, Report, Capture, Park,
        Continues, Untouched, TypeOK
    <3>3. CASE SaveContextFails(w) \/ TimesOut(w) \/ CommandStopped(w) \/ CommandLost(w)
               \/ CompleteFails(w) \/ RecordFailureDies(w)
      BY <1>1, <3>3 DEF SaveContextFails, TimesOut, CommandStopped, CommandLost,
        CompleteFails, RecordFailureDies, Fails, Continues, Untouched, TypeOK
    <3>4. CASE \E e \in {"fault", "uncertain"} :
                 SeedFails(w, e) \/ CaptureFails(w, e) \/ RunFails(w, e)
      BY <1>1, <3>4 DEF SeedFails, CaptureFails, RunFails, Fails, Continues, Untouched, TypeOK
    <3> QED
      BY <1>4, <3>1, <3>2, <3>3, <3>4 DEF Run
  <2> QED
    BY <1>1, <2>1 DEF FreshOf
<1> QED
  BY <1>2, <1>3, <1>4

LEMMA FreshStep ==
  ASSUME IInv, [Next]_vars
  PROVE  FreshInv'
<1> USE DEF IInv
<1> SUFFICES ASSUME NEW v \in Shells
             PROVE  FreshOf(v)'
  BY DEF FreshInv, FreshOf, Untouched
<1>1. v \in Works /\ FreshOf(v)
  BY FreshIs DEF Shells
<1>2. CASE UNCHANGED vars
  BY <1>1, <1>2 DEF FreshOf, Told, KnownPoints
<1>3. ASSUME NEW w \in Works, Run(w) \/ CompleteFails(w) \/ RecordFailureDies(w)
      PROVE  FreshOf(v)'
  <2>1. CASE v = w
    BY <1>3, <2>1, RunFresh
  <2>2. CASE v # w
    <3>1. pc'[v] = "idle" /\ UNCHANGED work
      BY <1>1, <1>3, <2>2, RunShape, Alone DEF TypeOK
    <3>2. edits' = edits \/ edits' = edits \cup {w}
      BY <1>3 DEF Run, Inspect, AlreadyReady, Wake, Create, Seed, StartCommand,
        CommandExits, CommandStopped, CommandLost, Report, Capture, Park, TimesOut,
        SaveContext, SaveContextFails, SeedFails, CaptureFails, RunFails, CompleteFails,
        RecordFailureDies
    <3> QED
      BY <2>2, <3>1, <3>2, FreshIdle
  <2> QED
    BY <2>1, <2>2
<1>4. ASSUME NEW w \in Works, Claim(w)
      PROVE  FreshOf(v)'
  <2>1. /\ pc' = [pc EXCEPT ![w] = "inspect"] /\ work[w] = "queued"
        /\ work' = [work EXCEPT ![w] = "running"] /\ UNCHANGED edits
        /\ \A u \in Works : pc[u] = "idle"
    BY <1>4, RuntimeAssumption DEF Claim, Claimable, Continues, HolderInv
  <2>2. CASE v = w
    BY <1>1, <2>1, <2>2 DEF FreshOf, TypeOK
  <2>3. CASE v # w
    BY <1>1, <2>1, <2>3, FreshIdle DEF TypeOK
  <2> QED
    BY <2>2, <2>3
<1>5. ASSUME NEW w \in Works, Refuse(w) \/ OrphanEnds(w)
      PROVE  FreshOf(v)'
  <2>1. /\ UNCHANGED << context, pc, copy, edits >>
        /\ work'[v] = "queued" => work[v] = "queued"
    BY <1>1, <1>5 DEF Refuse, OrphanEnds, TypeOK
  <2>2. Told' \subseteq Told
    BY <1>5, <2>1, OtherKept, SameTold
  <2> QED
    BY <1>1, <2>1, <2>2 DEF FreshOf
<1>6. ASSUME NEW w \in Works, Complete(w) \/ RecordFailure(w)
      PROVE  FreshOf(v)'
  <2>1. /\ pc' = [pc EXCEPT ![w] = "idle"] /\ UNCHANGED edits /\ pc[w] # "idle"
        /\ work'[v] = "queued" => work[v] = "queued"
    BY <1>1, <1>6 DEF Complete, RecordFailure, SettleWith, TypeOK
  <2>2. pc'[v] = "idle"
    BY <1>1, <2>1, Alone DEF TypeOK
  <2> QED
    BY <2>1, <2>2, FreshIdle
<1>7. ASSUME NEW w \in Works, Write(w)
      PROVE  FreshOf(v)'
  <2>1. UNCHANGED << context, pc, copy, receipt, work >> /\ w \in live /\ edits' = edits \cup {w}
    BY <1>7 DEF Write
  <2>2. Told' \subseteq Told
    BY <2>1, SameTold
  <2>3. CASE v = w
    <3>1. work[v] # "queued"
      BY <2>1, <2>3 DEF LiveInv
    <3>2. pc[v] \notin Untouched
      <4>1. pc[v] \notin Ended => context.phase # "blocked"
        BY <1>1 DEF CopyInv, CopyOf
      <4>2. context.phase # "blocked" => pc[v] \in {"executing", "failing", "dead", "idle"}
        BY <2>1, <2>3 DEF LiveInv
      <4> QED
        BY <4>1, <4>2 DEF Ended, Untouched
    <3> QED
      BY <1>1, <2>1, <2>2, <2>3, <3>1, <3>2 DEF FreshOf
  <2>4. CASE v # w
    BY <1>1, <2>1, <2>2, <2>4 DEF FreshOf
  <2> QED
    BY <2>3, <2>4
<1>8. CASE Crash \/ Recover
  <2>1. /\ pc'[v] = "idle" /\ UNCHANGED edits
        /\ work'[v] = "queued" => work[v] = "queued"
    BY <1>1, <1>8 DEF Crash, Recover, HolderInv, TypeOK
  <2> QED
    BY <2>1, FreshIdle
<1> QED
  BY <1>2, <1>3, <1>4, <1>5, <1>6, <1>7, <1>8 DEF Next

-----------------------------------------------------------------------------
(* The invariant *)

LEMMA InitInvariant == Init => IInv
<1> SUFFICES ASSUME Init
             PROVE  IInv
  OBVIOUS
<1> USE DEF Init
<1>1. TypeOK
  <2>1. NoContext \in Contexts
    BY DEF NoContext, Contexts, Points
  <2>2. "queued" \in Phases /\ 0 \in 0..MaxCrashes
    BY RuntimeAssumption DEF Phases
  <2> QED
    BY <2>1, <2>2, ReceiptTypes, States DEF TypeOK
<1>2. HolderInv
  BY RuntimeAssumption DEF HolderInv, NoContext
<1>3. FenceInv
  BY DEF FenceInv, NoContext
<1>4. CopyInv
  BY DEF CopyInv, CopyOf, Ended, InStep, Mounted
<1>5. LiveInv /\ ReceiptInv
  BY DEF LiveInv, ReceiptInv
<1>6. \A w \in Works : receipt[w].state = "none" /\ receipt[w].point = NoPoint
  BY DEF NoReceipt
<1>7. \A w \in Works : ~IsCounted(w)
  BY <1>6 DEF IsCounted, Attested, Exited
<1>8. Told = {}
  BY <1>6 DEF Told, KnownPoints, NoContext
<1>9. FreshInv
  BY DEF FreshInv, Shells
<1>10. CursorInv /\ PointInv
  BY <1>7, <1>8 DEF CursorInv, PointInv
<1>11. SealedIsOnRecord
  BY <1>6 DEF SealedIsOnRecord
<1> QED
  BY <1>1, <1>2, <1>3, <1>4, <1>5, <1>9, <1>10, <1>11 DEF IInv

LEMMA InvariantStep == IInv /\ [Next]_vars => IInv'
<1> SUFFICES ASSUME IInv, [Next]_vars
             PROVE  IInv'
  OBVIOUS
<1>1. TypeOK'
  BY TypeStep DEF IInv
<1> QED
  BY <1>1, HolderStep, CopyStep, LiveStep, ReceiptStep, FreshStep, PointStep, SealedStep
  DEF IInv

\* IInv holds at every step: a fiber holds the row but for what it has not saved
\* (getContext, saveContext), and what may still write belongs to the holder.
THEOREM Invariant == Spec => []IInv
<1>1. Init => IInv
  BY InitInvariant
<1>2. IInv /\ [Next]_vars => IInv'
  BY InvariantStep
<1> QED
  BY <1>1, <1>2, PTL DEF Spec

\* A seal holds exactly the attested commands up to its cursor.
THEOREM SealsMatchCursors == Spec => []SealsMatchCursor
<1>1. IInv => SealsMatchCursor
  BY DEF IInv, PointInv, Told, IsCounted, CursorOf, SealsMatchCursor, Attested
<1> QED
  BY <1>1, Invariant, PTL

\* No two commands are told the same cursor.
THEOREM CursorsAreDistinct == Spec => []CursorsOrderCommands
<1>1. IInv => CursorsOrderCommands
  BY DEF IInv, CursorInv, IsCounted, CursorOf, CursorsOrderCommands, Attested
<1> QED
  BY <1>1, Invariant, PTL

\* A receipt never claims a seal that was not recorded.
THEOREM SealsAreOnRecord == Spec => []SealedIsOnRecord
<1>1. IInv => SealedIsOnRecord
  BY DEF IInv
<1> QED
  BY <1>1, Invariant, PTL

-----------------------------------------------------------------------------
(* The refinement *)

\* What Workspace sees of a context stays the same.
Unseen == UNCHANGED << context.phase, edits, context.step, context.lastSeal >>
LEMMA UnseenStutters ==
  ASSUME Unseen
  PROVE  UNCHANGED Promise!vars
  BY DEF Unseen, Promise!vars

LEMMA InitRefines == Init => Promise!Init
  BY DEF Init, Promise!Init, NoContext

\* Each save is one step of the workspace.
LEMMA SaveRefines ==
  ASSUME IInv, NEW w \in Works, SaveContext(w)
  PROVE  [Promise!Next]_(Promise!vars)
<1> USE DEF IInv, Promise!Next, Promise!vars, Promise!Mount, Promise!Advance,
           Promise!Seal, Promise!Park, Promise!Block
<1>1. /\ context \in Contexts /\ edits \in SUBSET Works /\ CopyOf(w)
      /\ context' = copy[w] /\ edits' = edits
  BY DEF TypeOK, CopyInv, SaveContext
<1>2. CASE pc[w] = "created"
  <2>1. context' = Ready(context) /\ context.phase = "unallocated"
    BY <1>1, <1>2 DEF CopyOf
  <2>2. /\ context'.phase = "ready" /\ context'.step = context.step
        /\ context'.lastSeal = context.lastSeal
    BY <1>1, <2>1, Fields
  <2> QED
    BY <1>1, <2>1, <2>2
<1>3. CASE pc[w] = "blocking"
  <2>1. context' = Blocked(context)
    BY <1>1, <1>3 DEF CopyOf
  <2>2. /\ context'.phase = "blocked" /\ context'.step = context.step
        /\ context'.lastSeal = context.lastSeal
    BY <1>1, <2>1, Fields
  <2> QED
    BY <1>1, <2>2
<1>4. CASE pc[w] = "mounted"
  <2>1. \/ context' = context
        \/ context' = Ready(context) /\ context.phase = "parked"
    BY <1>1, <1>4 DEF CopyOf
  <2>2. CASE context' = context
    BY <1>1, <2>2
  <2>3. CASE context' = Ready(context) /\ context.phase = "parked"
    <3>1. /\ context'.phase = "ready" /\ context'.step = context.step
          /\ context'.lastSeal = context.lastSeal
      BY <1>1, <2>3, Fields
    <3> QED
      BY <1>1, <2>3, <3>1
  <2> QED
    BY <2>1, <2>2, <2>3
<1>5. CASE pc[w] = "counting"
  <2>1. context' = Counted(context) /\ context.phase = "ready"
    BY <1>1, <1>5 DEF CopyOf, Mounted
  <2>2. /\ context'.phase = context.phase /\ context'.step = context.step + 1
        /\ context'.lastSeal = context.lastSeal
    BY <1>1, <2>1, Fields
  <2> QED
    BY <1>1, <2>1, <2>2
<1>6. CASE pc[w] = "sealing"
  <2>1. context' = SealedAs(context, edits) /\ context.phase = "ready"
    BY <1>1, <1>6 DEF CopyOf, Mounted
  <2>2. /\ context'.phase = context.phase /\ context'.step = context.step
        /\ context'.lastSeal = [tree |-> edits, step |-> context.step]
    BY <1>1, <2>1, SealFields
  <2> QED
    BY <1>1, <2>1, <2>2
<1>7. CASE pc[w] = "parked"
  <2>1. /\ context' = Parked(context) /\ context.phase = "ready"
        /\ context.lastSeal = [tree |-> edits, step |-> context.step]
    BY <1>1, <1>7 DEF CopyOf, Mounted
  <2>2. /\ context'.phase = "parked" /\ context'.step = context.step
        /\ context'.lastSeal = context.lastSeal
    BY <1>1, <2>1, Fields
  <2> QED
    BY <1>1, <2>1, <2>2
<1> QED
  BY <1>2, <1>3, <1>4, <1>5, <1>6, <1>7 DEF SaveContext, Saving

LEMMA StepRefines ==
  ASSUME IInv, [Next]_vars
  PROVE  [Promise!Next]_(Promise!vars)
<1> USE DEF IInv
<1>1. ASSUME Unseen
      PROVE  [Promise!Next]_(Promise!vars)
  BY <1>1, UnseenStutters
<1>2. ASSUME context.phase \in {"ready", "blocked"}, edits \subseteq edits',
             UNCHANGED context
      PROVE  [Promise!Next]_(Promise!vars)
  BY <1>2 DEF Promise!Next, Promise!Write
<1>3. ASSUME context'.phase = "blocked", context'.step = context.step,
             context'.lastSeal = context.lastSeal, UNCHANGED edits
      PROVE  [Promise!Next]_(Promise!vars)
  BY <1>3 DEF Promise!Next, Promise!Block
<1>4. CASE UNCHANGED vars
  BY <1>1, <1>4 DEF Unseen
<1>5. ASSUME NEW w \in Works, Run(w) \/ CompleteFails(w) \/ RecordFailureDies(w)
      PROVE  [Promise!Next]_(Promise!vars)
  <2>1. CASE SaveContext(w)
    BY <2>1, SaveRefines
  <2>2. CASE CommandExits(w)
    <3>1. UNCHANGED context /\ edits \subseteq edits' /\ context.phase = "ready"
      BY <2>2 DEF CommandExits, Continues, CopyInv, CopyOf, Mounted
    <3> QED
      BY <1>2, <3>1
  <2>3. CASE ~SaveContext(w) /\ ~CommandExits(w)
    <3>1. UNCHANGED context
      BY <1>5, <2>3, RunKeepsContext
    <3>2. UNCHANGED edits
      BY <1>5, <2>3 DEF Run, Inspect, AlreadyReady, Wake, Create, Seed, StartCommand,
        CommandStopped, CommandLost, Report, Capture, Park, TimesOut,
        SaveContextFails, SeedFails, CaptureFails, RunFails, CompleteFails,
        RecordFailureDies
    <3> QED
      BY <1>1, <3>1, <3>2 DEF Unseen
  <2> QED
    BY <2>1, <2>2, <2>3
<1>6. ASSUME NEW w \in Works, Claim(w)
      PROVE  [Promise!Next]_(Promise!vars)
  <2>1. Unseen
    BY <1>6, BusyFields DEF Claim, Unseen, TypeOK
  <2> QED
    BY <1>1, <2>1
<1>7. ASSUME NEW w \in Works, Refuse(w) \/ OrphanEnds(w)
      PROVE  [Promise!Next]_(Promise!vars)
  BY <1>1, <1>7 DEF Unseen, Refuse, OrphanEnds
<1>8. ASSUME NEW w \in Works, Complete(w) \/ RecordFailure(w)
      PROVE  [Promise!Next]_(Promise!vars)
  <2>1. /\ UNCHANGED edits /\ context.busy = w
        /\ context' \in {Released(w), Doubted(w)}
    BY <1>8, Alone DEF Complete, RecordFailure, SettleWith
  <2>2. CASE context' = Released(w)
    BY <1>1, <2>1, <2>2, SettledRow DEF Unseen
  <2>3. CASE context' = Doubted(w)
    <3>1. /\ context'.phase = "blocked" /\ context'.step = context.step
          /\ context'.lastSeal = context.lastSeal
      BY <2>1, <2>3, SettledRow
    <3> QED
      BY <1>3, <2>1, <3>1
  <2> QED
    BY <2>1, <2>2, <2>3
<1>9. ASSUME NEW w \in Works, Write(w)
      PROVE  [Promise!Next]_(Promise!vars)
  <2>1. UNCHANGED context /\ edits \subseteq edits' /\ w \in live
    BY <1>9 DEF Write
  <2>2. context.phase \in {"ready", "blocked"}
    BY <2>1 DEF LiveInv
  <2> QED
    BY <1>2, <2>1, <2>2
<1>10. CASE Crash
  BY <1>1, <1>10 DEF Unseen, Crash
<1>11. CASE Recover
  <2>1. UNCHANGED edits
    BY <1>11 DEF Recover
  <2>2. CASE context' = context
    BY <1>1, <2>1, <2>2 DEF Unseen
  <2>3. CASE \E n \in Nat : context' = Fenced(context, n)
    <3>1. /\ context'.phase = "blocked" /\ context'.step = context.step
          /\ context'.lastSeal = context.lastSeal
      BY <2>3, FencedFields DEF TypeOK
    <3> QED
      BY <1>3, <2>1, <3>1
  <2> QED
    BY <1>11, <2>2, <2>3, RecoveredRow
<1> QED
  BY <1>4, <1>5, <1>6, <1>7, <1>8, <1>9, <1>10, <1>11 DEF Next

\* A context is mounted, advanced, sealed, parked and blocked only as Workspace
\* allows, whatever fails in between.
THEOREM RuntimeImplementsWorkspace == Spec => ImplementsWorkspace
<1>1. Init => Promise!Init
  BY InitRefines
<1>2. IInv /\ [Next]_vars => [Promise!Next]_(Promise!vars)
  BY StepRefines
<1> QED
  BY <1>1, <1>2, Invariant, PTL DEF Spec, ImplementsWorkspace, Promise!Spec

-----------------------------------------------------------------------------
(* The seed, while no transaction fails *)

\* Where the Work is that holds a ready context whose seed is not complete: it
\* uploads the seed, or is about to block the context, or was lost on the way.
Seeding(w) ==
  \/ pc[w] \in {"seeding", "blocking"}
  \/ pc[w] = "failing" /\ error[w] = "uncertain"
  \/ pc[w] = "idle"
SeedInv ==
  \/ seeded = "yes"
  \/ context.phase \in {"unallocated", "blocked"}
  \/ /\ context.phase = "ready" /\ context.busy # None
     /\ \A w \in Works : context.busy = w => Seeding(w)

\* The fiber that seeds goes on, or leaves the context to be blocked.
LEMMA SeedRun ==
  ASSUME IInv, SeedInv, ~JournalFaults, NEW w \in Works,
         Run(w) \/ CompleteFails(w) \/ RecordFailureDies(w)
  PROVE  SeedInv'
<1> USE DEF IInv
<1>1. /\ pc[w] \notin {"idle", "dead"} /\ context.busy = w /\ CopyOf(w)
      /\ context \in Contexts /\ pc \in [Works -> FiberStates]
      /\ error \in [Works -> {"none", "fault", "uncertain"}] /\ w # None
  BY RunShape, Alone, RuntimeAssumption DEF TypeOK, CopyInv
<1>2. CASE seeded = "yes"
  <2>1. seeded' = "yes"
    BY <1>2 DEF Run, Inspect, AlreadyReady, Wake, Create, Seed, StartCommand, CommandExits,
      CommandStopped, CommandLost, Report, Capture, Park, TimesOut, SaveContext,
      SaveContextFails, SeedFails, CaptureFails, RunFails, CompleteFails, RecordFailureDies
  <2> QED
    BY <2>1 DEF SeedInv
<1>3. CASE seeded # "yes" /\ SaveContext(w)
  <2>1. context' = copy[w] /\ pc[w] \in Saving /\ pc' = [pc EXCEPT ![w] = AfterSave(w)]
    BY <1>3 DEF SaveContext
  <2>2. CASE pc[w] = "created"
    <3>1. context' = Ready(context) /\ pc'[w] = "seeding"
      BY <1>1, <2>1, <2>2 DEF CopyOf, AfterSave
    <3>2. context'.phase = "ready" /\ context'.busy = w
      BY <1>1, <3>1, Fields
    <3> QED
      BY <1>1, <3>1, <3>2 DEF SeedInv, Seeding
  <2>3. CASE pc[w] = "blocking"
    <3>1. context' = Blocked(context)
      BY <1>1, <2>1, <2>3 DEF CopyOf
    <3> QED
      BY <1>1, <3>1, Fields DEF SeedInv
  <2>4. CASE pc[w] \in {"mounted", "counting", "sealing", "parked"}
    <3>1. context.phase \in {"ready", "parked"} /\ ~Seeding(w)
      BY <1>1, <2>4, Fields DEF CopyOf, Mounted, Seeding
    <3> QED
      BY <1>1, <1>3, <3>1 DEF SeedInv
  <2> QED
    BY <2>1, <2>2, <2>3, <2>4 DEF Saving
<1>4. CASE seeded # "yes" /\ ~SaveContext(w)
  <2>1. context' = context
    BY <1>4, RunKeepsContext
  <2>2. CASE context.phase \in {"unallocated", "blocked"}
    BY <2>1, <2>2 DEF SeedInv
  <2>3. CASE context.phase \notin {"unallocated", "blocked"}
    <3>1. /\ context.phase = "ready"
          /\ pc[w] \in {"seeding", "blocking"} \/ (pc[w] = "failing" /\ error[w] = "uncertain")
      BY <1>1, <1>4, <2>3 DEF SeedInv, Seeding
    <3>2. ASSUME pc[w] = "blocking" PROVE ~Stale(copy[w])
      <4>1. copy[w] = Blocked(context)
        BY <1>1, <3>2 DEF CopyOf
      <4>2. copy[w].busy = context.busy /\ copy[w].epoch = context.epoch /\ context.epoch \in Nat
        BY <1>1, <4>1, Fields DEF Contexts
      <4> QED
        BY <4>2 DEF Stale
    <3>3. \/ seeded' = "yes"
          \/ pc'[w] = "blocking"
          \/ pc'[w] = "failing" /\ error'[w] = "uncertain"
      <4>1. Seed(w) \/ TimesOut(w) \/ \E e \in {"fault", "uncertain"} : SeedFails(w, e)
        BY <1>4, <3>1, <3>2 DEF Run, Inspect, AlreadyReady, Wake, Create, StartCommand,
          CommandExits, CommandStopped, CommandLost, Report, Capture, Capturing, Park,
          SaveContextFails, Saving, CaptureFails, RunFails, CompleteFails, RecordFailureDies,
          Continues, Fails
      <4> QED
        BY <1>1, <4>1 DEF Seed, TimesOut, SeedFails, Continues, Fails
    <3> QED
      BY <1>1, <2>1, <3>1, <3>3 DEF SeedInv, Seeding
  <2> QED
    BY <2>2, <2>3
<1> QED
  BY <1>2, <1>3, <1>4

LEMMA SeedStep ==
  ASSUME IInv, SeedInv, ~JournalFaults, [Next]_vars
  PROVE  SeedInv'
<1> USE DEF IInv
<1>1. CASE UNCHANGED vars
  BY <1>1 DEF SeedInv, Seeding
<1>2. ASSUME NEW w \in Works, Run(w) \/ CompleteFails(w) \/ RecordFailureDies(w)
      PROVE  SeedInv'
  BY <1>2, SeedRun
<1>3. ASSUME NEW w \in Works, Claim(w)
      PROVE  SeedInv'
  <2>1. context.busy = None /\ context.phase # "blocked" /\ seeded' = seeded
        /\ context' = [context EXCEPT !.busy = w]
    BY <1>3 DEF Claim, Claimable
  <2>2. context'.phase = context.phase
    BY <2>1, BusyFields DEF TypeOK
  <2> QED
    BY <2>1, <2>2 DEF SeedInv
<1>4. ASSUME NEW w \in Works, Refuse(w) \/ Write(w) \/ OrphanEnds(w)
      PROVE  SeedInv'
  BY <1>4 DEF Refuse, Write, OrphanEnds, SeedInv, Seeding
<1>5. ASSUME NEW w \in Works, Complete(w) \/ RecordFailure(w)
      PROVE  SeedInv'
  <2>1. /\ pc[w] \in {"settling", "sealFailed", "failing"} /\ context.busy = w
        /\ seeded' = seeded /\ context' \in {Released(w), Doubted(w)}
        /\ pc[w] = "failing" /\ error[w] = "uncertain" => context' = Doubted(w)
    BY <1>5, Alone DEF Complete, RecordFailure, SettleWith
  <2>2. CASE context' = Doubted(w)
    BY <2>1, <2>2, SettledRow DEF SeedInv
  <2>3. CASE context' # Doubted(w)
    <3>1. context'.phase = context.phase
      BY <2>1, <2>3, SettledRow
    <3>2. ~Seeding(w)
      BY <2>1, <2>3 DEF Seeding
    <3> QED
      BY <2>1, <3>1, <3>2 DEF SeedInv
  <2> QED
    BY <2>2, <2>3
<1>6. CASE Crash
  <2>1. seeded' = seeded /\ context' = context /\ \A w \in Works : pc'[w] = "idle"
    BY <1>6 DEF Crash
  <2> QED
    BY <2>1 DEF SeedInv, Seeding
<1>7. CASE Recover
  <2>1. UNCHANGED << seeded, pc, error >>
    BY <1>7 DEF Recover
  <2>2. CASE context' = context
    BY <2>1, <2>2 DEF SeedInv, Seeding
  <2>3. CASE \E n \in Nat : context' = Fenced(context, n)
    BY <2>3, FencedFields DEF TypeOK, SeedInv
  <2> QED
    BY <1>7, <2>2, <2>3, RecoveredRow
<1> QED
  BY <1>1, <1>2, <1>3, <1>4, <1>5, <1>6, <1>7 DEF Next

\* As long as no transaction fails, a context whose seed was not uploaded in full
\* is blocked or still held by the Work that seeds it, through time-outs, errors
\* of the provider and crashes (856-870): two failures are needed for a Work to be
\* given part of a seed.
THEOREM SeedsAreComplete ==
  ASSUME ~JournalFaults
  PROVE  Spec => []SeedIsComplete
<1>1. Init => SeedInv
  BY DEF Init, SeedInv, NoContext
<1>2. IInv /\ SeedInv /\ [Next]_vars => SeedInv'
  BY SeedStep
<1>3. SeedInv => SeedIsComplete
  BY DEF SeedInv, SeedIsComplete
<1> QED
  BY <1>1, <1>2, <1>3, Invariant, PTL DEF Spec
=============================================================================
