---------------------- MODULE ContextRuntimeInvariant ----------------------
(***************************************************************************)
(* The inductive invariant of ContextRuntime: who holds the context, how   *)
(* the copy in memory differs from the row at each step of a fiber, when a *)
(* process may still write, and which commands a cursor counts.            *)
(***************************************************************************)
EXTENDS ContextRuntime

Ended == {"idle", "failing", "dead"}
InStep == {"ensure", "seeding", "act", "executing", "capturing", "parking",
           "settling"}
Mounted == {"seeding", "blocking", "act", "executing", "counting", "capturing",
            "sealing", "parking", "parked", "sealFailed"}

\* A Work that runs holds the context, and one that may have been lost keeps it.
HolderInv ==
  \A w \in Works :
    /\ pc[w] # "idle" => up /\ work[w] = "running"
    /\ work[w] = "running" => context.busy = w
    /\ work[w] = "running" /\ pc[w] = "idle" => ~up
    /\ context.busy = w => work[w] \in {"running", "reconciling"}
    /\ context.busy = w /\ work[w] = "reconciling" => context.phase = "blocked"

\* The allocation of a ready context is of the epoch of the row.
FenceInv == context.phase = "ready" => context.generation = context.epoch

\* A fiber under way holds the row, but for what it has not saved yet.
CopyOf(w) ==
  /\ pc[w] \notin Ended => context.phase # "blocked"
  /\ pc[w] \in InStep => copy[w] = context
  /\ pc[w] \in Mounted => context.phase = "ready"
  /\ pc[w] = "created" =>
       context.phase = "unallocated" /\ copy[w] = Ready(context)
  /\ pc[w] = "blocking" => copy[w] = Blocked(context)
  /\ pc[w] = "mounted" =>
       \/ copy[w] = context /\ context.phase = "ready"
       \/ copy[w] = Ready(context) /\ context.phase = "parked"
  /\ pc[w] = "counting" => copy[w] = Counted(context)
  /\ pc[w] = "sealing" => copy[w] = SealedAs(context, edits)
  /\ pc[w] \in {"parking", "parked"} =>
       context.lastSeal = [tree |-> edits, step |-> context.step]
  /\ pc[w] = "parked" => copy[w] = Parked(context)
  /\ pc[w] = "sealFailed" =>
       /\ copy[w].step = context.step
       /\ copy[w].lastSeal \in {context.lastSeal, [tree |-> edits, step |-> context.step]}
  /\ pc[w] \in {"executing", "counting"} => w \in Shells
  /\ pc[w] \in {"capturing", "sealFailed"} => Kind[w] = "sealedShell"
  /\ pc[w] \in {"parking", "parked"} => Kind[w] = "sleep"
  /\ pc[w] = "sealing" => Kind[w] \in {"sealedShell", "seal", "sleep"}
  /\ pc[w] = "settling" /\ Kind[w] \in {"sealedShell", "seal", "sleep"}
       /\ ~(Kind[w] = "sleep" /\ context.phase = "unallocated") =>
       context.lastSeal # NoPoint
CopyInv == \A w \in Works : CopyOf(w)

\* What may still write belongs to the Work that holds the context, which has not
\* come to an end it knows of, unless the context is blocked.
LiveInv ==
  \A w \in live :
    /\ work[w] # "queued"
    /\ context.phase # "blocked" =>
         /\ context.phase = "ready" /\ work[w] = "running"
         /\ pc[w] \in {"executing", "failing", "dead", "idle"}
         /\ pc[w] = "failing" => error[w] = "uncertain"

\* The commands a cursor counts, and the cursor of each.
Exited == {"capturing", "sealing", "settling", "sealFailed"}
IsCounted(w) == w \in Shells /\ (Attested(w) \/ pc[w] \in Exited)
CursorOf(w) == IF Attested(w) THEN receipt[w].step ELSE copy[w].step
\* The seals that somebody was told of, or is about to be.
Told ==
  (KnownPoints \cup {copy[w].lastSeal : w \in {v \in Works : pc[v] = "sealFailed"}})
    \ {NoPoint}

\* A Work is told of the state once, when it settles.
ReceiptInv ==
  \A w \in Works : work[w] # "settled" => receipt[w] = NoReceipt

\* A command leaves no trace before it starts, and is in no seal before it exits.
FreshInv ==
  \A w \in Shells :
    /\ work[w] = "queued" => w \notin edits
    /\ pc[w] \in {"inspect", "ensure", "created", "seeding", "blocking",
                  "mounted", "act"} => w \notin edits
    /\ pc[w] \in {"executing", "counting"} =>
         \A p \in Told : w \notin p.tree
    /\ pc[w] = "counting" => w \in edits

\* Cursors count up, and seals hold what was counted.
CursorInv ==
  /\ \A w \in Works : IsCounted(w) => w \in edits /\ CursorOf(w) <= context.step
  /\ \A v, w \in Works :
       IsCounted(v) /\ IsCounted(w) /\ v # w => CursorOf(v) # CursorOf(w)

PointInv ==
  \A p \in Told :
    /\ p.tree \subseteq edits /\ p.step <= context.step
    /\ \A w \in Works : IsCounted(w) => (w \in p.tree <=> CursorOf(w) <= p.step)

IInv ==
  /\ TypeOK /\ HolderInv /\ FenceInv /\ CopyInv /\ LiveInv /\ ReceiptInv /\ FreshInv
  /\ CursorInv /\ PointInv /\ SealedIsOnRecord
=============================================================================
