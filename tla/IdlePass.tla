------------------------------ MODULE IdlePass ------------------------------
(***************************************************************************)
(* How idle contexts are put to sleep: the last part of the scheduler's    *)
(* pass (src/src/platform.ts:1590-1626), with as much of a context as it   *)
(* reads, and the commands and sleeps that run on it in the meantime.      *)
(*                                                                         *)
(* The pass reads all contexts by one transaction and asks for the sleep   *)
(* of each by two others, so that what it read is old by then.  It takes   *)
(* them in the order of the rows, which changes only when a row is saved.  *)
(* A failure of any of them ends the pass, and so does an actor who may    *)
(* not manage contexts, every time; the schedule starts another one.  What *)
(* is asked for twice under the same key is done once (Admission).         *)
(***************************************************************************)
EXTENDS Naturals, Sequences
LOCAL INSTANCE SequencesExt

CONSTANTS
  Contexts,
  MaxPoint   \* bound: the epochs and the steps that are counted

VARIABLES
  actor,    \* what policy says of the actor of the Work that the pass finds for a
            \* context: "granted", "denied" context.manage, or "unknown"; for good,
            \* although another Work of it may be found another time
  row,      \* the context rows, and whether idleMs have passed since lastActive
  order,    \* the order in which a SELECT with no ORDER BY returns them
  keys,     \* the request keys of context.sleep that are taken
  queued,   \* the contexts with a context.sleep that waits to be claimed
  pass,     \* the pass: claims and releases before, then its idle contexts
  asked     \* history: the points of contexts at which a sleep was admitted

passVars == <<actor, row, order, keys, queued, pass, asked>>

Row == [phase : {"ready", "parked", "blocked"},
        busy : {"free", "command", "sleep"},
        idle : BOOLEAN, epoch : 0..MaxPoint, step : 0..MaxPoint]
Point(c) == <<c, row[c].epoch, row[c].step>>
Points == Contexts \X (0..MaxPoint) \X (0..MaxPoint)

\* Mutant: the epoch is not part of the key.
KeyOfStep(p) == <<p[1], p[3]>>
Key(p) == <<p[1], p[2], p[3]>>

IdleAndFree(c) == row[c].phase = "ready" /\ row[c].busy = "free" /\ row[c].idle

PassTypeOK ==
  /\ actor \in [Contexts -> {"granted", "denied", "unknown"}]
  /\ row \in [Contexts -> Row]
  /\ order \in SetToSeqs(Contexts)
  /\ keys \subseteq {Key(p) : p \in Points} /\ asked \subseteq Points
  /\ queued \subseteq Contexts
  /\ pass \in [pc : {"before", "contexts"}, todo : Seq(Points)]

PassInit ==
  /\ actor \in [Contexts -> {"granted", "denied", "unknown"}]
  /\ row = [c \in Contexts |-> [phase |-> "ready", busy |-> "free", idle |-> FALSE,
                                epoch |-> 0, step |-> 0]]
  /\ order \in SetToSeqs(Contexts)
  /\ keys = {} /\ queued = {} /\ asked = {}
  /\ pass = [pc |-> "before", todo |-> <<>>]

-----------------------------------------------------------------------------
(* The pass *)

ReadContexts ==
  /\ pass.pc = "before"
  /\ LET idle == SelectSeq(order, IdleAndFree)
     IN  pass' = [pc |-> "contexts", todo |-> [i \in DOMAIN idle |-> Point(idle[i])]]
  /\ UNCHANGED <<actor, row, order, keys, queued, asked>>

\* The next context of the pass, whose actor policy looks up.
Comes(c, standing) ==
  /\ pass.pc = "contexts" /\ pass.todo # <<>>
  /\ c = Head(pass.todo)[1] /\ actor[c] = standing

\* submit, of a key that is new or of one that is taken.
Ask(c) ==
  LET p == Head(pass.todo)
  IN  /\ Comes(c, "granted")
      /\ pass' = [pass EXCEPT !.todo = Tail(@)]
      /\ keys' = keys \cup {Key(p)}
      /\ IF Key(p) \in keys THEN UNCHANGED <<queued, asked>>
         ELSE queued' = queued \cup {c} /\ asked' = asked \cup {p}
      /\ UNCHANGED <<actor, row, order>>

Skip(c) ==
  /\ Comes(c, "unknown")
  /\ pass' = [pass EXCEPT !.todo = Tail(@)]
  /\ UNCHANGED <<actor, row, order, keys, queued, asked>>

PassEnds ==
  /\ pass.pc = "contexts" /\ pass.todo = <<>>
  /\ pass' = [pass EXCEPT !.pc = "before"]
  /\ UNCHANGED <<actor, row, order, keys, queued, asked>>

\* What fails takes the contexts that come after it along.
PassStops ==
  /\ pass.pc = "contexts"
  /\ pass' = [pc |-> "before", todo |-> <<>>]
  /\ UNCHANGED <<actor, row, order, keys, queued, asked>>

\* submit refuses an actor without the grant (DENIED), as often as it is asked.
Refuse(c) == Comes(c, "denied") /\ PassStops

\* Any of its transactions may fail.
PassFails == PassStops

-----------------------------------------------------------------------------
(* Contexts *)

BecomeIdle(c) ==
  /\ row[c].busy = "free" /\ ~row[c].idle
  /\ row' = [row EXCEPT ![c].idle = TRUE]
  /\ UNCHANGED <<actor, order, keys, queued, pass, asked>>

\* A row that is saved may come anywhere among the others.
Save(c) ==
  \E i \in 1..Len(order) : order' = InsertAt(Remove(order, c), i, c)

\* A command or a sleep is claimed, and wakes the context if it is parked.
Use(c, work) ==
  /\ row[c].busy = "free" /\ row[c].phase # "blocked"
  /\ row[c].epoch < MaxPoint /\ row[c].step < MaxPoint
  /\ work = "sleep" => c \in queued
  /\ queued' = IF work = "sleep" THEN queued \ {c} ELSE queued
  /\ row' = [row EXCEPT ![c].busy = work, ![c].idle = FALSE, ![c].phase = "ready",
               ![c].epoch = IF row[c].phase = "parked" THEN @ + 1 ELSE @]
  /\ Save(c)
  /\ UNCHANGED <<actor, keys, pass, asked>>

\* It completes; or it fails and leaves the context as it is; or it is lost.
Finish(c) ==
  /\ row[c].busy # "free"
  /\ \/ row' = [row EXCEPT ![c].busy = "free",
                  ![c].step = IF row[c].busy = "command" THEN @ + 1 ELSE @,
                  ![c].phase = IF row[c].busy = "sleep" THEN "parked" ELSE @]
     \/ row' = [row EXCEPT ![c].busy = "free"]
     \/ row' = [row EXCEPT ![c].phase = "blocked"]
  /\ Save(c)
  /\ UNCHANGED <<actor, keys, queued, pass, asked>>

PassNext ==
  \/ ReadContexts \/ PassEnds \/ PassFails
  \/ \E c \in Contexts : \/ Ask(c) \/ Skip(c) \/ Refuse(c)
                         \/ BecomeIdle(c) \/ Finish(c)
                         \/ \E work \in {"command", "sleep"} : Use(c, work)

(* The schedule starts pass after pass.  The database may fail a pass any  *)
(* number of times, but not for ever at the same context; one whose actor  *)
(* may not ask ends the pass whenever it comes.                            *)
PassFairness ==
  /\ WF_passVars(ReadContexts) /\ WF_passVars(PassEnds)
  /\ \A c \in Contexts : /\ SF_passVars(Ask(c)) /\ SF_passVars(Skip(c))
                         /\ WF_passVars(Refuse(c))

PassSpec == PassInit /\ [][PassNext]_passVars /\ PassFairness

-----------------------------------------------------------------------------

\* An idle context before c whose caller may not ask ends every pass before c.
Shadowed(c) ==
  \E i, j \in DOMAIN order :
    /\ i < j /\ order[j] = c
    /\ IdleAndFree(order[i]) /\ actor[order[i]] = "denied"

\* A context that is free and idle at a point of its life where nobody asked it
\* to sleep yet is asked in the end, unless it stops being so or comes behind one
\* that is refused (1593-1625): others may fail the pass before it, and it may
\* have been asked before it was woken for a command that failed and moved no
\* step.  After a sleep that fails nothing asks again at the same point (1622).
Waits(c) == IdleAndFree(c) /\ Point(c) \notin asked /\ actor[c] = "granted"
IdleContextsAreAsked ==
  \A c \in Contexts :
    (Waits(c) /\ ~Shadowed(c)) ~> (~Waits(c) \/ Shadowed(c))
=============================================================================
