------------------------------ MODULE Admission ------------------------------
(***************************************************************************)
(* How requests of clients enter the journal: submissions (admit),         *)
(* bindings of a thread to a context (bind), the default connections of a  *)
(* thread (configureTools), and the contexts that context.ensure creates   *)
(* (src/src/platform.ts:158-238, 274-461, 1207-1243, 1627-1680).           *)
(*                                                                         *)
(* A request is one HTTP call.  Its client may have sent it before, under  *)
(* the same key: the answer of the first was lost, or is late.  Between    *)
(* the transactions of a request anything else may happen, the remote      *)
(* discovery of MCP tools above all.  A transaction may fail as a whole,   *)
(* and its reply may be lost after it was committed.  All is in one        *)
(* tenant, as keys are.  WorkManager has the rest of the life of a Work.   *)
(***************************************************************************)
EXTENDS Naturals, Sequences

CONSTANTS
  Requests,     \* the requests that clients send; a retry is another one
  Asks,         \* what requests ask for, a set of records as in AskType
  Principals,   \* the callers: an actor in a thread
  ThreadOf,     \* Principals -> Threads
  Grants,       \* Principals -> the operations the principal may ask for
  Threads, Keys, Connections, Names, Specs,
  None,         \* nothing
  Refused, Lost,\* the answers without an outcome: a fault, and none at all
  Ensured,      \* the contexts that there are at first
  MaxCrashes    \* bound: how often the coordinator stops

Submissions == {"code", "command", "ensure"}
Ops == Submissions \cup {"bind", "configure"}

AskType == [
  op : Ops, by : Principals, key : Keys,
  explicit : BOOLEAN,                \* whether a program names its connections
  connections : SUBSET Connections,  \* of a program, or to be the defaults
  context : Nat,                     \* the context a command or a bind names
  revision : Nat,                    \* the binding it goes through, 0 for none;
                                     \* or the revision that it expects
  thread : Threads,                  \* in a bound target; the owner to be of
  name : Names, spec : Specs]        \* a context to ensure

ASSUME AdmissionAssumption ==
  /\ Asks \subseteq AskType
  /\ ThreadOf \in [Principals -> Threads]
  /\ Grants \in [Principals -> SUBSET Ops]
  /\ Ensured \in Seq([owner : Threads, name : Names, spec : Specs])
  /\ \A c, d \in DOMAIN Ensured :
       Ensured[c].owner = Ensured[d].owner /\ Ensured[c].name = Ensured[d].name => c = d
  /\ MaxCrashes \in Nat

VARIABLES
  \* Rows of the journal.
  works,      \* the Works in the order of their admission; an id is an index
  contexts,   \* the contexts, likewise
  binding,    \* Threads -> the contexts it was bound to; the row is the last,
              \* and its revision is their number
  bindings,   \* the binding_request rows
  tools,      \* Threads -> its default connections; the row as for bindings
  \* The requests.
  ask,        \* Requests -> what it asks for
  pc,         \* Requests -> how far the coordinator is with it
  frozen,     \* Requests -> the connections that a program was given
  promised,   \* history: whether the key held the payload when it was sent
  answer,     \* Requests -> what its client was told
  crashes

rows == <<works, contexts, binding, bindings, tools>>
calls == <<ask, pc, frozen, promised, answer>>
vars == <<rows, calls, crashes>>

-----------------------------------------------------------------------------
(* Shapes and lookups *)

WorkPhases == {"queued", "running", "found", "settled", "reconciling"}
Frozen == [connections : SUBSET Connections, revision : Nat, explicit : BOOLEAN]
NoTools == [connections |-> {}, revision |-> 0, explicit |-> TRUE]
WorkType == [ask : Asks, tools : Frozen, phase : WorkPhases,
             found : Nat]     \* the context that context.ensure came to
ContextType == [owner : Threads, name : Names, spec : Specs]
BindingType == [ask : Asks, revision : Nat, context : Nat]

Thread(r) == ThreadOf[ask[r].by]
Payload(a) == <<a.op, a.explicit, a.connections, a.context, a.revision,
                a.thread, a.name, a.spec>>
\* The row of a Work is looked up by the key of its tenant alone.
ByKey(key) == {i \in DOMAIN works : works[i].ask.key = key}
PriorBindings(key) == {b \in bindings : b.ask.key = key}
\* access and the comparison of digests, of a row that was found.
Same(a, b) == ThreadOf[a.by] = ThreadOf[b.by] /\ Payload(a) = Payload(b)
Revision(row) == Len(row)
\* Mutant: a later revision will do.
ExpectedOrOlder(row, revision) == Revision(row) >= revision
\* The revision that a request expects is that of the row it is to replace.
Expected(row, revision) == Revision(row) = revision
Owns(t, c) == c \in DOMAIN contexts /\ contexts[c].owner = t
Granted(r) == ask[r].op \in Grants[ask[r].by]

TypeOK ==
  /\ works \in Seq(WorkType) /\ contexts \in Seq(ContextType)
  /\ binding \in [Threads -> Seq(Nat)]
  /\ bindings \subseteq BindingType
  /\ tools \in [Threads -> Seq(SUBSET Connections)]
  /\ ask \in [Requests -> Asks \cup {None}]
  /\ pc \in [Requests -> {"new", "sent", "defaults", "freeze", "admit", "done"}]
  /\ \A r \in Requests : pc[r] # "new" => ask[r] \in Asks
  /\ frozen \in [Requests -> Frozen]
  /\ promised \in [Requests -> BOOLEAN]
  /\ DOMAIN answer = Requests
  /\ crashes \in Nat

Init ==
  /\ works = <<>> /\ contexts = Ensured
  /\ binding = [t \in Threads |-> <<>>] /\ bindings = {}
  /\ tools = [t \in Threads |-> <<>>]
  /\ ask = [r \in Requests |-> None] /\ pc = [r \in Requests |-> "new"]
  /\ frozen = [r \in Requests |-> NoTools]
  /\ promised = [r \in Requests |-> FALSE]
  /\ answer = [r \in Requests |-> None]
  /\ crashes = 0

-----------------------------------------------------------------------------
(* Requests *)

\* The payload of a bind does not name the thread.
Recorded(a) ==
  IF a.op = "bind"
  THEN a.op \in Grants[a.by] /\ \E b \in PriorBindings(a.key) : Payload(b.ask) = Payload(a)
  ELSE \E i \in ByKey(a.key) : Same(works[i].ask, a)

Send(r, a) ==
  /\ pc[r] = "new"
  /\ pc' = [pc EXCEPT ![r] = "sent"] /\ ask' = [ask EXCEPT ![r] = a]
  /\ promised' = [promised EXCEPT ![r] = Recorded(a)]
  /\ UNCHANGED <<rows, frozen, answer, crashes>>

Answer(r, outcome) ==
  /\ pc' = [pc EXCEPT ![r] = "done"] /\ answer' = [answer EXCEPT ![r] = outcome]
  /\ UNCHANGED <<ask, frozen, promised, crashes>>

\* The answer of a transaction that was committed may be lost.
Reply(r, outcome) == \E told \in {outcome, Lost} : Answer(r, told)

WorkRef(i) == [id |-> i]

\* admit and lookupSubmission return a Work that is there, or say why not.
Found(r) == \E i \in ByKey(ask[r].key) :
  /\ Answer(r, IF Same(works[i].ask, ask[r]) THEN WorkRef(i) ELSE Refused)
  /\ UNCHANGED rows

Proceed(r, to) ==
  /\ pc' = [pc EXCEPT ![r] = to]
  /\ UNCHANGED <<rows, ask, promised, answer, crashes>>

\* Mutant: the lookup is left to admit, after the discovery.
LookupLate(r) ==
  /\ pc[r] = "sent" /\ ask[r].op \in Submissions
  /\ \/ ~Granted(r) /\ Answer(r, Refused) /\ UNCHANGED rows
     \/ /\ Granted(r)
        /\ Proceed(r, IF ask[r].op = "code" THEN "defaults" ELSE "admit")
        /\ UNCHANGED frozen
Lookup(r) ==
  /\ pc[r] = "sent" /\ ask[r].op \in Submissions
  /\ \/ Found(r)
     \/ /\ ByKey(ask[r].key) = {} /\ ~Granted(r)
        /\ Answer(r, Refused) /\ UNCHANGED rows
     \/ /\ ByKey(ask[r].key) = {} /\ Granted(r)
        /\ Proceed(r, IF ask[r].op = "code" THEN "defaults" ELSE "admit")
        /\ UNCHANGED frozen

\* The defaults are read by a transaction, whether the program needs them or not.
Selection(r) ==
  LET row == tools[Thread(r)]
  IN IF ask[r].explicit
     THEN [connections |-> ask[r].connections, revision |-> 0, explicit |-> TRUE]
     ELSE [connections |-> IF row = <<>> THEN {} ELSE row[Len(row)],
           revision |-> Revision(row), explicit |-> FALSE]

ReadDefaults(r) ==
  /\ pc[r] = "defaults"
  /\ frozen' = [frozen EXCEPT ![r] = Selection(r)]
  /\ Proceed(r, "freeze")

Freeze(r) == pc[r] = "freeze" /\ Proceed(r, "admit") /\ UNCHANGED frozen

FreezeFails(r) == pc[r] = "freeze" /\ Answer(r, Refused) /\ UNCHANGED rows

\* The binding that admit reads still has the revision of the target.
BoundTo(a, t) ==
  /\ a.thread = t /\ Revision(binding[t]) = a.revision
  /\ binding[t][a.revision] = a.context

Admissible(r) ==
  LET a == ask[r]
      t == Thread(r)
  IN /\ a.op = "command" => /\ Owns(t, a.context)
                            /\ a.revision > 0 => BoundTo(a, t)
     /\ a.op = "ensure" => a.thread = t

\* Mutant: the revision is read when the Work is admitted.
NewWorkLate(r) ==
  [ask |-> ask[r], tools |-> [frozen[r] EXCEPT !.revision = Revision(tools[Thread(r)])],
   phase |-> "queued", found |-> 0]
NewWork(r) == [ask |-> ask[r], tools |-> frozen[r], phase |-> "queued", found |-> 0]

Admit(r) ==
  /\ pc[r] = "admit"
  /\ \/ Found(r)
     \/ /\ ByKey(ask[r].key) = {} /\ ~Admissible(r)
        /\ Answer(r, Refused) /\ UNCHANGED rows
     \/ /\ ByKey(ask[r].key) = {} /\ Admissible(r)
        /\ works' = Append(works, NewWork(r))
        /\ Reply(r, WorkRef(Len(works) + 1))
        /\ UNCHANGED <<contexts, binding, bindings, tools>>

Bound(b) == [revision |-> b.revision, context |-> b.context]

Bind(r) ==
  LET a == ask[r]
      t == Thread(r)
      row == [ask |-> a, revision |-> Revision(binding[t]) + 1, context |-> a.context]
  IN /\ pc[r] = "sent" /\ a.op = "bind"
     /\ \/ /\ ~Granted(r)
           /\ Answer(r, Refused) /\ UNCHANGED rows
        \/ /\ Granted(r)
           /\ \E b \in PriorBindings(a.key) :
                Answer(r, IF Payload(b.ask) = Payload(a) THEN Bound(b) ELSE Refused)
           /\ UNCHANGED rows
        \/ /\ Granted(r) /\ PriorBindings(a.key) = {}
           /\ ~Owns(t, a.context) \/ ~Expected(binding[t], a.revision)
           /\ Answer(r, Refused) /\ UNCHANGED rows
        \/ /\ Granted(r) /\ PriorBindings(a.key) = {}
           /\ Owns(t, a.context) /\ Expected(binding[t], a.revision)
           /\ binding' = [binding EXCEPT ![t] = Append(@, a.context)]
           /\ bindings' = bindings \cup {row}
           /\ Reply(r, Bound(row))
           /\ UNCHANGED <<works, contexts, tools>>

Configure(r) ==
  LET a == ask[r]
      t == Thread(r)
  IN /\ pc[r] = "sent" /\ a.op = "configure"
     /\ \/ /\ ~Granted(r) \/ ~Expected(tools[t], a.revision)
           /\ Answer(r, Refused) /\ UNCHANGED rows
        \/ /\ Granted(r) /\ Expected(tools[t], a.revision)
           /\ tools' = [tools EXCEPT ![t] = Append(@, a.connections)]
           /\ Reply(r, [revision |-> a.revision + 1])
           /\ UNCHANGED <<works, contexts, binding, bindings>>

JournalFails(r) ==
  /\ pc[r] \in {"sent", "defaults", "admit"}
  /\ Answer(r, Lost) /\ UNCHANGED rows

-----------------------------------------------------------------------------
(* context.ensure, once its Work runs *)

Named(a) == {c \in DOMAIN contexts : contexts[c].owner = a.thread /\ contexts[c].name = a.name}

\* Mutant: any context of the name will do.
SameSpecUnseen(c, a) == c \in Named(a)
SameSpec(c, a) == contexts[c].spec = a.spec

Move(i, to, c) == works' = [works EXCEPT ![i] = [@ EXCEPT !.phase = to, !.found = c]]

Ensure(i) ==
  LET a == works[i].ask
  IN /\ works[i].phase = "queued" /\ a.op = "ensure"
     /\ \/ /\ Named(a) = {}
           /\ contexts' = Append(contexts,
                [owner |-> a.thread, name |-> a.name, spec |-> a.spec])
           /\ Move(i, "found", Len(contexts) + 1)
        \/ \E c \in Named(a) :
             /\ IF SameSpec(c, a) THEN Move(i, "found", c) ELSE Move(i, "settled", 0)
             /\ UNCHANGED contexts
        \/ Move(i, "settled", 0) /\ UNCHANGED contexts  \* no seed, or no transaction
     /\ UNCHANGED <<binding, bindings, tools, calls, crashes>>

EnsureEnds(i) ==
  /\ works[i].phase = "found"
  /\ \/ Move(i, "settled", works[i].found)
     \/ Move(i, "settled", 0)  \* the transaction of completed failed, and fail settles
  /\ UNCHANGED <<contexts, binding, bindings, tools, calls, crashes>>

-----------------------------------------------------------------------------
(* The coordinator stops, and starts again *)

Crash ==
  /\ crashes < MaxCrashes /\ crashes' = crashes + 1
  /\ pc' = [r \in Requests |-> IF pc[r] = "new" THEN "new" ELSE "done"]
  /\ answer' = [r \in Requests |->
       IF pc[r] \in {"new", "done"} THEN answer[r] ELSE Lost]
  /\ works' = [i \in DOMAIN works |->
       IF works[i].phase = "found"
       THEN [works[i] EXCEPT !.phase = "reconciling", !.found = 0] ELSE works[i]]
  /\ UNCHANGED <<contexts, binding, bindings, tools, ask, frozen, promised>>

Next ==
  \/ \E r \in Requests :
       \/ \E a \in Asks : Send(r, a)
       \/ Lookup(r) \/ ReadDefaults(r) \/ Freeze(r) \/ FreezeFails(r) \/ Admit(r)
       \/ Bind(r) \/ Configure(r) \/ JournalFails(r)
  \/ \E i \in DOMAIN works : Ensure(i) \/ EnsureEnds(i)
  \/ Crash

Spec == Init /\ [][Next]_vars

-----------------------------------------------------------------------------
(* Properties *)

\* What clients are told of a key is what was recorded under it, once: the
\* abstract Ledger, with a slot per key in the table of Works and per key in
\* that of binding requests.  A repeat is never refused for what changed since:
\* a binding, the defaults of the thread, MCP servers that fail.
Keyed(r) == pc[r] # "new" /\ ask[r].op # "configure"
Slot(a) == <<IF a.op = "bind" THEN "binding" ELSE "work", a.key>>
Slots == {"work", "binding"} \X Keys
\* Who may not bind asks for something that is never recorded.
Digest(a) == IF a.op = "bind" THEN <<a.op \in Grants[a.by], Payload(a)>>
             ELSE <<ThreadOf[a.by], Payload(a)>>
StateOf(r) ==
  IF ~Keyed(r) THEN "new"
  ELSE IF pc[r] = "done" THEN "done"
  ELSE IF promised[r] THEN "promised" ELSE "open"
EntryOf(s) ==
  IF s[1] = "work"
  THEN {[digest |-> Digest(works[i].ask), value |-> WorkRef(i)] : i \in ByKey(s[2])}
  ELSE {[digest |-> Digest(b.ask), value |-> Bound(b)] : b \in PriorBindings(s[2])}

LedgerSlot == [r \in Requests |-> IF Keyed(r) THEN Slot(ask[r]) ELSE None]
LedgerDigest == [r \in Requests |-> IF Keyed(r) THEN Digest(ask[r]) ELSE None]
LedgerState == [r \in Requests |-> StateOf(r)]
LedgerEntry == [s \in Slots |-> EntryOf(s)]
LedgerAnswer == [r \in Requests |-> IF Keyed(r) THEN answer[r] ELSE None]
L == INSTANCE Ledger WITH slot <- LedgerSlot, digest <- LedgerDigest,
       state <- LedgerState, entry <- LedgerEntry, answer <- LedgerAnswer

ImplementsLedger == L!LedgerSpec

\* Of the requests to bind a thread that expect the same revision one gets
\* through, whatever their order (1642-1679): each request that was granted got
\* the revision after the one that it expected, and no other request got that.
CompareAndSet == \A b \in bindings :
  LET t == ThreadOf[b.ask.by]
  IN /\ b.revision = b.ask.revision + 1
     /\ b.revision \in DOMAIN binding[t] /\ binding[t][b.revision] = b.context
     /\ \A c \in bindings :
          ThreadOf[c.ask.by] = t /\ c.revision = b.revision => c = b

\* The connections of a program and the revision it records go together, though
\* the defaults may have changed while its tools were discovered (313-325).
FrozenAsConfigured == \A i \in DOMAIN works :
  LET w == works[i]
      row == tools[ThreadOf[w.ask.by]]
  IN w.ask.op = "code" =>
       IF w.ask.explicit THEN w.tools.connections = w.ask.connections
       ELSE IF w.tools.revision = 0 THEN w.tools.connections = {}
       ELSE /\ w.tools.revision \in DOMAIN row
            /\ row[w.tools.revision] = w.tools.connections

\* Requests to ensure one context that succeed name one context, of the spec
\* that each of them asked for (1212-1243).
EnsuresAgree == \A i, j \in DOMAIN works :
  LET v == works[i]
      w == works[j]
  IN /\ v.ask.op = "ensure" /\ w.ask.op = "ensure"
     /\ v.phase = "settled" /\ w.phase = "settled"
     /\ v.found # 0 /\ w.found # 0
     /\ v.ask.thread = w.ask.thread /\ v.ask.name = w.ask.name
     => v.found = w.found /\ v.ask.spec = w.ask.spec
=============================================================================
