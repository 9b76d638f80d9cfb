---------------------------- MODULE AdmissionProofs ----------------------------
(***************************************************************************)
(* Theorems about Admission, for all requests, threads and keys, and       *)
(* however often the coordinator stops.                                    *)
(***************************************************************************)
EXTENDS AdmissionInvariant, SequenceTheorems, TLAPS

-----------------------------------------------------------------------------
(* Types *)

\* What is asked for, once it was sent, is one of the things to ask for.
LEMMA AskTyped ==
  ASSUME TypeOK, NEW r \in Requests, pc[r] # "new"
  PROVE  ask[r] \in Asks /\ ask[r] \in AskType /\ Thread(r) \in Threads
  BY AdmissionAssumption DEF TypeOK, AskType, Thread

\* An answer keeps the types of the variables of requests.
LEMMA AnswerTyped ==
  ASSUME TypeOK, NEW r \in Requests, pc[r] # "new", NEW o, Answer(r, o)
  PROVE  /\ ask' \in [Requests -> Asks \cup {None}]
         /\ pc' \in [Requests -> {"new", "sent", "defaults", "freeze", "admit", "done"}]
         /\ \A q \in Requests : pc'[q] # "new" => ask'[q] \in Asks
         /\ frozen' \in [Requests -> Frozen]
         /\ promised' \in [Requests -> BOOLEAN]
         /\ DOMAIN answer' = Requests
         /\ crashes' \in Nat
  BY DEF TypeOK, Answer

\* So does a step to another transaction.
LEMMA ProceedTyped ==
  ASSUME TypeOK, NEW r \in Requests, pc[r] # "new",
         NEW to \in {"defaults", "freeze", "admit"}, Proceed(r, to)
  PROVE  /\ works' \in Seq(WorkType) /\ contexts' \in Seq(ContextType)
         /\ binding' \in [Threads -> Seq(Nat)]
         /\ bindings' \subseteq BindingType
         /\ tools' \in [Threads -> Seq(SUBSET Connections)]
         /\ ask' \in [Requests -> Asks \cup {None}]
         /\ pc' \in [Requests -> {"new", "sent", "defaults", "freeze", "admit", "done"}]
         /\ \A q \in Requests : pc'[q] # "new" => ask'[q] \in Asks
         /\ promised' \in [Requests -> BOOLEAN]
         /\ DOMAIN answer' = Requests
         /\ crashes' \in Nat
  BY DEF TypeOK, Proceed, rows

\* An answer that leaves the rows as they are keeps all types.
LEMMA RefusalTyped ==
  ASSUME TypeOK, NEW r \in Requests, pc[r] # "new", NEW o, Answer(r, o), UNCHANGED rows
  PROVE  TypeOK'
  <1>1. /\ works' \in Seq(WorkType) /\ contexts' \in Seq(ContextType)
        /\ binding' \in [Threads -> Seq(Nat)]
        /\ bindings' \subseteq BindingType
        /\ tools' \in [Threads -> Seq(SUBSET Connections)]
    BY DEF TypeOK, rows
  <1> QED BY <1>1, AnswerTyped DEF TypeOK

\* The answer to a repeated submission is one that leaves the rows as they are.
LEMMA FoundTyped ==
  ASSUME TypeOK, NEW r \in Requests, pc[r] # "new", Found(r)
  PROVE  TypeOK'
  BY RefusalTyped DEF Found

\* The connections that a program is given have their type.
LEMMA SelectionTyped ==
  ASSUME TypeOK, NEW r \in Requests, pc[r] # "new"
  PROVE  Selection(r) \in Frozen
  <1>1. ask[r] \in AskType /\ Thread(r) \in Threads
    BY AskTyped
  <1>2. tools[Thread(r)] \in Seq(SUBSET Connections)
    BY <1>1 DEF TypeOK
  <1>3. tools[Thread(r)] # <<>> =>
          tools[Thread(r)][Len(tools[Thread(r)])] \in SUBSET Connections
    BY <1>2
  <1>4. Len(tools[Thread(r)]) \in Nat
    BY <1>2
  <1>5. ask[r].connections \in SUBSET Connections
    BY <1>1 DEF AskType
  <1> QED BY <1>3, <1>4, <1>5 DEF Selection, Frozen, Revision

\* The variables are of their types at first.
LEMMA TypeInit == Init => TypeOK
  BY AdmissionAssumption
  DEF Init, TypeOK, WorkType, ContextType, BindingType, Frozen, NoTools

\* A Work that moves keeps its type.
LEMMA MoveTyped ==
  ASSUME TypeOK, NEW i \in DOMAIN works, NEW to \in WorkPhases, NEW c \in Nat, Move(i, to, c)
  PROVE  works' \in Seq(WorkType)
  <1>1. works[i] \in WorkType
    BY DEF TypeOK
  <1>2. [works[i] EXCEPT !.phase = to, !.found = c] \in WorkType
    BY <1>1 DEF WorkType
  <1> QED BY <1>2 DEF Move, TypeOK

\* Every step keeps the types.
LEMMA TypeStep ==
  ASSUME TypeOK, [Next]_vars
  PROVE  TypeOK'
  <1>1. CASE UNCHANGED vars
    BY <1>1 DEF vars, rows, calls, TypeOK
  <1>2. ASSUME NEW r \in Requests, NEW a \in Asks, Send(r, a)
        PROVE  TypeOK'
    <2>1. promised' \in [Requests -> BOOLEAN]
      <3>1. Recorded(a) \in BOOLEAN
        BY DEF Recorded, Same
      <3> QED BY <1>2, <3>1 DEF Send, TypeOK
    <2>2. /\ works' \in Seq(WorkType) /\ contexts' \in Seq(ContextType)
          /\ binding' \in [Threads -> Seq(Nat)]
          /\ bindings' \subseteq BindingType
          /\ tools' \in [Threads -> Seq(SUBSET Connections)]
          /\ frozen' \in [Requests -> Frozen] /\ DOMAIN answer' = Requests
          /\ crashes' \in Nat
      BY <1>2 DEF Send, TypeOK, rows
    <2>3. /\ ask' \in [Requests -> Asks \cup {None}]
          /\ pc' \in [Requests -> {"new", "sent", "defaults", "freeze", "admit", "done"}]
          /\ \A q \in Requests : pc'[q] # "new" => ask'[q] \in Asks
      BY <1>2 DEF Send, TypeOK
    <2> QED BY <2>1, <2>2, <2>3 DEF TypeOK
  <1>3. ASSUME NEW r \in Requests, Lookup(r)
        PROVE  TypeOK'
    <2>1. pc[r] # "new"
      BY <1>3 DEF Lookup
    <2>2. CASE Found(r)
      BY <2>1, <2>2, FoundTyped
    <2>3. CASE Answer(r, Refused) /\ UNCHANGED rows
      BY <2>1, <2>3, RefusalTyped
    <2>4. CASE /\ Proceed(r, IF ask[r].op = "code" THEN "defaults" ELSE "admit")
               /\ UNCHANGED frozen
      <3> DEFINE to == IF ask[r].op = "code" THEN "defaults" ELSE "admit"
      <3>1. to \in {"defaults", "freeze", "admit"} /\ Proceed(r, to)
        BY <2>4
      <3> HIDE DEF to
      <3>2. frozen' \in [Requests -> Frozen]
        BY <2>4 DEF TypeOK
      <3> QED BY <2>1, <3>1, <3>2, ProceedTyped DEF TypeOK
    <2> QED BY <1>3, <2>2, <2>3, <2>4 DEF Lookup
  <1>4. ASSUME NEW r \in Requests, ReadDefaults(r)
        PROVE  TypeOK'
    <2>1. pc[r] # "new" /\ Proceed(r, "freeze")
      BY <1>4 DEF ReadDefaults
    <2>2. frozen' \in [Requests -> Frozen]
      BY <1>4, <2>1, SelectionTyped DEF ReadDefaults, TypeOK
    <2> QED BY <2>1, <2>2, ProceedTyped DEF TypeOK
  <1>5. ASSUME NEW r \in Requests, Freeze(r)
        PROVE  TypeOK'
    <2>1. pc[r] # "new" /\ Proceed(r, "admit")
      BY <1>5 DEF Freeze
    <2>2. frozen' \in [Requests -> Frozen]
      BY <1>5 DEF Freeze, TypeOK
    <2> QED BY <2>1, <2>2, ProceedTyped DEF TypeOK
  <1>6. ASSUME NEW r \in Requests, FreezeFails(r) \/ JournalFails(r)
        PROVE  TypeOK'
    BY <1>6, RefusalTyped DEF FreezeFails, JournalFails
  <1>7. ASSUME NEW r \in Requests, Admit(r)
        PROVE  TypeOK'
    <2>1. pc[r] # "new"
      BY <1>7 DEF Admit
    <2>2. CASE Found(r)
      BY <2>1, <2>2, FoundTyped
    <2>3. CASE Answer(r, Refused) /\ UNCHANGED rows
      BY <2>1, <2>3, RefusalTyped
    <2>4. ASSUME works' = Append(works, NewWork(r)), NEW o, Answer(r, o),
                 UNCHANGED <<contexts, binding, bindings, tools>>
          PROVE  TypeOK'
      <3>1. NewWork(r) \in WorkType
        BY <2>1 DEF NewWork, WorkType, TypeOK, WorkPhases
      <3>2. works' \in Seq(WorkType)
        BY <2>4, <3>1 DEF TypeOK
      <3>3. /\ contexts' \in Seq(ContextType)
            /\ binding' \in [Threads -> Seq(Nat)]
            /\ bindings' \subseteq BindingType
            /\ tools' \in [Threads -> Seq(SUBSET Connections)]
        BY <2>4 DEF TypeOK
      <3> QED BY <2>1, <2>4, <3>2, <3>3, AnswerTyped DEF TypeOK
    <2> QED BY <1>7, <2>2, <2>3, <2>4 DEF Admit, Reply
  <1>8. ASSUME NEW r \in Requests, Bind(r)
        PROVE  TypeOK'
    <2>1. /\ pc[r] # "new" /\ ask[r] \in Asks /\ ask[r] \in AskType
          /\ Thread(r) \in Threads
      BY <1>8, AskTyped DEF Bind
    <2> DEFINE row == [ask |-> ask[r], revision |-> Revision(binding[Thread(r)]) + 1,
                       context |-> ask[r].context]
    <2>2. ASSUME NEW o, Answer(r, o), UNCHANGED rows
          PROVE  TypeOK'
      BY <2>1, <2>2, RefusalTyped
    <2>3. ASSUME binding' = [binding EXCEPT ![Thread(r)] = Append(@, ask[r].context)],
                 bindings' = bindings \cup {row}, NEW o, Answer(r, o),
                 UNCHANGED <<works, contexts, tools>>
          PROVE  TypeOK'
      <3>1. binding[Thread(r)] \in Seq(Nat) /\ ask[r].context \in Nat
        BY <2>1 DEF TypeOK, AskType
      <3>2. row \in BindingType
        BY <2>1, <3>1 DEF BindingType, Revision
      <3>3. Append(binding[Thread(r)], ask[r].context) \in Seq(Nat)
        BY <3>1
      <3>5. binding' \in [Threads -> Seq(Nat)] /\ bindings' \subseteq BindingType
        BY <2>3, <3>2, <3>3 DEF TypeOK
      <3>4. /\ works' \in Seq(WorkType) /\ contexts' \in Seq(ContextType)
            /\ tools' \in [Threads -> Seq(SUBSET Connections)]
        BY <2>3 DEF TypeOK
      <3> QED BY <2>1, <2>3, <3>4, <3>5, AnswerTyped DEF TypeOK
    <2> QED BY <1>8, <2>2, <2>3 DEF Bind, Reply
  <1>9. ASSUME NEW r \in Requests, Configure(r)
        PROVE  TypeOK'
    <2>1. pc[r] # "new" /\ ask[r] \in AskType /\ Thread(r) \in Threads
      BY <1>9, AskTyped DEF Configure
    <2>2. CASE Answer(r, Refused) /\ UNCHANGED rows
      BY <2>1, <2>2, RefusalTyped
    <2>3. ASSUME tools' = [tools EXCEPT ![Thread(r)] = Append(@, ask[r].connections)],
                 NEW o, Answer(r, o), UNCHANGED <<works, contexts, binding, bindings>>
          PROVE  TypeOK'
      <3>1. tools[Thread(r)] \in Seq(SUBSET Connections) /\ ask[r].connections \in SUBSET Connections
        BY <2>1 DEF TypeOK, AskType
      <3>4. Append(tools[Thread(r)], ask[r].connections) \in Seq(SUBSET Connections)
        BY <3>1
      <3>2. tools' \in [Threads -> Seq(SUBSET Connections)]
        BY <2>3, <3>4 DEF TypeOK
      <3>3. /\ works' \in Seq(WorkType) /\ contexts' \in Seq(ContextType)
            /\ binding' \in [Threads -> Seq(Nat)] /\ bindings' \subseteq BindingType
        BY <2>3 DEF TypeOK
      <3> QED BY <2>1, <2>3, <3>2, <3>3, AnswerTyped DEF TypeOK
    <2> QED BY <1>9, <2>2, <2>3 DEF Configure, Reply
  <1>10. ASSUME NEW i \in DOMAIN works, Ensure(i) \/ EnsureEnds(i)
         PROVE  TypeOK'
    <2>1. UNCHANGED <<binding, bindings, tools, calls, crashes>>
      BY <1>10 DEF Ensure, EnsureEnds
    <2>0. works[i] \in WorkType
      BY DEF TypeOK
    <2>2. works[i].found \in Nat /\ works[i].ask \in AskType
      BY <2>0, AdmissionAssumption DEF WorkType
    <2>3. Len(contexts) + 1 \in Nat /\ \A c \in DOMAIN contexts : c \in Nat
      BY DEF TypeOK
    <2>4. works' \in Seq(WorkType)
      <3>1. \E to \in WorkPhases, c \in Nat : Move(i, to, c)
        BY <1>10, <2>2, <2>3 DEF Ensure, EnsureEnds, WorkPhases, Named
      <3> QED BY <3>1, MoveTyped
    <2>5. contexts' \in Seq(ContextType)
      <3>1. CASE UNCHANGED contexts
        BY <3>1 DEF TypeOK
      <3>2. CASE contexts' = Append(contexts, [owner |-> works[i].ask.thread,
                   name |-> works[i].ask.name, spec |-> works[i].ask.spec])
        <4>1. [owner |-> works[i].ask.thread, name |-> works[i].ask.name,
               spec |-> works[i].ask.spec] \in ContextType
          BY <2>2 DEF AskType, ContextType
        <4> QED BY <3>2, <4>1 DEF TypeOK
      <3> QED BY <1>10, <3>1, <3>2 DEF Ensure, EnsureEnds
    <2> QED BY <2>1, <2>4, <2>5 DEF TypeOK, calls
  <1>11. CASE Crash
    <2>1. works' \in Seq(WorkType)
      <3> DEFINE moved(i) == IF works[i].phase = "found"
                             THEN [works[i] EXCEPT !.phase = "reconciling", !.found = 0]
                             ELSE works[i]
      <3>1. ASSUME NEW i \in DOMAIN works
            PROVE  moved(i) \in WorkType
        <4>1. works[i] \in WorkType
          BY DEF TypeOK
        <4> QED BY <4>1 DEF WorkType, WorkPhases
      <3>2. works' = [i \in DOMAIN works |-> moved(i)]
        BY <1>11 DEF Crash
      <3> HIDE DEF moved
      <3>3. DOMAIN works = 1..Len(works) /\ Len(works) \in Nat
        BY DEF TypeOK
      <3>4. works' \in [1..Len(works) -> WorkType]
        BY <3>1, <3>2, <3>3
      <3> QED BY <3>3, <3>4, SeqDef
    <2>2. /\ contexts' \in Seq(ContextType) /\ binding' \in [Threads -> Seq(Nat)]
          /\ bindings' \subseteq BindingType
          /\ tools' \in [Threads -> Seq(SUBSET Connections)]
          /\ ask' \in [Requests -> Asks \cup {None}]
          /\ frozen' \in [Requests -> Frozen] /\ promised' \in [Requests -> BOOLEAN]
          /\ DOMAIN answer' = Requests
      BY <1>11 DEF Crash, TypeOK
    <2>3. /\ pc' \in [Requests -> {"new", "sent", "defaults", "freeze", "admit", "done"}]
          /\ \A q \in Requests : pc'[q] # "new" => ask'[q] \in Asks
      BY <1>11 DEF Crash, TypeOK
    <2>4. crashes' \in Nat
      <3>1. crashes' = crashes + 1
        BY <1>11 DEF Crash
      <3> QED BY <3>1 DEF TypeOK
    <2> QED BY <2>1, <2>2, <2>3, <2>4 DEF TypeOK
  <1> QED BY <1>1, <1>2, <1>3, <1>4, <1>5, <1>6, <1>7, <1>8, <1>9, <1>10, <1>11 DEF Next

-----------------------------------------------------------------------------
(* The invariant *)

\* The invariant holds at first.
LEMMA InvInit == Init => IInv
  <1> SUFFICES ASSUME Init PROVE IInv
    OBVIOUS
  <1>1. TypeOK
    BY TypeInit
  <1>2. works = <<>> /\ bindings = {} /\ contexts = Ensured
    BY DEF Init
  <1>3. DOMAIN works = {}
    BY <1>2
  <1>4. /\ CompareAndSet /\ FrozenAsConfigured
        /\ WorkKeysInv /\ BindingKeysInv /\ FoundInv
    BY <1>2, <1>3 DEF CompareAndSet, FrozenAsConfigured, WorkKeysInv,
         BindingKeysInv, FoundInv
  <1>5. NamesInv
    BY <1>2, AdmissionAssumption DEF NamesInv
  <1>6. PathInv /\ PromiseInv /\ FrozenInv
    BY DEF Init, PathInv, PromiseInv, FrozenInv
  <1> QED BY <1>1, <1>4, <1>5, <1>6 DEF IInv

\* The rows only grow: what was admitted, bound and configured stays.
Grows ==
  /\ \A i \in DOMAIN works : /\ i \in DOMAIN works'
                             /\ works'[i].ask = works[i].ask
                             /\ works'[i].tools = works[i].tools
  /\ bindings \subseteq bindings'
  /\ \A t \in Threads : \A n \in DOMAIN binding[t] :
       n \in DOMAIN binding'[t] /\ binding'[t][n] = binding[t][n]
  /\ \A t \in Threads : \A n \in DOMAIN tools[t] :
       n \in DOMAIN tools'[t] /\ tools'[t][n] = tools[t][n]
  /\ \A c \in DOMAIN contexts : c \in DOMAIN contexts' /\ contexts'[c] = contexts[c]

\* A request is done, or is as it was.
Settles == \A r \in Requests :
  \/ pc'[r] = "done"
  \/ pc'[r] = pc[r] /\ ask'[r] = ask[r] /\ promised'[r] = promised[r]
     /\ frozen'[r] = frozen[r] /\ answer'[r] = answer[r]

\* What was on record stays on record.
LEMMA RecordedStays ==
  ASSUME TypeOK, Grows, NEW a, Recorded(a)
  PROVE  Recorded(a)'
  <1>1. CASE a.op = "bind"
    BY <1>1 DEF Recorded, Grows, PriorBindings
  <1>2. CASE a.op # "bind"
    <2>1. PICK i \in ByKey(a.key) : Same(works[i].ask, a)
      BY <1>2 DEF Recorded
    <2>2. i \in ByKey(a.key)' /\ Same(works[i].ask, a)'
      BY <2>1 DEF Grows, ByKey, Same
    <2> QED BY <1>2, <2>2 DEF Recorded
  <1> QED BY <1>1, <1>2

\* What was configured when a program was given its connections stays on record.
LEMMA ConfiguredStays ==
  ASSUME TypeOK, Grows, NEW a \in Asks, NEW t, Configured(a, t)
  PROVE  Configured(a, t)'
  <1>1. ThreadOf[a.by] \in Threads
    BY AdmissionAssumption DEF AskType
  <1> QED BY <1>1 DEF Configured, Grows

\* The requests keep their invariants while they settle and the rows grow.
LEMMA SettlesKeeps ==
  ASSUME IInv, TypeOK', Grows, Settles
  PROVE  PathInv' /\ PromiseInv' /\ FrozenInv'
  <1>1. PathInv'
    BY DEF IInv, PathInv, Settles
  <1>2. PromiseInv'
    <2> SUFFICES ASSUME NEW r \in Requests, promised'[r], pc'[r] \notin {"new", "done"}
                 PROVE  pc'[r] = "sent" /\ Recorded(ask[r])'
      BY DEF PromiseInv
    <2>1. pc'[r] = pc[r] /\ ask'[r] = ask[r] /\ promised[r]
      BY DEF Settles
    <2>2. pc[r] = "sent" /\ Recorded(ask[r])
      BY <2>1 DEF IInv, PromiseInv
    <2>3. \A b : Recorded(b) => Recorded(b)'
      BY RecordedStays DEF IInv
    <2>4. Recorded(ask[r])'
      BY <2>1, <2>2, <2>3 DEF Recorded
    <2> QED BY <2>1, <2>2, <2>4
  <1>3. FrozenInv'
    <2> SUFFICES ASSUME NEW r \in Requests, pc'[r] \in {"freeze", "admit"}, ask'[r].op = "code"
                 PROVE  Configured(ask[r], frozen[r])'
      BY DEF FrozenInv
    <2>1. pc'[r] = pc[r] /\ ask'[r] = ask[r] /\ frozen'[r] = frozen[r]
      BY DEF Settles
    <2>2. ask[r] \in Asks /\ Configured(ask[r], frozen[r])
      BY <2>1, AskTyped DEF IInv, FrozenInv
    <2>3. \A a \in Asks : \A t : Configured(a, t) => Configured(a, t)'
      BY ConfiguredStays DEF IInv
    <2> QED BY <2>1, <2>2, <2>3 DEF Configured
  <1> QED BY <1>1, <1>2, <1>3

\* What Works were admitted with is right while the rows grow beside them.
LEMMA WorksKeep ==
  ASSUME IInv, Grows, DOMAIN works' = DOMAIN works
  PROVE  FrozenAsConfigured' /\ WorkKeysInv'
  <1>1. \A i \in DOMAIN works :
          /\ works[i].ask \in Asks /\ ThreadOf[works[i].ask.by] \in Threads
          /\ works'[i].ask = works[i].ask /\ works'[i].tools = works[i].tools
    <2> TAKE i \in DOMAIN works
    <2>1. works[i] \in WorkType
      BY DEF IInv, TypeOK
    <2> QED BY <2>1, AdmissionAssumption DEF WorkType, AskType, Grows
  <1>2. FrozenAsConfigured'
    BY <1>1 DEF IInv, FrozenAsConfigured, Grows
  <1>3. WorkKeysInv'
    BY <1>1 DEF IInv, WorkKeysInv
  <1> QED BY <1>2, <1>3

\* The rows keep their invariants while they stay as they are.
LEMMA RowsKeep ==
  ASSUME IInv, UNCHANGED rows
  PROVE  /\ Grows
         /\ CompareAndSet' /\ FrozenAsConfigured'
         /\ WorkKeysInv' /\ BindingKeysInv' /\ NamesInv' /\ FoundInv'
  <1>1. UNCHANGED <<works, contexts, binding, bindings, tools>>
    BY DEF rows
  <1>2. Grows
    BY <1>1 DEF Grows
  <1>3. FrozenAsConfigured' /\ WorkKeysInv'
    BY <1>1, <1>2, WorksKeep
  <1>4. CompareAndSet' /\ BindingKeysInv'
    BY <1>1 DEF IInv, CompareAndSet, BindingKeysInv
  <1>5. NamesInv' /\ FoundInv'
    BY <1>1 DEF IInv, NamesInv, FoundInv, Named, SameSpec
  <1> QED BY <1>2, <1>3, <1>4, <1>5

\* An answer settles its request.
LEMMA AnswerSettles ==
  ASSUME TypeOK, NEW r \in Requests, NEW o, Answer(r, o)
  PROVE  Settles
  BY DEF TypeOK, Answer, Settles

\* An answer that leaves the rows as they are keeps the invariant.
LEMMA RefusalKeeps ==
  ASSUME IInv, TypeOK', NEW r \in Requests, NEW o, Answer(r, o), UNCHANGED rows
  PROVE  IInv'
  <1>1. Settles
    BY AnswerSettles DEF IInv
  <1> QED BY <1>1, RowsKeep, SettlesKeeps DEF IInv

\* A request that goes on keeps the invariant, if its own part of it holds.
LEMMA ProceedKeeps ==
  ASSUME IInv, TypeOK', NEW r \in Requests, NEW to \in {"defaults", "freeze", "admit"},
         Proceed(r, to), ~promised[r], ask[r].op \in Submissions,
         to # "admit" => ask[r].op = "code",
         to # "defaults" /\ ask[r].op = "code" => Configured(ask[r], frozen'[r]),
         \A q \in Requests \ {r} : frozen'[q] = frozen[q]
  PROVE  IInv'
  <1>1. UNCHANGED <<rows, ask, promised, answer>> /\ pc' = [pc EXCEPT ![r] = to]
    BY DEF Proceed
  <1>2. PathInv'
    BY <1>1 DEF IInv, TypeOK, PathInv
  <1>3. PromiseInv'
    BY <1>1 DEF IInv, TypeOK, PromiseInv, Recorded, PriorBindings, ByKey, Same, rows
  <1>4. FrozenInv'
    BY <1>1 DEF IInv, TypeOK, FrozenInv, Configured, rows
  <1> QED BY <1>1, <1>2, <1>3, <1>4, RowsKeep DEF IInv

\* A submission that found its Work keeps the invariant.
LEMMA FoundKeeps ==
  ASSUME IInv, TypeOK', NEW r \in Requests, Found(r)
  PROVE  IInv'
  BY RefusalKeeps DEF Found

\* A request that has passed the lookup was not on record when it was sent.
LEMMA Unpromised ==
  ASSUME IInv, NEW r \in Requests, pc[r] \in {"sent", "defaults", "freeze", "admit"},
         ask[r].op \in Submissions, pc[r] = "sent" => ByKey(ask[r].key) = {}
  PROVE  ~promised[r]
  BY DEF IInv, PromiseInv, Recorded, Submissions

\* The steps of a request before its last transaction.
LEMMA EarlyStep ==
  ASSUME IInv, TypeOK', NEW r \in Requests,
         \/ \E a \in Asks : Send(r, a)
         \/ Lookup(r) \/ ReadDefaults(r) \/ Freeze(r) \/ FreezeFails(r) \/ JournalFails(r)
  PROVE  IInv'
  <1> USE DEF Submissions
  <1>1. ASSUME NEW a \in Asks, Send(r, a)
        PROVE  IInv'
    <2>1. UNCHANGED <<rows, frozen, answer>>
      BY <1>1 DEF Send
    <2>2. /\ pc' = [pc EXCEPT ![r] = "sent"] /\ ask' = [ask EXCEPT ![r] = a]
          /\ promised' = [promised EXCEPT ![r] = Recorded(a)]
      BY <1>1 DEF Send
    <2>3. PathInv'
      BY <2>1, <2>2 DEF IInv, TypeOK, PathInv
    <2>4. PromiseInv'
      <3> SUFFICES ASSUME NEW q \in Requests, promised'[q], pc'[q] \notin {"new", "done"}
                   PROVE  pc'[q] = "sent" /\ Recorded(ask[q])'
        BY DEF PromiseInv
      <3>1. CASE q = r
        <4>1. pc'[q] = "sent" /\ ask'[q] = a /\ Recorded(a)
          BY <2>2, <3>1 DEF IInv, TypeOK
        <4> QED BY <2>1, <4>1 DEF Recorded, PriorBindings, ByKey, Same, rows
      <3>2. CASE q # r
        <4>1. pc'[q] = pc[q] /\ ask'[q] = ask[q] /\ promised[q]
          BY <2>2, <3>2 DEF IInv, TypeOK
        <4>2. pc[q] = "sent" /\ Recorded(ask[q])
          BY <4>1 DEF IInv, PromiseInv
        <4> QED BY <2>1, <4>1, <4>2 DEF Recorded, PriorBindings, ByKey, Same, rows
      <3> QED BY <3>1, <3>2
    <2>5. FrozenInv'
      BY <2>1, <2>2 DEF IInv, TypeOK, FrozenInv, Configured, rows
    <2> QED BY <2>1, <2>3, <2>4, <2>5, RowsKeep DEF IInv
  <1>2. CASE Lookup(r)
    <2>1. CASE Found(r)
      BY <2>1, FoundKeeps
    <2>2. CASE Answer(r, Refused) /\ UNCHANGED rows
      BY <2>2, RefusalKeeps
    <2>3. CASE /\ ByKey(ask[r].key) = {} /\ UNCHANGED frozen
               /\ Proceed(r, IF ask[r].op = "code" THEN "defaults" ELSE "admit")
      <3> DEFINE to == IF ask[r].op = "code" THEN "defaults" ELSE "admit"
      <3>1. /\ to \in {"defaults", "freeze", "admit"} /\ Proceed(r, to)
            /\ to # "admit" => ask[r].op = "code"
            /\ ~(to # "defaults" /\ ask[r].op = "code")
        BY <2>3
      <3> HIDE DEF to
      <3>2. pc[r] = "sent" /\ ask[r].op \in Submissions
        BY <1>2 DEF Lookup
      <3>3. ~promised[r]
        BY <2>3, <3>2, Unpromised
      <3> QED BY <2>3, <3>1, <3>2, <3>3, ProceedKeeps
    <2> QED BY <1>2, <2>1, <2>2, <2>3 DEF Lookup
  <1>3. CASE ReadDefaults(r)
    <2>1. pc[r] = "defaults" /\ Proceed(r, "freeze") /\ ask[r].op = "code"
      BY <1>3 DEF ReadDefaults, IInv, PathInv
    <2>2. ~promised[r]
      BY <2>1, Unpromised
    <2>3. frozen' = [frozen EXCEPT ![r] = Selection(r)]
      BY <1>3 DEF ReadDefaults
    <2>4. frozen'[r] = Selection(r)
      BY <2>3 DEF IInv, TypeOK
    <2>5. Configured(ask[r], Selection(r))
      <3>1. Thread(r) = ThreadOf[ask[r].by] /\ Thread(r) \in Threads
        BY <2>1, AskTyped DEF IInv, Thread
      <3>2. tools[Thread(r)] \in Seq(SUBSET Connections)
        BY <3>1 DEF IInv, TypeOK
      <3>3. CASE ask[r].explicit
        BY <3>3 DEF Selection, Configured
      <3>4. CASE ~ask[r].explicit /\ tools[Thread(r)] = <<>>
        BY <3>1, <3>4 DEF Selection, Configured, Revision
      <3>5. CASE ~ask[r].explicit /\ tools[Thread(r)] # <<>>
        <4>1. Len(tools[Thread(r)]) \in DOMAIN tools[Thread(r)] /\ Len(tools[Thread(r)]) # 0
          BY <3>2, <3>5
        <4> QED BY <3>1, <3>5, <4>1 DEF Selection, Configured, Revision
      <3> QED BY <3>3, <3>4, <3>5
    <2>6. \A q \in Requests \ {r} : frozen'[q] = frozen[q]
      BY <2>3 DEF IInv, TypeOK
    <2> QED BY <2>1, <2>2, <2>4, <2>5, <2>6, ProceedKeeps
  <1>4. CASE Freeze(r)
    <2>1. pc[r] = "freeze" /\ Proceed(r, "admit") /\ ask[r].op = "code" /\ UNCHANGED frozen
      BY <1>4 DEF Freeze, IInv, PathInv
    <2>2. ~promised[r]
      BY <2>1, Unpromised
    <2>3. Configured(ask[r], frozen[r])
      BY <2>1 DEF IInv, FrozenInv
    <2> QED BY <2>1, <2>2, <2>3, ProceedKeeps
  <1>5. CASE FreezeFails(r) \/ JournalFails(r)
    BY <1>5, RefusalKeeps DEF FreezeFails, JournalFails
  <1> QED BY <1>1, <1>2, <1>3, <1>4, <1>5

\* A Work is admitted under a key that was free, with what its request was given.
LEMMA AdmitStep ==
  ASSUME IInv, TypeOK', NEW r \in Requests, Admit(r)
  PROVE  IInv'
  <1>1. CASE Found(r)
    BY <1>1, FoundKeeps
  <1>2. CASE Answer(r, Refused) /\ UNCHANGED rows
    BY <1>2, RefusalKeeps
  <1>3. ASSUME ByKey(ask[r].key) = {}, Admissible(r), works' = Append(works, NewWork(r)),
               NEW o, Answer(r, o), UNCHANGED <<contexts, binding, bindings, tools>>
        PROVE  IInv'
    <2> DEFINE n == Len(works) + 1
    <2>1. /\ DOMAIN works' = DOMAIN works \cup {n} /\ n \notin DOMAIN works
          /\ works'[n] = NewWork(r) /\ \A i \in DOMAIN works : works'[i] = works[i]
      BY <1>3 DEF IInv, TypeOK
    <2> HIDE DEF n
    <2>2. /\ NewWork(r).ask = ask[r] /\ NewWork(r).tools = frozen[r] /\ NewWork(r).found = 0
      BY DEF NewWork
    <2>3. Grows
      BY <1>3, <2>1 DEF Grows
    <2>4. pc[r] = "admit" /\ ask[r].op \in Submissions
      BY DEF Admit, IInv, PathInv
    <2>5. ask[r] \in AskType /\ Thread(r) \in Threads /\ Thread(r) = ThreadOf[ask[r].by]
      BY <2>4, AskTyped DEF IInv, Thread
    <2>6. CompareAndSet' /\ BindingKeysInv' /\ NamesInv'
      BY <1>3 DEF IInv, CompareAndSet, BindingKeysInv, NamesInv
    <2>7. WorkKeysInv'
      <3>1. \A i \in DOMAIN works : works[i].ask.key # ask[r].key
        BY <1>3 DEF ByKey
      <3> QED BY <2>1, <2>2, <2>4, <3>1 DEF IInv, WorkKeysInv
    <2>8. FrozenAsConfigured'
      <3>1. ask[r].op = "code" => Configured(ask[r], frozen[r])
        BY <2>4 DEF IInv, FrozenInv
      <3>2. \A i \in DOMAIN works' : i \in DOMAIN works \/ i = n
        BY <2>1
      <3>3. works'[n].ask = ask[r] /\ works'[n].tools = frozen[r]
        BY <2>1, <2>2
      <3>4. tools' = tools
        BY <1>3
      <3> SUFFICES ASSUME NEW i \in DOMAIN works', works'[i].ask.op = "code"
                   PROVE  Configured(works'[i].ask, works'[i].tools)
        BY <3>4 DEF FrozenAsConfigured, Configured
      <3>5. CASE i \in DOMAIN works
        BY <2>1, <3>5 DEF IInv, FrozenAsConfigured, Configured
      <3>6. CASE i = n
        BY <3>1, <3>3, <3>6
      <3> QED BY <3>2, <3>5, <3>6
    <2>9. FoundInv'
      BY <1>3, <2>1, <2>2 DEF IInv, FoundInv, Named, SameSpec
    <2>10. Settles
      BY <1>3, AnswerSettles DEF IInv
    <2> QED BY <2>3, <2>6, <2>7, <2>8, <2>9, <2>10, SettlesKeeps DEF IInv
  <1> QED BY <1>1, <1>2, <1>3 DEF Admit, Reply

\* A thread is bound: its revision was the expected one, and is the next one now.
LEMMA BindStep ==
  ASSUME IInv, TypeOK', NEW r \in Requests, Bind(r)
  PROVE  IInv'
  <1> DEFINE t == Thread(r)
             row == [ask |-> ask[r], revision |-> Revision(binding[t]) + 1,
                     context |-> ask[r].context]
  <1>1. ASSUME NEW o, Answer(r, o), UNCHANGED rows
        PROVE  IInv'
    BY <1>1, RefusalKeeps
  <1>2. ASSUME Granted(r), PriorBindings(ask[r].key) = {},
               Expected(binding[t], ask[r].revision),
               binding' = [binding EXCEPT ![t] = Append(@, ask[r].context)],
               bindings' = bindings \cup {row}, NEW o, Answer(r, o),
               UNCHANGED <<works, contexts, tools>>
        PROVE  IInv'
    <2>1. /\ pc[r] = "sent" /\ ask[r].op = "bind" /\ ask[r] \in Asks /\ ask[r] \in AskType
          /\ t \in Threads /\ t = ThreadOf[ask[r].by]
      BY AskTyped DEF Bind, IInv, Thread
    <2>2. binding[t] \in Seq(Nat) /\ ask[r].context \in Nat /\ ask[r].revision \in Nat
      BY <2>1 DEF IInv, TypeOK, AskType
    <2>3. /\ row.ask = ask[r] /\ row.revision = ask[r].revision + 1
          /\ row.context = ask[r].context /\ Len(binding[t]) = ask[r].revision
      BY <1>2, <2>2 DEF Expected, Revision
    <2> HIDE DEF t, row
    <2>4. /\ row.revision \notin DOMAIN binding[t]
          /\ row.revision \in DOMAIN binding'[t] /\ binding'[t][row.revision] = row.context
          /\ \A n \in DOMAIN binding[t] :
               n \in DOMAIN binding'[t] /\ binding'[t][n] = binding[t][n]
          /\ \A s \in Threads \ {t} : binding'[s] = binding[s]
      <3>1. binding'[t] = Append(binding[t], ask[r].context)
        BY <1>2, <2>1 DEF IInv, TypeOK
      <3>2. \A s \in Threads \ {t} : binding'[s] = binding[s]
        BY <1>2 DEF IInv, TypeOK
      <3> QED BY <2>2, <2>3, <3>1, <3>2
    <2>5. Grows
      BY <1>2, <2>4 DEF Grows
    <2>6. FrozenAsConfigured' /\ WorkKeysInv'
      BY <1>2, <2>5, WorksKeep
    <2>7. CompareAndSet'
      <3>1. \A b \in bindings : ThreadOf[b.ask.by] \in Threads
        BY AdmissionAssumption DEF IInv, TypeOK, BindingType, AskType
      <3>2. \A b \in bindings : /\ b.revision = b.ask.revision + 1
                                /\ b.revision \in DOMAIN binding[ThreadOf[b.ask.by]]
                                /\ binding[ThreadOf[b.ask.by]][b.revision] = b.context
        BY DEF IInv, CompareAndSet
      <3>3. \A b \in bindings' : b \in bindings \/ b = row
        BY <1>2
      <3>4. ASSUME NEW b \in bindings'
            PROVE  /\ b.revision = b.ask.revision + 1
                   /\ b.revision \in DOMAIN binding'[ThreadOf[b.ask.by]]
                   /\ binding'[ThreadOf[b.ask.by]][b.revision] = b.context
        <4>1. CASE b \in bindings
          BY <2>4, <3>1, <3>2, <4>1
        <4>2. CASE b = row
          BY <2>1, <2>3, <2>4, <4>2
        <4> QED BY <3>3, <4>1, <4>2
      <3>5. ASSUME NEW b \in bindings', NEW c \in bindings',
                   ThreadOf[c.ask.by] = ThreadOf[b.ask.by], c.revision = b.revision
            PROVE  c = b
        <4>1. CASE b \in bindings /\ c \in bindings
          BY <3>5, <4>1 DEF IInv, CompareAndSet
        <4>2. CASE b = row /\ c \in bindings
          BY <2>1, <2>3, <2>4, <3>2, <3>5, <4>2
        <4>3. CASE b \in bindings /\ c = row
          BY <2>1, <2>3, <2>4, <3>2, <3>5, <4>3
        <4> QED BY <3>3, <4>1, <4>2, <4>3
      <3> QED BY <3>4, <3>5 DEF CompareAndSet
    <2>8. BindingKeysInv'
      <3>1. \A b \in bindings : b.ask.key # ask[r].key
        BY <1>2 DEF PriorBindings
      <3>2. ask[r].op \in Grants[ask[r].by]
        BY <1>2 DEF Granted
      <3> QED BY <1>2, <2>1, <2>3, <3>1, <3>2 DEF IInv, BindingKeysInv
    <2>9. NamesInv' /\ FoundInv'
      BY <1>2 DEF IInv, NamesInv, FoundInv, Named, SameSpec
    <2>10. Settles
      BY <1>2, AnswerSettles DEF IInv
    <2> QED BY <2>5, <2>6, <2>7, <2>8, <2>9, <2>10, SettlesKeeps DEF IInv
  <1> QED BY <1>1, <1>2 DEF Bind, Reply

\* The defaults of a thread change: programs keep what they were given.
LEMMA ConfigureStep ==
  ASSUME IInv, TypeOK', NEW r \in Requests, Configure(r)
  PROVE  IInv'
  <1>1. CASE Answer(r, Refused) /\ UNCHANGED rows
    BY <1>1, RefusalKeeps
  <1>2. ASSUME tools' = [tools EXCEPT ![Thread(r)] = Append(@, ask[r].connections)],
               NEW o, Answer(r, o), UNCHANGED <<works, contexts, binding, bindings>>
        PROVE  IInv'
    <2>1. ask[r] \in AskType /\ Thread(r) \in Threads
      BY AskTyped DEF Configure, IInv
    <2>2. tools[Thread(r)] \in Seq(SUBSET Connections) /\ ask[r].connections \in SUBSET Connections
      BY <2>1 DEF IInv, TypeOK, AskType
    <2>3. \A t \in Threads : \A n \in DOMAIN tools[t] :
            n \in DOMAIN tools'[t] /\ tools'[t][n] = tools[t][n]
      <3>1. /\ tools'[Thread(r)] = Append(tools[Thread(r)], ask[r].connections)
            /\ \A t \in Threads \ {Thread(r)} : tools'[t] = tools[t]
        BY <1>2, <2>1 DEF IInv, TypeOK
      <3>2. \A n \in DOMAIN tools[Thread(r)] :
              /\ n \in DOMAIN tools'[Thread(r)]
              /\ tools'[Thread(r)][n] = tools[Thread(r)][n]
        BY <2>2, <3>1
      <3> QED BY <3>1, <3>2
    <2>4. Grows
      BY <1>2, <2>3 DEF Grows
    <2>5. FrozenAsConfigured' /\ WorkKeysInv'
      BY <1>2, <2>4, WorksKeep
    <2>6. CompareAndSet' /\ BindingKeysInv' /\ NamesInv' /\ FoundInv'
      BY <1>2 DEF IInv, CompareAndSet, BindingKeysInv, NamesInv, FoundInv, Named, SameSpec
    <2>7. Settles
      BY <1>2, AnswerSettles DEF IInv
    <2> QED BY <2>4, <2>5, <2>6, <2>7, SettlesKeeps DEF IInv
  <1> QED BY <1>1, <1>2 DEF Configure, Reply

\* A context is ensured: it is made, or found by its name and spec, or neither.
LEMMA EnsureStep ==
  ASSUME IInv, TypeOK', NEW i \in DOMAIN works, Ensure(i) \/ EnsureEnds(i)
  PROVE  IInv'
  <1> DEFINE a == works[i].ask
             made == [owner |-> a.thread, name |-> a.name, spec |-> a.spec]
  <1>1. UNCHANGED <<binding, bindings, tools, calls>>
    BY DEF Ensure, EnsureEnds
  <1>2. \A j \in DOMAIN works : works[j] \in WorkType
    BY DEF IInv, TypeOK
  <1>3. PICK to \in WorkPhases, c \in Nat :
          /\ Move(i, to, c)
          /\ \/ UNCHANGED contexts /\ c = 0
             \/ UNCHANGED contexts /\ c = works[i].found
             \/ UNCHANGED contexts /\ a.op = "ensure" /\ c \in Named(a) /\ SameSpec(c, a)
             \/ /\ Named(a) = {} /\ c = Len(contexts) + 1
                /\ contexts' = Append(contexts, made)
    <2>1. works[i].found \in Nat
      BY <1>2 DEF WorkType
    <2>2. Len(contexts) + 1 \in Nat /\ \A c \in DOMAIN contexts : c \in Nat
      BY DEF IInv, TypeOK
    <2>3. CASE Ensure(i)
      BY <2>2, <2>3 DEF Ensure, Named, WorkPhases
    <2>4. CASE EnsureEnds(i)
      BY <2>1, <2>4 DEF EnsureEnds, WorkPhases
    <2> QED BY <2>3, <2>4
  <1>4. /\ DOMAIN works' = DOMAIN works
        /\ \A j \in DOMAIN works : /\ works'[j].ask = works[j].ask
                                   /\ works'[j].tools = works[j].tools
                                   /\ j # i => works'[j].found = works[j].found
        /\ works'[i].found = c
    <2>1. works' = [works EXCEPT ![i] = [@ EXCEPT !.phase = to, !.found = c]]
      BY <1>3 DEF Move
    <2>2. DOMAIN works' = DOMAIN works
      BY <2>1
    <2>3. works'[i] = [works[i] EXCEPT !.phase = to, !.found = c]
      BY <2>1
    <2>4. \A j \in DOMAIN works : j # i => works'[j] = works[j]
      BY <2>1
    <2>5. works'[i].ask = works[i].ask /\ works'[i].tools = works[i].tools /\ works'[i].found = c
      BY <1>2, <2>3 DEF WorkType
    <2> QED BY <2>2, <2>4, <2>5
  <1>5. contexts \in Seq(ContextType)
    BY DEF IInv, TypeOK
  <1>6. /\ \A d \in DOMAIN contexts : d \in DOMAIN contexts' /\ contexts'[d] = contexts[d]
        /\ \A d \in DOMAIN contexts' :
             \/ d \in DOMAIN contexts
             \/ Named(a) = {} /\ d = c /\ contexts'[d] = made
    <2>1. CASE UNCHANGED contexts
      BY <2>1
    <2>2. CASE /\ Named(a) = {} /\ c = Len(contexts) + 1
               /\ contexts' = Append(contexts, made)
      BY <1>5, <2>2
    <2> QED BY <1>3, <2>1, <2>2
  <1>7. Grows
    BY <1>1, <1>4, <1>6 DEF Grows
  <1>8. Settles
    BY <1>1 DEF Settles, calls
  <1>9. NamesInv'
    BY <1>6 DEF IInv, NamesInv, Named
  <1>10. FoundInv'
    <2> SUFFICES ASSUME NEW j \in DOMAIN works, works[j].ask.op = "ensure", works'[j].found # 0
                 PROVE  /\ works'[j].found \in DOMAIN contexts'
                        /\ contexts'[works'[j].found].owner = works[j].ask.thread
                        /\ contexts'[works'[j].found].name = works[j].ask.name
                        /\ contexts'[works'[j].found].spec = works[j].ask.spec
      BY <1>4 DEF FoundInv, Named, SameSpec
    <2>1. CASE works'[j].found = works[j].found
      BY <1>6, <2>1 DEF IInv, FoundInv, Named, SameSpec
    <2>2. CASE works'[j].found # works[j].found
      <3>1. j = i /\ works'[j].found = c /\ c # 0 /\ c # works[i].found
        BY <1>4, <2>2
      <3>2. CASE c \in Named(a) /\ SameSpec(c, a)
        BY <1>6, <3>1, <3>2 DEF Named, SameSpec
      <3>3. CASE c = Len(contexts) + 1 /\ contexts' = Append(contexts, made)
        BY <1>5, <3>1, <3>3
      <3> QED BY <1>3, <3>1, <3>2, <3>3
    <2> QED BY <2>1, <2>2
  <1>11. FrozenAsConfigured' /\ WorkKeysInv'
    BY <1>4, <1>7, WorksKeep
  <1>12. CompareAndSet' /\ BindingKeysInv'
    BY <1>1 DEF IInv, CompareAndSet, BindingKeysInv
  <1> QED BY <1>7, <1>8, <1>9, <1>10, <1>11, <1>12, SettlesKeeps DEF IInv

\* The coordinator stops: its requests are over, and what it had found is given up.
LEMMA CrashStep ==
  ASSUME IInv, TypeOK', Crash
  PROVE  IInv'
  <1>1. UNCHANGED <<contexts, binding, bindings, tools, ask, frozen, promised>>
    BY DEF Crash
  <1>2. DOMAIN works' = DOMAIN works /\ \A i \in DOMAIN works :
          /\ works'[i].ask = works[i].ask /\ works'[i].tools = works[i].tools
          /\ works'[i].found # 0 => works'[i].found = works[i].found
    <2> SUFFICES ASSUME NEW i \in DOMAIN works
                 PROVE  /\ works'[i].ask = works[i].ask /\ works'[i].tools = works[i].tools
                        /\ works'[i].found # 0 => works'[i].found = works[i].found
      BY DEF Crash
    <2>1. works[i] \in WorkType
      BY DEF IInv, TypeOK
    <2>2. works'[i] = IF works[i].phase = "found"
                      THEN [works[i] EXCEPT !.phase = "reconciling", !.found = 0] ELSE works[i]
      BY DEF Crash
    <2> QED BY <2>1, <2>2 DEF WorkType
  <1>3. Grows
    BY <1>1, <1>2 DEF Grows
  <1>4. Settles
    BY <1>1 DEF Crash, Settles, IInv, TypeOK
  <1>5. FrozenAsConfigured' /\ WorkKeysInv'
    BY <1>2, <1>3, WorksKeep
  <1>6. CompareAndSet' /\ BindingKeysInv' /\ NamesInv'
    BY <1>1 DEF IInv, CompareAndSet, BindingKeysInv, NamesInv
  <1>7. FoundInv'
    BY <1>1, <1>2 DEF IInv, FoundInv, Named, SameSpec
  <1> QED BY <1>3, <1>4, <1>5, <1>6, <1>7, SettlesKeeps DEF IInv

\* Every step keeps the invariant.
LEMMA InvariantStep ==
  ASSUME IInv, [Next]_vars
  PROVE  IInv'
  <1>1. TypeOK'
    BY TypeStep DEF IInv
  <1>2. CASE UNCHANGED vars
    <2>1. UNCHANGED rows /\ Settles
      BY <1>2 DEF vars, calls, Settles
    <2> QED BY <1>1, <2>1, RowsKeep, SettlesKeeps DEF IInv
  <1>3. ASSUME NEW r \in Requests,
               \/ \E a \in Asks : Send(r, a)
               \/ Lookup(r) \/ ReadDefaults(r) \/ Freeze(r) \/ FreezeFails(r) \/ JournalFails(r)
        PROVE  IInv'
    BY <1>1, <1>3, EarlyStep
  <1>4. ASSUME NEW r \in Requests, Admit(r) \/ Bind(r) \/ Configure(r)
        PROVE  IInv'
    BY <1>1, <1>4, AdmitStep, BindStep, ConfigureStep
  <1>5. ASSUME NEW i \in DOMAIN works, Ensure(i) \/ EnsureEnds(i)
        PROVE  IInv'
    BY <1>1, <1>5, EnsureStep
  <1>6. CASE Crash
    BY <1>1, <1>6, CrashStep
  <1> QED BY <1>2, <1>3, <1>4, <1>5, <1>6 DEF Next

\* The inductive invariant holds throughout.
THEOREM Invariant == Spec => []IInv
  <1>1. Init => IInv
    BY InvInit
  <1>2. IInv /\ [Next]_vars => IInv'
    BY InvariantStep
  <1> QED BY <1>1, <1>2, PTL DEF Spec

\* The types of the variables (the shapes of the rows and of the requests).
THEOREM TypeCorrect == Spec => []TypeOK
  <1>1. IInv => TypeOK
    BY DEF IInv
  <1> QED BY <1>1, Invariant, PTL

\* No two requests that were granted have the same revision of a thread, and each
\* has the one after that which it expected, whatever requests race (1642-1679).
THEOREM BindingsCompareAndSet == Spec => []CompareAndSet
  <1>1. IInv => CompareAndSet
    BY DEF IInv
  <1> QED BY <1>1, Invariant, PTL

\* A program has the connections of the revision it records (313-325).
THEOREM FrozenConnections == Spec => []FrozenAsConfigured
  <1>1. IInv => FrozenAsConfigured
    BY DEF IInv
  <1> QED BY <1>1, Invariant, PTL

\* Those who ensure a context and succeed agree on it (1212-1243).
THEOREM EnsuredOnce == Spec => []EnsuresAgree
  <1>1. IInv => EnsuresAgree
    BY DEF IInv, FoundInv, NamesInv, EnsuresAgree, Named, SameSpec
  <1> QED BY <1>1, Invariant, PTL

-----------------------------------------------------------------------------
(* Admission implements Ledger *)

\* The variables of Ledger that speak of requests.
LedgerCalls == <<LedgerSlot, LedgerDigest, LedgerState, LedgerAnswer>>

\* What is recorded is told by the keys of rows and what was asked under them.
LEMMA EntryStays ==
  ASSUME DOMAIN works' = DOMAIN works, UNCHANGED bindings,
         \A i \in DOMAIN works : works'[i].ask = works[i].ask
  PROVE  UNCHANGED LedgerEntry
  <1>1. ASSUME NEW k
        PROVE  ByKey(k)' = ByKey(k) /\ PriorBindings(k)' = PriorBindings(k)
    BY DEF ByKey, PriorBindings
  <1>2. ASSUME NEW i \in DOMAIN works
        PROVE  Digest(works[i].ask)' = Digest(works[i].ask)
    BY DEF Digest, Payload
  <1>3. ASSUME NEW s \in Slots
        PROVE  EntryOf(s)' = EntryOf(s)
    <2>1. CASE s[1] = "work"
      <3>1. ByKey(s[2]) \subseteq DOMAIN works
        BY DEF ByKey
      <3> QED BY <1>1, <1>2, <2>1, <3>1 DEF EntryOf, WorkRef
    <2>2. CASE s[1] # "work"
      BY <1>1, <2>2 DEF EntryOf, Digest, Payload, Bound
    <2> QED BY <2>1, <2>2
  <1> QED BY <1>3 DEF LedgerEntry

\* The rows stay, and so does what is recorded.
LEMMA EntryOfRows == ASSUME UNCHANGED rows PROVE UNCHANGED LedgerEntry
  BY EntryStays DEF rows

\* An answer to a request with a key concludes it.
LEMMA Concludes ==
  ASSUME IInv, NEW r \in Requests, pc[r] \notin {"new", "done"}, ask[r].op # "configure",
         NEW o, Answer(r, o)
  PROVE  L!Conclude(r, o)
  <1>1. /\ pc' = [pc EXCEPT ![r] = "done"] /\ answer' = [answer EXCEPT ![r] = o]
        /\ UNCHANGED <<ask, promised>>
    BY DEF Answer
  <1>2. pc \in [Requests -> {"new", "sent", "defaults", "freeze", "admit", "done"}]
    BY DEF IInv, TypeOK
  <1>3. \A q \in Requests : Keyed(q)' <=> Keyed(q)
    BY <1>1, <1>2 DEF Keyed
  <1>4. Keyed(r)
    BY DEF Keyed
  <1>5. UNCHANGED <<LedgerSlot, LedgerDigest>>
    BY <1>1, <1>3 DEF LedgerSlot, LedgerDigest, Slot, Digest, Payload
  <1>6. LedgerState' = [LedgerState EXCEPT ![r] = "done"]
    BY <1>1, <1>2, <1>3, <1>4 DEF LedgerState, StateOf
  <1>7. LedgerAnswer' = [LedgerAnswer EXCEPT ![r] = o]
    <2>1. \A q \in Requests \ {r} : answer'[q] = answer[q]
      BY <1>1
    <2>2. answer'[r] = o
      BY <1>1 DEF IInv, TypeOK
    <2> QED BY <1>3, <1>4, <2>1, <2>2 DEF LedgerAnswer
  <1>8. LedgerState[r] \in {"open", "promised"}
    BY <1>4 DEF LedgerState, StateOf
  <1> QED BY <1>5, <1>6, <1>7, <1>8 DEF L!Conclude

\* A request that is not done is open or promised, and its slot is a slot.
LEMMA Underway ==
  ASSUME IInv, NEW r \in Requests, pc[r] \notin {"new", "done"}, ask[r].op # "configure"
  PROVE  /\ LedgerState[r] = IF promised[r] THEN "promised" ELSE "open"
         /\ LedgerSlot[r] = Slot(ask[r]) /\ LedgerDigest[r] = Digest(ask[r])
         /\ Slot(ask[r]) \in Slots
         /\ LedgerEntry[Slot(ask[r])] = EntryOf(Slot(ask[r]))
  <1>1. ask[r] \in AskType
    BY AskTyped DEF IInv
  <1>2. Slot(ask[r]) \in Slots
    BY <1>1 DEF AskType, Slot, Slots
  <1> QED BY <1>2 DEF Keyed, LedgerState, LedgerSlot, LedgerDigest, LedgerEntry, StateOf

\* A request that was not promised an answer may be refused.
LEMMA Refuses ==
  ASSUME IInv, NEW r \in Requests, pc[r] \notin {"new", "done"}, ask[r].op # "configure",
         ~promised[r], Answer(r, Refused), UNCHANGED rows
  PROVE  L!Refuse(r)
  BY Underway, Concludes, EntryOfRows DEF L!Refuse

\* What a submission and the row under its key have in common.
LEMMA WorkEntries ==
  ASSUME IInv, NEW a, a.op \in Submissions
  PROVE  /\ EntryOf(Slot(a)) =
              {[digest |-> Digest(works[i].ask), value |-> WorkRef(i)] : i \in ByKey(a.key)}
         /\ \A i \in ByKey(a.key) : (Digest(works[i].ask) = Digest(a)) <=> Same(works[i].ask, a)
  <1>1. a.op # "bind"
    BY DEF Submissions
  <1>2. Slot(a)[1] = "work" /\ Slot(a)[2] = a.key
    BY <1>1 DEF Slot
  <1>3. ASSUME NEW i \in ByKey(a.key)
        PROVE  (Digest(works[i].ask) = Digest(a)) <=> Same(works[i].ask, a)
    <2>1. works[i].ask.op # "bind"
      BY DEF ByKey, IInv, WorkKeysInv, Submissions
    <2> QED BY <1>1, <2>1 DEF Digest, Same
  <1> QED BY <1>2, <1>3 DEF EntryOf

\* The same of a request to bind, and the binding request under its key.
LEMMA BindingEntries ==
  ASSUME IInv, NEW a, a.op = "bind"
  PROVE  /\ EntryOf(Slot(a)) =
              {[digest |-> Digest(b.ask), value |-> Bound(b)] : b \in PriorBindings(a.key)}
         /\ \A b \in PriorBindings(a.key) : (Digest(b.ask) = Digest(a)) <=>
              a.op \in Grants[a.by] /\ Payload(b.ask) = Payload(a)
  <1>1. Slot(a)[1] = "binding" /\ Slot(a)[2] = a.key
    BY DEF Slot
  <1>2. ASSUME NEW b \in PriorBindings(a.key)
        PROVE  (Digest(b.ask) = Digest(a)) <=>
                 a.op \in Grants[a.by] /\ Payload(b.ask) = Payload(a)
    <2>1. b.ask.op = "bind" /\ b.ask.op \in Grants[b.ask.by]
      BY DEF PriorBindings, IInv, BindingKeysInv
    <2> QED BY <2>1 DEF Digest
  <1> QED BY <1>1, <1>2 DEF EntryOf

\* A repeated submission gets what is recorded, or is refused another payload.
LEMMA FoundRepeats ==
  ASSUME IInv, NEW r \in Requests, pc[r] \in {"sent", "admit"}, ask[r].op \in Submissions,
         Found(r)
  PROVE  L!Repeat(r) \/ L!Refuse(r)
  <1>1. PICK i \in ByKey(ask[r].key) :
          Answer(r, IF Same(works[i].ask, ask[r]) THEN WorkRef(i) ELSE Refused)
    BY DEF Found
  <1>2. UNCHANGED rows /\ ask[r].op # "configure"
    BY DEF Found, Submissions
  <1>3. CASE Same(works[i].ask, ask[r])
    <2> DEFINE e == [digest |-> Digest(works[i].ask), value |-> WorkRef(i)]
    <2>1. e \in EntryOf(Slot(ask[r])) /\ e.digest = Digest(ask[r])
      BY <1>3, WorkEntries
    <2>2. L!Conclude(r, e.value)
      BY <1>1, <1>2, <1>3, Concludes
    <2> HIDE DEF e
    <2> QED BY <1>2, <2>1, <2>2, Underway, EntryOfRows DEF L!Repeat
  <1>4. CASE ~Same(works[i].ask, ask[r])
    <2>1. ~promised[r]
      <3>1. \A j \in ByKey(ask[r].key) : j = i
        BY DEF ByKey, IInv, WorkKeysInv
      <3>2. ~Recorded(ask[r])
        BY <1>4, <3>1 DEF Recorded, Submissions
      <3> QED BY <3>2 DEF IInv, PromiseInv
    <2> QED BY <1>1, <1>2, <1>4, <2>1, Refuses
  <1> QED BY <1>3, <1>4

\* A Work that is admitted is recorded under its key.
LEMMA AdmitRecords ==
  ASSUME IInv, NEW r \in Requests, Admit(r)
  PROVE  L!Record(r) \/ L!Repeat(r) \/ L!Refuse(r)
  <1>1. pc[r] = "admit" /\ ask[r].op \in Submissions /\ ask[r].op # "configure"
    BY DEF Admit, IInv, PathInv, Submissions
  <1>2. CASE Found(r)
    BY <1>1, <1>2, FoundRepeats
  <1>3. CASE Answer(r, Refused) /\ UNCHANGED rows
    <2>1. CASE Found(r)
      BY <1>1, <2>1, FoundRepeats
    <2>2. CASE ~Found(r)
      <3>1. ByKey(ask[r].key) = {} \/ promised[r] = FALSE
        BY <1>1, <2>2 DEF Admit, IInv, PromiseInv, TypeOK
      <3>2. ~promised[r]
        BY <1>1, Unpromised
      <3> QED BY <1>1, <1>3, <3>2, Refuses
    <2> QED BY <2>1, <2>2
  <1>4. ASSUME ByKey(ask[r].key) = {}, works' = Append(works, NewWork(r)),
               Reply(r, WorkRef(Len(works) + 1)),
               UNCHANGED <<contexts, binding, bindings, tools>>
        PROVE  L!Record(r)
    <2>12. Len(works) + 1 \in Nat
      BY DEF IInv, TypeOK
    <2>13. Slot(ask[r]) \in Slots
      BY <1>1, Underway
    <2>0. PICK n, s, k, d, e :
            /\ n \in Nat /\ s \in Slots
            /\ n = Len(works) + 1
            /\ s = Slot(ask[r]) /\ k = ask[r].key /\ d = Digest(ask[r])
            /\ e = [digest |-> d, value |-> WorkRef(n)]
      BY <2>12, <2>13
    <2>1. /\ DOMAIN works' = DOMAIN works \cup {n} /\ n \notin DOMAIN works
          /\ works'[n].ask = ask[r] /\ \A i \in DOMAIN works : works'[i] = works[i]
      BY <1>4, <2>0 DEF IInv, TypeOK, NewWork
    <2>2. PICK told \in {WorkRef(n), Lost} : Answer(r, told)
      BY <1>4, <2>0 DEF Reply
    <2>3. L!Conclude(r, told)
      BY <1>1, <2>2, Concludes
    <2>4. s[1] = "work" /\ s[2] = k
      BY <1>1, <2>0 DEF Slot, Submissions
    <2>5. EntryOf(s) = {}
      BY <1>4, <2>0, <2>4 DEF EntryOf
    <2>6. EntryOf(s)' = {e}
      <3>1. ByKey(k)' = {n}
        BY <1>4, <2>0, <2>1 DEF ByKey
      <3>2. Digest(works[n].ask)' = d
        BY <2>0, <2>1 DEF Digest, Payload
      <3>3. EntryOf(s)' = {[digest |-> d, value |-> WorkRef(n)]}
        BY <2>4, <3>1, <3>2 DEF EntryOf, WorkRef
      <3> QED BY <2>0, <3>3
    <2>7. ASSUME NEW t \in Slots, t # s
          PROVE  EntryOf(t)' = EntryOf(t)
      <3>1. CASE t[1] = "work"
        <4>1. t[2] # k
          BY <2>0, <2>4, <2>7, <3>1 DEF Slots
        <4>2. ByKey(t[2])' = ByKey(t[2])
          BY <2>0, <2>1, <4>1 DEF ByKey
        <4>3. ByKey(t[2]) \subseteq DOMAIN works
          BY DEF ByKey
        <4> QED BY <2>1, <3>1, <4>2, <4>3 DEF EntryOf, Digest, Payload, WorkRef
      <3>2. CASE t[1] # "work"
        BY <1>4, <3>2 DEF EntryOf, PriorBindings, Digest, Payload, Bound
      <3> QED BY <3>1, <3>2
    <2>8. LedgerEntry' = [LedgerEntry EXCEPT ![s] = {e}]
      BY <2>0, <2>6, <2>7 DEF LedgerEntry, Slots
    <2>9. LedgerEntry[s] = {} /\ LedgerEntry'[s] = {e}
      BY <2>0, <2>5, <2>6 DEF LedgerEntry, Slots
    <2>10. e.digest = d /\ e.value = WorkRef(n)
      BY <2>0
    <2>11. LedgerSlot[r] = s /\ LedgerDigest[r] = d
           /\ LedgerState[r] \in {"open", "promised"}
      BY <1>1, <2>0, Underway
    <2> QED BY <2>2, <2>3, <2>8, <2>9, <2>10, <2>11 DEF L!Record
  <1> QED BY <1>2, <1>3, <1>4 DEF Admit

\* A request to bind that gets through is recorded under its key.
LEMMA BindRecords ==
  ASSUME IInv, NEW r \in Requests, Bind(r)
  PROVE  L!Record(r) \/ L!Repeat(r) \/ L!Refuse(r)
  <1>1. pc[r] = "sent" /\ ask[r].op = "bind"
    BY DEF Bind
  <1>2. ASSUME Answer(r, Refused), UNCHANGED rows, ~Recorded(ask[r])
        PROVE  L!Refuse(r)
    <2>1. ~promised[r]
      BY <1>1, <1>2 DEF IInv, PromiseInv
    <2> QED BY <1>1, <1>2, <2>1, Refuses
  <1>3. ASSUME Granted(r), UNCHANGED rows, NEW b \in PriorBindings(ask[r].key),
               Answer(r, IF Payload(b.ask) = Payload(ask[r]) THEN Bound(b) ELSE Refused)
        PROVE  L!Repeat(r) \/ L!Refuse(r)
    <2>1. CASE Payload(b.ask) = Payload(ask[r])
      <3> DEFINE e == [digest |-> Digest(b.ask), value |-> Bound(b)]
      <3>1. e \in EntryOf(Slot(ask[r])) /\ e.digest = Digest(ask[r])
        BY <1>1, <1>3, <2>1, BindingEntries DEF Granted
      <3>2. L!Conclude(r, e.value)
        BY <1>1, <1>3, <2>1, Concludes
      <3> HIDE DEF e
      <3> QED BY <1>1, <1>3, <3>1, <3>2, Underway, EntryOfRows DEF L!Repeat
    <2>2. CASE Payload(b.ask) # Payload(ask[r])
      <3>1. \A c \in PriorBindings(ask[r].key) : c = b
        BY DEF PriorBindings, IInv, BindingKeysInv
      <3>2. ~Recorded(ask[r])
        BY <1>1, <2>2, <3>1 DEF Recorded
      <3> QED BY <1>2, <1>3, <2>2, <3>2
    <2> QED BY <2>1, <2>2
  <1>4. ASSUME NEW row, row.ask = ask[r], Granted(r), PriorBindings(ask[r].key) = {},
               bindings' = bindings \cup {row}, Reply(r, Bound(row)),
               UNCHANGED works
        PROVE  L!Record(r)
    <2>1. Slot(ask[r]) \in Slots
      BY <1>1, Underway
    <2>2. PICK s, k, d, e, v :
            /\ s \in Slots
            /\ s = Slot(ask[r]) /\ k = ask[r].key /\ d = Digest(ask[r])
            /\ v = Bound(row) /\ e = [digest |-> d, value |-> v]
      BY <2>1
    <2>3. PICK told \in {v, Lost} : Answer(r, told)
      BY <1>4, <2>2 DEF Reply
    <2>4. L!Conclude(r, told)
      BY <1>1, <2>3, Concludes
    <2>5. s[1] = "binding" /\ s[2] = k
      BY <1>1, <2>2 DEF Slot
    <2>6. EntryOf(s) = {}
      BY <1>4, <2>2, <2>5 DEF EntryOf
    <2>7. EntryOf(s)' = {e}
      <3>1. {b \in bindings' : b.ask.key = k} = {row}
        BY <1>4, <2>2 DEF PriorBindings
      <3>2. Digest(row.ask) = d /\ Bound(row) = v
        BY <1>4, <2>2
      <3>3. EntryOf(s)' = {[digest |-> Digest(b.ask), value |-> Bound(b)] :
                             b \in {c \in bindings' : c.ask.key = k}}
        BY <2>5 DEF EntryOf, PriorBindings
      <3> QED BY <2>2, <3>1, <3>2, <3>3
    <2>8. ASSUME NEW t \in Slots, t # s
          PROVE  EntryOf(t)' = EntryOf(t)
      <3>1. CASE t[1] = "work"
        BY <1>4, <3>1 DEF EntryOf, ByKey, Digest, Payload, WorkRef
      <3>2. CASE t[1] # "work"
        <4>1. t[2] # k
          BY <2>2, <2>5, <2>8, <3>2 DEF Slots
        <4>2. {b \in bindings' : b.ask.key = t[2]} = {b \in bindings : b.ask.key = t[2]}
          BY <1>4, <2>2, <4>1
        <4> QED BY <3>2, <4>2 DEF EntryOf, PriorBindings
      <3> QED BY <3>1, <3>2
    <2>9. LedgerEntry' = [LedgerEntry EXCEPT ![s] = {e}]
      BY <2>2, <2>7, <2>8 DEF LedgerEntry, Slots
    <2>10. LedgerEntry[s] = {} /\ LedgerEntry'[s] = {e}
      BY <2>2, <2>6, <2>7 DEF LedgerEntry, Slots
    <2>11. e.digest = d /\ e.value = v
      BY <2>2
    <2>12. LedgerSlot[r] = s /\ LedgerDigest[r] = d
           /\ LedgerState[r] \in {"open", "promised"}
      BY <1>1, <2>2, Underway
    <2> QED BY <2>3, <2>4, <2>9, <2>10, <2>11, <2>12 DEF L!Record
  <1>5. ~Granted(r) \/ PriorBindings(ask[r].key) = {} => ~Recorded(ask[r])
    BY <1>1 DEF Granted, Recorded
  <1> QED BY <1>2, <1>3, <1>4, <1>5 DEF Bind

\* A request is sent, and promised what it asks for if that is recorded.
LEMMA SendSends ==
  ASSUME IInv, TypeOK', NEW r \in Requests, NEW a \in Asks, Send(r, a)
  PROVE  L!Send(r) \/ UNCHANGED <<LedgerCalls, LedgerEntry>>
  <1>1. /\ pc[r] = "new" /\ pc' = [pc EXCEPT ![r] = "sent"] /\ ask' = [ask EXCEPT ![r] = a]
        /\ promised' = [promised EXCEPT ![r] = Recorded(a)] /\ UNCHANGED <<rows, answer>>
    BY DEF Send
  <1>2. /\ pc'[r] = "sent" /\ ask'[r] = a /\ promised'[r] = Recorded(a)
        /\ \A q \in Requests \ {r} :
             pc'[q] = pc[q] /\ ask'[q] = ask[q] /\ promised'[q] = promised[q]
    BY <1>1 DEF IInv, TypeOK
  <1>3. UNCHANGED LedgerEntry
    BY <1>1, EntryOfRows
  <1>4. answer[r] = None
    BY <1>1 DEF IInv, PathInv
  <1>5. \A q \in Requests \ {r} : (Keyed(q)' <=> Keyed(q)) /\ StateOf(q)' = StateOf(q)
    BY <1>2 DEF Keyed, StateOf
  <1>6. ~Keyed(r)
    BY <1>1 DEF Keyed
  <1>7. CASE a.op = "configure"
    <2>1. ~Keyed(r)'
      BY <1>2, <1>7 DEF Keyed
    <2> QED
      BY <1>1, <1>2, <1>3, <1>5, <1>6, <2>1 DEF LedgerCalls, LedgerSlot, LedgerDigest,
         LedgerState, LedgerAnswer, StateOf, Slot, Digest, Payload
  <1>8. CASE a.op # "configure"
    <2>1. Keyed(r)'
      BY <1>2, <1>8 DEF Keyed
    <2>2. Slot(a) \in Slots /\ (a.op = "bind" \/ a.op \in Submissions)
      BY <1>8, AdmissionAssumption DEF AskType, Slot, Slots, Ops
    <2>3. PICK s, d : s \in Slots /\ s = Slot(a) /\ d = Digest(a)
      BY <2>2
    <2>4. LedgerSlot' = [LedgerSlot EXCEPT ![r] = s] /\ LedgerSlot'[r] = s
      BY <1>2, <1>5, <2>1, <2>3 DEF LedgerSlot, Slot
    <2>5. LedgerDigest' = [LedgerDigest EXCEPT ![r] = d] /\ LedgerDigest'[r] = d
      BY <1>2, <1>5, <2>1, <2>3, ZenonT(40) DEF LedgerDigest, Digest, Payload
    <2>6. LedgerAnswer' = LedgerAnswer
      BY <1>1, <1>4, <1>5, <1>6, <2>1 DEF LedgerAnswer
    <2>7. Recorded(a) <=> \E e \in EntryOf(Slot(a)) : e.digest = Digest(a)
      <3>1. CASE a.op = "bind"
        <4>1. EntryOf(Slot(a)) =
                {[digest |-> Digest(b.ask), value |-> Bound(b)] : b \in PriorBindings(a.key)}
          BY <3>1, BindingEntries
        <4>2. (\E e \in EntryOf(Slot(a)) : e.digest = Digest(a)) <=>
                \E b \in PriorBindings(a.key) : Digest(b.ask) = Digest(a)
          <5>1. ASSUME NEW e \in EntryOf(Slot(a)), e.digest = Digest(a)
                PROVE  \E b \in PriorBindings(a.key) : Digest(b.ask) = Digest(a)
            <6>1. PICK b \in PriorBindings(a.key) : e = [digest |-> Digest(b.ask), value |-> Bound(b)]
              BY <4>1
            <6> QED BY <5>1, <6>1
          <5>2. ASSUME NEW b \in PriorBindings(a.key), Digest(b.ask) = Digest(a)
                PROVE  \E e \in EntryOf(Slot(a)) : e.digest = Digest(a)
            <6>1. [digest |-> Digest(b.ask), value |-> Bound(b)] \in EntryOf(Slot(a))
              BY <4>1
            <6> QED BY <5>2, <6>1
          <5> QED BY <5>1, <5>2
        <4>3. \A b \in PriorBindings(a.key) : (Digest(b.ask) = Digest(a)) <=>
                a.op \in Grants[a.by] /\ Payload(b.ask) = Payload(a)
          BY <3>1, BindingEntries
        <4> QED BY <3>1, <4>2, <4>3 DEF Recorded
      <3>2. CASE a.op \in Submissions
        <4>1. a.op # "bind"
          BY <3>2 DEF Submissions
        <4>2. EntryOf(Slot(a)) =
                {[digest |-> Digest(works[i].ask), value |-> WorkRef(i)] : i \in ByKey(a.key)}
          BY <3>2, WorkEntries
        <4>3. (\E e \in EntryOf(Slot(a)) : e.digest = Digest(a)) <=>
                \E i \in ByKey(a.key) : Digest(works[i].ask) = Digest(a)
          <5>1. ASSUME NEW e \in EntryOf(Slot(a)), e.digest = Digest(a)
                PROVE  \E i \in ByKey(a.key) : Digest(works[i].ask) = Digest(a)
            <6>1. PICK i \in ByKey(a.key) : e = [digest |-> Digest(works[i].ask), value |-> WorkRef(i)]
              BY <4>2
            <6> QED BY <5>1, <6>1
          <5>2. ASSUME NEW i \in ByKey(a.key), Digest(works[i].ask) = Digest(a)
                PROVE  \E e \in EntryOf(Slot(a)) : e.digest = Digest(a)
            <6>1. [digest |-> Digest(works[i].ask), value |-> WorkRef(i)] \in EntryOf(Slot(a))
              BY <4>2
            <6> QED BY <5>2, <6>1
          <5> QED BY <5>1, <5>2
        <4>4. \A i \in ByKey(a.key) : (Digest(works[i].ask) = Digest(a)) <=> Same(works[i].ask, a)
          BY <3>2, WorkEntries
        <4> QED BY <4>1, <4>3, <4>4 DEF Recorded
      <3> QED BY <2>2, <3>1, <3>2
    <2>8. Recorded(a) <=> L!Holds(s, d)
      BY <2>3, <2>7 DEF L!Holds, LedgerEntry
    <2>9. LedgerState' = [LedgerState EXCEPT ![r] =
                            IF L!Holds(s, d) THEN "promised" ELSE "open"]
      BY <1>2, <1>5, <2>1, <2>8 DEF LedgerState, StateOf
    <2>10. LedgerState[r] = "new"
      BY <1>6 DEF LedgerState, StateOf
    <2> QED BY <1>3, <2>3, <2>4, <2>5, <2>6, <2>9, <2>10 DEF L!Send
  <1> QED BY <1>7, <1>8

\* A coordinator that stops loses the requests it was working on.
LEMMA CrashLoses ==
  ASSUME IInv, TypeOK', Crash
  PROVE  L!LoseAll
  <1>1. /\ \A q \in Requests : pc'[q] = IF pc[q] = "new" THEN "new" ELSE "done"
        /\ \A q \in Requests :
             answer'[q] = IF pc[q] \in {"new", "done"} THEN answer[q] ELSE Lost
        /\ UNCHANGED <<ask, promised, bindings>>
    BY DEF Crash
  <1>2. \A q \in Requests : Keyed(q)' <=> Keyed(q)
    BY <1>1 DEF Keyed
  <1>3. \A q \in Requests : StateOf(q)' =
          IF StateOf(q) \in {"open", "promised"} THEN "done" ELSE StateOf(q)
    BY <1>1, <1>2 DEF StateOf, Keyed
  <1>4. UNCHANGED <<LedgerSlot, LedgerDigest>>
    BY <1>1, <1>2 DEF LedgerSlot, LedgerDigest, Slot, Digest, Payload
  <1>5. \A q \in Requests : LedgerAnswer'[q] =
          IF LedgerState[q] \in {"open", "promised"} THEN Lost ELSE LedgerAnswer[q]
    BY <1>1, <1>2 DEF LedgerAnswer, LedgerState, StateOf, Keyed
  <1>6. UNCHANGED LedgerEntry
    <2>1. DOMAIN works' = DOMAIN works /\ \A i \in DOMAIN works : works'[i].ask = works[i].ask
      <3> SUFFICES ASSUME NEW i \in DOMAIN works
                   PROVE  works'[i].ask = works[i].ask
        BY DEF Crash
      <3>1. works[i] \in WorkType
        BY DEF IInv, TypeOK
      <3>2. works'[i] = IF works[i].phase = "found"
                        THEN [works[i] EXCEPT !.phase = "reconciling", !.found = 0] ELSE works[i]
        BY DEF Crash
      <3> QED BY <3>1, <3>2 DEF WorkType
    <2> QED BY <1>1, <2>1, EntryStays
  <1>7. LedgerState' = [q \in Requests |-> IF LedgerState[q] \in {"open", "promised"}
                                           THEN "done" ELSE LedgerState[q]]
    BY <1>3 DEF LedgerState
  <1>8. LedgerAnswer' = [q \in Requests |-> IF LedgerState[q] \in {"open", "promised"}
                                            THEN Lost ELSE LedgerAnswer[q]]
    BY <1>5 DEF LedgerAnswer
  <1> QED BY <1>4, <1>6, <1>7, <1>8 DEF L!LoseAll

\* A request that goes on to another transaction is where Ledger has it already.
LEMMA ProceedStutters ==
  ASSUME IInv, NEW r \in Requests, pc[r] \notin {"new", "done"},
         NEW to \in {"defaults", "freeze", "admit"}, Proceed(r, to)
  PROVE  UNCHANGED <<LedgerCalls, LedgerEntry>>
  <1>1. pc' = [pc EXCEPT ![r] = to] /\ UNCHANGED <<rows, ask, promised, answer>>
    BY DEF Proceed
  <1>2. \A q \in Requests : (Keyed(q)' <=> Keyed(q)) /\ (pc'[q] = "done" <=> pc[q] = "done")
    BY <1>1 DEF IInv, TypeOK, Keyed
  <1>3. UNCHANGED LedgerCalls
    BY <1>1, <1>2 DEF LedgerCalls, LedgerSlot, LedgerDigest, LedgerState, LedgerAnswer,
       StateOf, Slot, Digest, Payload
  <1> QED BY <1>1, <1>3, EntryOfRows

\* Requests without a key are none of Ledger's.
LEMMA UnkeyedStutters ==
  ASSUME IInv, NEW r \in Requests, pc[r] # "new", ask[r].op = "configure",
         NEW o, Answer(r, o), UNCHANGED <<works, bindings>>
  PROVE  UNCHANGED <<LedgerCalls, LedgerEntry>>
  <1>1. /\ pc' = [pc EXCEPT ![r] = "done"] /\ answer' = [answer EXCEPT ![r] = o]
        /\ UNCHANGED <<ask, promised>>
    BY DEF Answer
  <1>2. \A q \in Requests : (Keyed(q)' <=> Keyed(q))
                            /\ (Keyed(q) => pc'[q] = pc[q] /\ answer'[q] = answer[q])
    BY <1>1 DEF IInv, TypeOK, Keyed
  <1>3. UNCHANGED LedgerCalls
    BY <1>1, <1>2 DEF LedgerCalls, LedgerSlot, LedgerDigest, LedgerState, LedgerAnswer,
       StateOf, Slot, Digest, Payload
  <1> QED BY <1>3, EntryStays

\* What becomes of the Works is none of Ledger's.
LEMMA EnsureStutters ==
  ASSUME IInv, NEW i \in DOMAIN works, Ensure(i) \/ EnsureEnds(i)
  PROVE  UNCHANGED <<LedgerCalls, LedgerEntry>>
  <1>1. UNCHANGED <<bindings, calls>>
    BY DEF Ensure, EnsureEnds
  <1>2. \E to, c : Move(i, to, c)
    BY DEF Ensure, EnsureEnds
  <1>3. DOMAIN works' = DOMAIN works /\ \A j \in DOMAIN works : works'[j].ask = works[j].ask
    <2>1. PICK to, c : works' = [works EXCEPT ![i] = [@ EXCEPT !.phase = to, !.found = c]]
      BY <1>2 DEF Move
    <2>2. works[i] \in WorkType
      BY DEF IInv, TypeOK
    <2>3. [works[i] EXCEPT !.phase = to, !.found = c].ask = works[i].ask
      BY <2>2 DEF WorkType
    <2> QED BY <2>1, <2>3
  <1>4. UNCHANGED LedgerCalls
    BY <1>1 DEF calls, LedgerCalls, LedgerSlot, LedgerDigest, LedgerState, LedgerAnswer,
       StateOf, Keyed, Slot, Digest, Payload
  <1> QED BY <1>1, <1>3, <1>4, EntryStays

\* Every step is one of Ledger, or none.
LEMMA LedgerStep ==
  ASSUME IInv, [Next]_vars
  PROVE  L!LedgerNext \/ UNCHANGED <<LedgerCalls, LedgerEntry>>
  <1>1. TypeOK'
    BY TypeStep DEF IInv
  <1>2. CASE UNCHANGED vars
    <2>1. UNCHANGED LedgerCalls
      BY <1>2 DEF vars, calls, LedgerCalls, LedgerSlot, LedgerDigest, LedgerState,
         LedgerAnswer, StateOf, Keyed, Slot, Digest, Payload
    <2> QED BY <1>2, <2>1, EntryOfRows DEF vars
  <1>3. ASSUME NEW r \in Requests, NEW a \in Asks, Send(r, a)
        PROVE  L!LedgerNext \/ UNCHANGED <<LedgerCalls, LedgerEntry>>
    BY <1>1, <1>3, SendSends DEF L!LedgerNext
  <1>4. ASSUME NEW r \in Requests, Lookup(r)
        PROVE  L!LedgerNext \/ UNCHANGED <<LedgerCalls, LedgerEntry>>
    <2>1. pc[r] = "sent" /\ ask[r].op \in Submissions /\ ask[r].op # "configure"
      BY <1>4 DEF Lookup, Submissions
    <2>2. CASE Found(r)
      BY <2>1, <2>2, FoundRepeats DEF L!LedgerNext
    <2>3. CASE ByKey(ask[r].key) = {} /\ Answer(r, Refused) /\ UNCHANGED rows
      BY <2>1, <2>3, Unpromised, Refuses DEF L!LedgerNext
    <2>4. CASE Proceed(r, IF ask[r].op = "code" THEN "defaults" ELSE "admit")
      <3>1. PICK to \in {"defaults", "freeze", "admit"} : Proceed(r, to)
        BY <2>4
      <3> QED BY <2>1, <3>1, ProceedStutters
    <2> QED BY <1>4, <2>2, <2>3, <2>4 DEF Lookup
  <1>5. ASSUME NEW r \in Requests, ReadDefaults(r) \/ Freeze(r)
        PROVE  L!LedgerNext \/ UNCHANGED <<LedgerCalls, LedgerEntry>>
    BY <1>5, ProceedStutters DEF ReadDefaults, Freeze
  <1>6. ASSUME NEW r \in Requests, FreezeFails(r)
        PROVE  L!LedgerNext \/ UNCHANGED <<LedgerCalls, LedgerEntry>>
    <2>1. pc[r] = "freeze" /\ ask[r].op = "code" /\ Answer(r, Refused) /\ UNCHANGED rows
      BY <1>6 DEF FreezeFails, IInv, PathInv
    <2>2. ~promised[r]
      BY <2>1, Unpromised DEF Submissions
    <2> QED BY <2>1, <2>2, Refuses DEF L!LedgerNext
  <1>7. ASSUME NEW r \in Requests, JournalFails(r)
        PROVE  L!LedgerNext \/ UNCHANGED <<LedgerCalls, LedgerEntry>>
    <2>1. pc[r] \notin {"new", "done"} /\ Answer(r, Lost) /\ UNCHANGED rows
      BY <1>7 DEF JournalFails
    <2>2. CASE ask[r].op = "configure"
      BY <2>1, <2>2, UnkeyedStutters DEF rows
    <2>3. CASE ask[r].op # "configure"
      BY <2>1, <2>3, Concludes, EntryOfRows DEF L!LedgerNext, L!Lose
    <2> QED BY <2>2, <2>3
  <1>8. ASSUME NEW r \in Requests, Admit(r) \/ Bind(r)
        PROVE  L!LedgerNext \/ UNCHANGED <<LedgerCalls, LedgerEntry>>
    BY <1>8, AdmitRecords, BindRecords DEF L!LedgerNext
  <1>9. ASSUME NEW r \in Requests, Configure(r)
        PROVE  L!LedgerNext \/ UNCHANGED <<LedgerCalls, LedgerEntry>>
    <2>1. /\ pc[r] # "new" /\ ask[r].op = "configure" /\ UNCHANGED <<works, bindings>>
          /\ \E o : Answer(r, o)
      BY <1>9 DEF Configure, Reply, rows
    <2> QED BY <2>1, UnkeyedStutters
  <1>10. ASSUME NEW i \in DOMAIN works, Ensure(i) \/ EnsureEnds(i)
         PROVE  L!LedgerNext \/ UNCHANGED <<LedgerCalls, LedgerEntry>>
    BY <1>10, EnsureStutters
  <1>11. CASE Crash
    BY <1>1, <1>11, CrashLoses DEF L!LedgerNext
  <1> QED BY <1>2, <1>3, <1>4, <1>5, <1>6, <1>7, <1>8, <1>9, <1>10, <1>11 DEF Next

\* What clients are told of a key is what was recorded under it, once, and no
\* repeat is refused: Admission implements Ledger.
THEOREM LedgerImplemented == Spec => ImplementsLedger
  <1>1. Init => L!LedgerInit
    <2> SUFFICES ASSUME Init PROVE L!LedgerInit
      OBVIOUS
    <2>1. \A r \in Requests : ~Keyed(r)
      BY DEF Init, Keyed
    <2>2. /\ LedgerSlot = [r \in Requests |-> None]
          /\ LedgerDigest = [r \in Requests |-> None]
          /\ LedgerState = [r \in Requests |-> "new"]
          /\ LedgerAnswer = [r \in Requests |-> None]
      BY <2>1 DEF LedgerSlot, LedgerDigest, LedgerState, LedgerAnswer, StateOf
    <2>3. works = <<>> /\ bindings = {}
      BY DEF Init
    <2>4. \A s \in Slots : EntryOf(s) = {}
      BY <2>3 DEF EntryOf, ByKey, PriorBindings
    <2> QED BY <2>2, <2>4 DEF L!LedgerInit, LedgerEntry
  <1>2. IInv /\ [Next]_vars => [L!LedgerNext]_(L!ledgerVars)
    BY LedgerStep DEF L!ledgerVars, LedgerCalls
  <1> QED BY <1>1, <1>2, Invariant, PTL DEF Spec, ImplementsLedger, L!LedgerSpec
=============================================================================
