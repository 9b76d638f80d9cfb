------------------------------ MODULE PodProofs ------------------------------
(***************************************************************************)
(* The pod of a context, for any number of operations, of pods and of late *)
(* patches: one command at a time is at work in it, and when the context   *)
(* is parked what served it has ended.                                     *)
(*                                                                         *)
(* One command: a controller whose answer was lost may go on, but then the *)
(* context is blocked and no operation comes after it (Alone), so that two *)
(* controllers that may start a command are never there together.          *)
(*                                                                         *)
(* Stopped: a generation has one mode, so that a condition observed at the *)
(* generation of the object is about the object as it is (Recent): nothing *)
(* has started since a pod was seen to be gone.                            *)
(***************************************************************************)
EXTENDS Pod, FiniteSetTheorems, TLAPS

\* The steps that an operation goes through.
StepsOf(op) ==
  CASE op = "none" -> {"idle"}
    [] op = "create" -> {"create", "wait", "exec", "answer"}
    [] op \in {"run", "download"} -> {"exec", "answer"}
    [] op = "park" -> {"exec", "answer", "patch", "wait"}
    [] op = "wake" -> {"patch", "wait", "exec", "answer"}

\* The operation at work is one of the phase.
Called ==
  /\ call.step \in StepsOf(call.op)
  /\ call.op # "none" => Possible(call.op) /\ call.number > 0

\* The operation may still change the object; each does so once.
WillChange ==
  \/ call.step \in {"create", "patch"}
  \/ call.op = "park" /\ call.step \in {"exec", "answer"}
Changes ==
  sandbox.generation + delayed["Running"] + delayed["Suspended"] + (IF WillChange THEN 1 ELSE 0)
    <= call.number

\* An operation has one controller, while it waits for its answer or has given up.
Numbered ==
  /\ \A k, j \in controllers : k.number = j.number => k = j
  /\ \A k \in controllers :
       /\ k.number <= call.number
       /\ k.number = call.number => call.step \in {"answer", "idle"}
       /\ k.number = call.number /\ call.step = "answer" => k.request = Request

\* A controller that has a command to start, or one to end.
AtWork(k) == k.request = "run" /\ k.step \in {"started", "quiet", "running"}

\* It is the one of the last operation, and where that one gave up none follows; so
\* that nothing starts behind the back of one that made the workspace quiet.
Alone ==
  /\ \A n, i \in alive : n = i
  /\ \A k \in controllers :
       /\ AtWork(k) => k.number = call.number /\ (call.op = "none" => phase = "blocked")
       /\ k.step = "quiet" /\ k.request \in {"run", "download"} /\ k.number = call.number =>
            alive = {}

\* What runs, runs in the pod; and in a parked context it runs in a later pod than
\* the one that served it, where it may initialize and nothing else.
Served ==
  /\ pod.state = "none" => controllers = {} /\ alive = {}
  /\ ran <= pod.number
  /\ phase = "parked" =>
       /\ pod.state # "none" => ran < pod.number
       /\ alive = {} /\ \A k \in controllers : k.request = "initialize"

\* What was observed of the object at its generation is true of it.
Recent ==
  /\ sandbox.mode = "absent" => sandbox.generation = 0
  /\ \A m \in Modes : /\ condition[m].generation <= sandbox.generation
                      /\ observed[m].generation <= sandbox.generation
  /\ \A c \in {condition["Suspended"], observed["Suspended"]} :
       c.true /\ c.generation = sandbox.generation =>
         sandbox.mode = "Suspended" /\ pod.state = "none"

PodInv == PodTypeOK /\ Called /\ Changes /\ Numbered /\ Alone /\ Served /\ Recent

-----------------------------------------------------------------------------

\* An object, an operation and a controller in the pod keep their types.
LEMMA RecordTypes ==
  ASSUME PodTypeOK
  PROVE  /\ call.number \in 0..MaxOperations /\ call.op \in Operations \cup {"none"}
         /\ call.step \in {"idle", "create", "patch", "wait", "exec", "answer"}
         /\ call = [number |-> call.number, op |-> call.op, step |-> call.step]
         /\ sandbox.mode \in Modes \cup {"absent"} /\ sandbox.generation \in Generations
         /\ pod.number \in 0..MaxPods /\ pod.state \in {"none", "up", "ending"}
         /\ delayed["Running"] \in 0..MaxDelayed /\ delayed["Suspended"] \in 0..MaxDelayed
         /\ \A m \in Modes : condition[m] \in Condition /\ observed[m] \in Condition
         /\ \A k \in controllers : /\ k.number \in 1..MaxOperations /\ k.request \in Requests
                                   /\ k.step \in {"started", "quiet", "running", "over",
                                                  "done", "failed"}
  BY DEF PodTypeOK, Modes

\* The object keeps its type, and what is observed of it is not ahead of it, when an
\* operation changes it or a late patch does (406-411).
LEMMA PatchedRecent ==
  ASSUME PodTypeOK, Recent, NEW m \in Modes, sandbox' = Patched(m),
         UNCHANGED <<condition, observed, pod>>
  PROVE  /\ Recent'
         /\ sandbox'.mode = m /\ sandbox'.generation \in Nat
         /\ sandbox'.generation <= sandbox.generation + 1
         /\ sandbox' = [mode |-> sandbox'.mode, generation |-> sandbox'.generation]
  <1>1. sandbox.generation \in Nat
    BY PodAssumption, RecordTypes DEF Generations
  <1>2. /\ \A n \in Modes : condition[n].generation \in Nat /\ observed[n].generation \in Nat
        /\ "Suspended" \in Modes /\ m # "absent"
    BY PodAssumption, RecordTypes DEF Generations, Condition, Modes
  <1>3. CASE sandbox.mode = m
    <2>1. sandbox' = sandbox
      BY <1>3 DEF Patched
    <2>2. sandbox = [mode |-> sandbox.mode, generation |-> sandbox.generation]
      BY DEF PodTypeOK
    <2>3. Recent'
      BY <2>1 DEF Recent
    <2> QED BY <1>1, <1>3, <2>1, <2>2, <2>3
  <1>4. CASE sandbox.mode # m
    <2>1. sandbox' = [mode |-> m, generation |-> sandbox.generation + 1]
      BY <1>4 DEF Patched
    <2> QED BY <1>1, <1>2, <2>1 DEF Recent
  <1> QED BY <1>3, <1>4

\* Init establishes the invariant (kubernetes.ts:191-220).
LEMMA PodInitInv == PodInit => PodInv
  <1> SUFFICES ASSUME PodInit PROVE PodInv
    OBVIOUS
  <1> USE PodAssumption DEF PodInit
  <1>1. PodTypeOK
    BY DEF PodTypeOK, Never, Idle, Modes, Condition, Generations
  <1>2. Called /\ Changes
    BY DEF Called, StepsOf, Changes, WillChange, Idle, Modes
  <1>3. Numbered /\ Alone /\ Served /\ Recent
    BY DEF Numbered, Alone, Served, Recent, Never, Modes, Idle
  <1> QED BY <1>1, <1>2, <1>3 DEF PodInv

-----------------------------------------------------------------------------
(* The operations *)

\* What an operation that ends leaves: nothing is blocked but by itself, and only a
\* download gives up without that.
LEMMA EndStep ==
  ASSUME PodTypeOK, Called, call.op # "none",
         NEW how \in {"ok", "fault", "uncertain"}, End(how)
  PROVE  /\ call' = [number |-> call.number, op |-> "none", step |-> "idle"]
         /\ phase' \in {"absent", "ready", "parked", "blocked"}
         /\ how = "uncertain" => phase' = "blocked" \/ (call.op = "download" /\ phase' = phase)
         /\ phase' = "parked" => phase = "parked" \/ (how = "ok" /\ call.op = "park")
  <1>1. call' = [number |-> call.number, op |-> "none", step |-> "idle"]
    BY DEF End, Idle
  <1>2. phase \in {"absent", "ready", "parked", "blocked"}
    BY DEF PodTypeOK
  <1>3. CASE how = "ok"
    BY <1>1, <1>3 DEF End
  <1>4. CASE how = "fault"
    <2>1. phase' \in {IF call.op = "create" THEN "blocked" ELSE phase}
      BY <1>4 DEF End
    <2> QED BY <1>1, <1>2, <1>4, <2>1
  <1>5. CASE how = "uncertain"
    <2>1. phase' \in {"blocked"} \cup IF call.op = "download" THEN {phase} ELSE {}
      BY <1>5 DEF End
    <2> QED BY <1>1, <1>2, <1>5, <2>1
  <1> QED BY <1>3, <1>4, <1>5

\* An operation that ends at another step than where it waits for a controller, and
\* changes nothing of the pod, keeps the invariant of the pod.
LEMMA EndKeepsPod ==
  ASSUME PodInv, call.op # "none", call.step # "answer",
         NEW how \in {"fault", "uncertain"}, End(how),
         UNCHANGED <<condition, observed, pod, controllers, alive, ran>>
  PROVE  Called' /\ Numbered' /\ Alone' /\ Served'
  <1>1. /\ call' = [number |-> call.number, op |-> "none", step |-> "idle"]
        /\ phase' = "parked" => phase = "parked"
    BY EndStep DEF PodInv
  <1>2. \A k \in controllers : k.number # call.number
    BY DEF PodInv, Called, StepsOf, Possible, Numbered
  <1>3. Called'
    BY <1>1 DEF Called, StepsOf
  <1>4. Numbered'
    BY <1>1, <1>2 DEF PodInv, Numbered
  <1>5. Alone'
    BY <1>1, <1>2 DEF PodInv, Alone, AtWork
  <1>6. Served'
    BY <1>1 DEF PodInv, Served
  <1> QED BY <1>3, <1>4, <1>5, <1>6

\* What the operation may still change of the object is within the numbers.
LEMMA SumTypes ==
  ASSUME PodTypeOK
  PROVE  /\ sandbox.generation \in Nat /\ delayed["Running"] \in Nat
         /\ delayed["Suspended"] \in Nat /\ call.number \in Nat /\ MaxOperations \in Nat
         /\ call.number <= MaxOperations
  BY PodAssumption, RecordTypes DEF Generations

\* Start is of an operation that is possible; what the last one lost blocks it, so
\* that no command is left (828-876).
LEMMA StartKeepsInv ==
  ASSUME PodInv, NEW op \in Operations, Start(op)
  PROVE  PodInv'
  <1>1. /\ call' = [number |-> call.number + 1, op |-> op, step |-> FirstStep(op)]
        /\ call.op = "none" /\ call.number < MaxOperations /\ Possible(op)
        /\ UNCHANGED <<phase, sandbox, condition, observed, pod, controllers, alive>>
        /\ UNCHANGED <<delayed, ran>>
    BY DEF Start, cluster, guest
  <1>2. /\ FirstStep(op) \in {"create", "patch", "exec"}
        /\ FirstStep(op) \in StepsOf(op)
    BY DEF FirstStep, StepsOf, Operations
  <1>3. call.number \in 0..MaxOperations /\ MaxOperations \in Nat
    BY PodAssumption, RecordTypes DEF PodInv
  <1>4. PodTypeOK'
    BY <1>1, <1>2, <1>3 DEF PodInv, PodTypeOK
  <1>5. Called'
    BY <1>1, <1>2, <1>3 DEF Called, Possible
  <1>6. Changes'
    BY <1>1, <1>3, SumTypes DEF PodInv, Changes
  <1>7. \A k \in controllers : k.number <= call.number /\ k.number \in Nat
    BY RecordTypes DEF PodInv, Numbered
  <1>8. Numbered'
    BY <1>1, <1>3, <1>7 DEF PodInv, Numbered
  <1>9. \A k \in controllers : ~AtWork(k)
    BY <1>1 DEF PodInv, Alone, Possible
  <1>10. Alone'
    BY <1>1, <1>3, <1>7, <1>9 DEF PodInv, Alone, AtWork
  <1>11. Served' /\ Recent'
    BY <1>1 DEF PodInv, Served, Recent
  <1> QED BY <1>4, <1>5, <1>6, <1>8, <1>10, <1>11 DEF PodInv

\* The object is made under the name of the operation, and once (345-390).
LEMMA CreateKeepsInv ==
  ASSUME PodInv, CreateObject
  PROVE  PodInv'
  <1> DEFINE made == [mode |-> "Running", generation |-> 1]
  <1>1. /\ call.step = "create" /\ call.op = "create"
        /\ UNCHANGED <<condition, observed, pod, controllers, alive, delayed, ran>>
    BY DEF PodInv, Called, StepsOf, Possible, CreateObject, guest
  <1>2. sandbox' \in {sandbox, IF sandbox.mode = "absent" THEN made ELSE sandbox}
    BY DEF CreateObject
  <1>3. \/ call' = [call EXCEPT !.step = "wait"] /\ UNCHANGED phase
        \/ End("uncertain")
    BY DEF CreateObject, GoTo
  <1>4. \/ /\ call' = [number |-> call.number, op |-> "create", step |-> "wait"]
           /\ UNCHANGED phase
        \/ /\ call' = [number |-> call.number, op |-> "none", step |-> "idle"]
           /\ phase' = "blocked"
    BY <1>1, <1>3, EndStep, RecordTypes DEF PodInv
  <1>5. Changes' /\ sandbox'.generation \in Nat
    <2>1. ~WillChange'
      BY <1>4 DEF WillChange
    <2>2. WillChange
      BY <1>1 DEF WillChange
    <2>3. /\ sandbox'.generation \in Nat
          /\ sandbox'.generation <= sandbox.generation + 1
      BY <1>2, SumTypes DEF PodInv
    <2>4. call'.number = call.number /\ delayed' = delayed
      BY <1>1, <1>4
    <2> QED BY <2>1, <2>2, <2>3, <2>4, SumTypes DEF PodInv, Changes
  <1>6. PodTypeOK'
    <2>1. sandbox'.generation \in Generations
      BY <1>1, <1>4, <1>5, SumTypes DEF PodInv, Changes, Generations
    <2>2. sandbox' \in [mode : Modes \cup {"absent"}, generation : Generations]
      BY <1>2, <2>1 DEF PodInv, PodTypeOK, Modes
    <2> QED BY <1>1, <1>4, <2>2, RecordTypes DEF PodInv, PodTypeOK, Operations
  <1>7. Called'
    BY <1>1, <1>4 DEF PodInv, Called, StepsOf, Possible
  <1>8. \A k \in controllers : k.number # call.number
    BY <1>1 DEF PodInv, Numbered
  <1>9. Numbered' /\ Alone' /\ Served'
    BY <1>1, <1>4, <1>8 DEF PodInv, Numbered, Alone, AtWork, Served
  <1>10. Recent'
    <2>1. CASE sandbox' = sandbox
      BY <1>1, <2>1 DEF PodInv, Recent
    <2>2. CASE sandbox.mode = "absent" /\ sandbox' = made
      <3>1. \A m \in Modes : condition[m].generation \in Nat /\ observed[m].generation \in Nat
        BY PodAssumption, RecordTypes DEF PodInv, Generations, Condition
      <3> QED BY <1>1, <2>2, <3>1 DEF PodInv, Recent, Modes
    <2> QED BY <1>2, <2>1, <2>2
  <1> QED BY <1>5, <1>6, <1>7, <1>9, <1>10 DEF PodInv

\* The mode is what the operation asks for (398-414).
LEMMA PatchKeepsInv ==
  ASSUME PodInv, Patch
  PROVE  PodInv'
  <1>1. /\ call.step = "patch" /\ call.op \in {"park", "wake"}
        /\ UNCHANGED <<phase, condition, observed, pod, controllers, alive, delayed, ran>>
        /\ sandbox' = Patched(Target) /\ Target \in Modes
    BY DEF PodInv, Called, StepsOf, Possible, Patch, GoTo, guest, Target, Modes
  <1>2. call' = [number |-> call.number, op |-> call.op, step |-> "wait"]
    BY RecordTypes DEF PodInv, Patch, GoTo
  <1>3. /\ Recent'
        /\ sandbox'.mode \in Modes /\ sandbox'.generation \in Nat
        /\ sandbox'.generation <= sandbox.generation + 1
        /\ sandbox' = [mode |-> sandbox'.mode, generation |-> sandbox'.generation]
    BY <1>1, PatchedRecent DEF PodInv
  <1>4. Changes'
    <2>1. WillChange /\ ~WillChange'
      BY <1>1, <1>2 DEF WillChange
    <2> QED BY <1>1, <1>2, <1>3, <2>1, SumTypes DEF PodInv, Changes
  <1>5. PodTypeOK'
    <2>1. sandbox'.generation \in Generations
      BY <1>1, <1>2, <1>3, <1>4, SumTypes DEF PodInv, Changes, Generations
    <2> QED BY <1>1, <1>2, <1>3, <2>1, RecordTypes DEF PodInv, PodTypeOK, Operations
  <1>6. Called'
    BY <1>1, <1>2 DEF PodInv, Called, StepsOf, Possible
  <1>7. Numbered' /\ Alone' /\ Served'
    BY <1>1, <1>2 DEF PodInv, Numbered, Alone, AtWork, Served
  <1> QED BY <1>3, <1>4, <1>5, <1>6, <1>7 DEF PodInv

\* A patch without an answer was applied, will be, or never is (406-411).
LEMMA PatchFailsKeepsInv ==
  ASSUME PodInv, PatchFails
  PROVE  PodInv'
  <1>1. /\ call.step = "patch" /\ call.op \in {"park", "wake"} /\ Target \in Modes
        /\ UNCHANGED <<condition, observed, pod, controllers, alive, ran>> /\ End("fault")
    BY DEF PodInv, Called, StepsOf, Possible, PatchFails, guest, Target, Modes
  <1>2. /\ call' = [number |-> call.number, op |-> "none", step |-> "idle"]
        /\ phase' \in {"absent", "ready", "parked", "blocked"}
    BY <1>1, EndStep DEF PodInv
  <1>3. Called' /\ Numbered' /\ Alone' /\ Served'
    BY <1>1, EndKeepsPod
  <1>4. WillChange /\ ~WillChange' /\ call'.number = call.number
    BY <1>1, <1>2 DEF WillChange
  <1>5. CASE sandbox' = Patched(Target) /\ UNCHANGED delayed
    <2>1. /\ Recent'
          /\ sandbox'.mode \in Modes /\ sandbox'.generation \in Nat
          /\ sandbox'.generation <= sandbox.generation + 1
          /\ sandbox' = [mode |-> sandbox'.mode, generation |-> sandbox'.generation]
      BY <1>1, <1>5, PatchedRecent DEF PodInv
    <2>2. Changes'
      BY <1>4, <1>5, <2>1, SumTypes DEF PodInv, Changes
    <2>3. sandbox'.generation \in Generations
      BY <1>4, <1>5, <2>1, <2>2, SumTypes DEF PodInv, Changes, Generations
    <2>4. PodTypeOK'
      BY <1>1, <1>2, <1>5, <2>1, <2>3, RecordTypes DEF PodInv, PodTypeOK, Operations
    <2> QED BY <1>3, <2>1, <2>2, <2>4 DEF PodInv
  <1>6. CASE UNCHANGED <<sandbox, delayed>>
    <2>1. PodTypeOK' /\ Recent' /\ Changes'
      BY <1>1, <1>2, <1>4, <1>6, SumTypes, RecordTypes
        DEF PodInv, PodTypeOK, Recent, Changes, Operations
    <2> QED BY <1>3, <2>1 DEF PodInv
  <1>7. CASE /\ \A m \in Modes : delayed[m] < MaxDelayed
             /\ delayed' = [delayed EXCEPT ![Target] = @ + 1] /\ UNCHANGED sandbox
    <2>1. /\ delayed' \in [Modes -> 0..MaxDelayed]
          /\ delayed'["Running"] + delayed'["Suspended"] =
               delayed["Running"] + delayed["Suspended"] + 1
      <3>1. delayed \in [Modes -> 0..MaxDelayed]
        BY DEF PodInv, PodTypeOK
      <3> QED BY <1>1, <1>7, <3>1, PodAssumption DEF Modes
    <2>2. /\ delayed'["Running"] \in Nat /\ delayed'["Suspended"] \in Nat
      BY <2>1, PodAssumption DEF Modes
    <2>3. Changes'
      BY <1>4, <1>7, <2>1, <2>2, SumTypes DEF PodInv, Changes
    <2>4. PodTypeOK' /\ Recent'
      BY <1>1, <1>2, <1>7, <2>1, RecordTypes DEF PodInv, PodTypeOK, Recent, Operations
    <2> QED BY <1>3, <2>3, <2>4 DEF PodInv
  <1> QED BY <1>5, <1>6, <1>7 DEF PatchFails

\* A wait that is confirmed: the object is as it was asked to be, at the generation
\* at which the condition was observed (314-334).
LEMMA WaitEndsKeepsInv ==
  ASSUME PodInv, WaitEnds
  PROVE  PodInv'
  <1>1. /\ call.step = "wait" /\ call.op \in {"create", "park", "wake"}
        /\ Confirmed(Target)
        /\ UNCHANGED <<sandbox, condition, observed, pod, controllers, alive, delayed, ran>>
    BY DEF PodInv, Called, StepsOf, Possible, WaitEnds, cluster, guest
  <1>2. \A k \in controllers : k.number # call.number
    BY <1>1 DEF PodInv, Numbered
  <1>3. Recent'
    BY <1>1 DEF PodInv, Recent
  <1>4. CASE call.op = "park"
    <2>1. /\ call' = [number |-> call.number, op |-> "none", step |-> "idle"]
          /\ phase' = "parked"
      BY <1>1, <1>4 DEF WaitEnds, End, Idle
    <2>2. pod.state = "none" /\ controllers = {} /\ alive = {}
      BY <1>1, <1>4 DEF PodInv, Recent, Served, Confirmed, Target
    <2>3. PodTypeOK' /\ Called'
      BY <1>1, <2>1, RecordTypes DEF PodInv, PodTypeOK, Called, StepsOf
    <2>4. Changes'
      <3>1. ~WillChange'
        BY <2>1 DEF WillChange
      <3> QED BY <1>1, <2>1, <3>1, SumTypes DEF PodInv, Changes
    <2>5. Numbered' /\ Alone' /\ Served'
      BY <1>1, <2>1, <2>2 DEF PodInv, Numbered, Alone, Served
    <2> QED BY <1>3, <2>3, <2>4, <2>5 DEF PodInv
  <1>5. CASE call.op # "park"
    <2>1. /\ call' = [number |-> call.number, op |-> call.op, step |-> "exec"]
          /\ phase' = phase
      BY <1>1, <1>5, RecordTypes DEF PodInv, WaitEnds, GoTo
    <2>2. PodTypeOK'
      BY <1>1, <2>1, RecordTypes DEF PodInv, PodTypeOK
    <2>3. Called'
      BY <1>1, <1>5, <2>1 DEF PodInv, Called, StepsOf, Possible
    <2>4. Changes'
      <3>1. ~WillChange'
        BY <1>5, <2>1 DEF WillChange
      <3> QED BY <1>1, <2>1, <3>1, SumTypes DEF PodInv, Changes
    <2>5. Numbered' /\ Alone' /\ Served'
      BY <1>1, <1>2, <1>5, <2>1 DEF PodInv, Numbered, Alone, AtWork, Served
    <2> QED BY <1>3, <2>2, <2>3, <2>4, <2>5 DEF PodInv
  <1> QED BY <1>4, <1>5

\* A wait or an exec that fails blocks the context (99-111, 324-344).
LEMMA FailsKeepsInv ==
  ASSUME PodInv, WaitFails \/ ExecFails
  PROVE  PodInv'
  <1>1. /\ call.step \in {"wait", "exec"} /\ call.op # "none" /\ End("uncertain")
        /\ UNCHANGED <<sandbox, condition, observed, pod, controllers, alive, delayed, ran>>
    BY DEF PodInv, Called, StepsOf, Possible, WaitFails, ExecFails, cluster, guest
  <1>2. /\ call' = [number |-> call.number, op |-> "none", step |-> "idle"]
        /\ phase' \in {"absent", "ready", "parked", "blocked"}
    BY <1>1, EndStep DEF PodInv
  <1>3. Called' /\ Numbered' /\ Alone' /\ Served'
    BY <1>1, EndKeepsPod
  <1>4. ~WillChange' /\ call'.number = call.number
    BY <1>2 DEF WillChange
  <1>5. PodTypeOK' /\ Recent' /\ Changes'
    BY <1>1, <1>2, <1>4, SumTypes, RecordTypes DEF PodInv, PodTypeOK, Recent, Changes
  <1> QED BY <1>3, <1>5 DEF PodInv

\* A controller is started in a pod that is up: the first one of the operation
\* (99-187).
LEMMA ExecKeepsInv ==
  ASSUME PodInv, Exec
  PROVE  PodInv'
  <1> DEFINE new == [number |-> call.number, request |-> Request, step |-> "started"]
  <1>1. /\ call.step = "exec" /\ call.op \in Operations /\ pod.state = "up"
        /\ call.number > 0 /\ Possible(call.op)
        /\ controllers' = controllers \cup {new}
        /\ ran' = (IF Request = "initialize" THEN ran ELSE pod.number)
        /\ UNCHANGED <<phase, sandbox, condition, observed, pod, alive, delayed>>
    BY DEF PodInv, Called, StepsOf, Possible, Operations, Exec, GoTo, cluster
  <1>2. call' = [number |-> call.number, op |-> call.op, step |-> "answer"]
    BY RecordTypes DEF PodInv, Exec, GoTo
  <1>3. /\ Request \in Requests
        /\ Request = "run" <=> call.op = "run"
        /\ Request = "initialize" <=> call.op \in {"create", "wake"}
        /\ Request' = Request
    BY <1>1, <1>2 DEF Request, Requests, Operations
  <1>4. \A k \in controllers : k.number # call.number /\ ~AtWork(k)
    BY <1>1 DEF PodInv, Numbered, Alone
  <1>5. PodTypeOK'
    <2>1. new \in [number : 1..MaxOperations, request : Requests,
                   step : {"started", "quiet", "running", "over", "done", "failed"}]
      BY <1>1, <1>3, SumTypes DEF PodInv
    <2>2. ran' \in 0..MaxPods
      BY <1>1 DEF PodInv, PodTypeOK
    <2>3. call.number \in 0..MaxOperations /\ call.op \in Operations \cup {"none"}
      BY RecordTypes DEF PodInv
    <2> HIDE DEF new
    <2> QED BY <1>1, <1>2, <2>1, <2>2, <2>3 DEF PodInv, PodTypeOK
  <1>6. Called'
    <2>1. "answer" \in StepsOf(call.op)
      BY <1>1 DEF StepsOf, Operations
    <2> QED BY <1>1, <1>2, <2>1 DEF Called, Possible
  <1>7. Changes'
    <2>1. WillChange' <=> WillChange
      BY <1>1, <1>2 DEF WillChange
    <2> QED BY <1>1, <1>2, <2>1, SumTypes DEF PodInv, Changes
  <1>8. Numbered'
    <2>1. call.number \in Nat
      BY SumTypes DEF PodInv
    <2> QED BY <1>1, <1>2, <1>3, <1>4, <2>1 DEF PodInv, Numbered
  <1>9. Alone'
    <2>1. \A k \in controllers' : k = new \/ k \in controllers
      BY <1>1
    <2>2. new.step = "started" /\ new.number = call.number /\ call'.op # "none"
      BY <1>1, <1>2 DEF Operations
    <2> HIDE DEF new
    <2> QED BY <1>1, <1>2, <1>4, <2>1, <2>2 DEF PodInv, Alone, AtWork
  <1>10. Served'
    <2>1. phase = "parked" => Request = "initialize"
      BY <1>1, <1>3 DEF Possible
    <2>2. pod.number \in Nat
      BY PodAssumption, RecordTypes DEF PodInv
    <2> QED BY <1>1, <2>1, <2>2 DEF PodInv, Served
  <1>11. Recent'
    BY <1>1 DEF PodInv, Recent
  <1> QED BY <1>5, <1>6, <1>7, <1>8, <1>9, <1>10, <1>11 DEF PodInv

\* An answer ends its controller; the next step of a park is to suspend (157-162).
LEMMA AnswerKeepsInv ==
  ASSUME PodInv, Answer
  PROVE  PodInv'
  <1>1. PICK k \in controllers :
          /\ k.number = call.number /\ k.step \in {"done", "failed"}
          /\ controllers' = controllers \ {k}
          /\ IF k.step = "done" THEN AfterAnswer ELSE End("fault")
    BY DEF Answer
  <1>2. /\ call.step = "answer" /\ call.op \in Operations /\ Possible(call.op)
        /\ call.number > 0
        /\ UNCHANGED <<sandbox, condition, observed, pod, alive, delayed, ran>>
    BY DEF PodInv, Called, StepsOf, Possible, Operations, Answer, cluster
  <1>3. \A j \in controllers' : /\ j \in controllers /\ j.number # call.number
                                /\ ~AtWork(j)
    BY <1>1 DEF PodInv, Numbered, Alone
  <1>4. \/ /\ call' = [number |-> call.number, op |-> "park", step |-> "patch"]
           /\ phase' = phase /\ call.op = "park"
        \/ /\ call' = [number |-> call.number, op |-> "none", step |-> "idle"]
           /\ phase' \in {"absent", "ready", "parked", "blocked"}
           /\ phase' = "parked" => phase = "parked"
    <2>1. CASE k.step = "done" /\ call.op = "park"
      BY <1>1, <2>1, RecordTypes DEF PodInv, AfterAnswer, GoTo
    <2>2. CASE k.step = "done" /\ call.op # "park"
      <3>1. End("ok")
        BY <1>1, <2>2 DEF AfterAnswer
      <3> QED BY <1>2, <2>2, <3>1, EndStep DEF PodInv, Operations
    <2>3. CASE k.step = "failed"
      <3>1. End("fault")
        BY <1>1, <2>3
      <3> QED BY <1>2, <3>1, EndStep DEF PodInv, Operations
    <2> QED BY <1>1, <2>1, <2>2, <2>3
  <1>5. PodTypeOK'
    BY <1>1, <1>2, <1>4, RecordTypes DEF PodInv, PodTypeOK, Operations
  <1>6. Called'
    BY <1>2, <1>4 DEF Called, StepsOf, Possible
  <1>7. Changes'
    <2>1. call.op # "park" => ~WillChange'
      BY <1>4 DEF WillChange
    <2>2. call.op = "park" => WillChange
      BY <1>2 DEF WillChange
    <2> QED BY <1>2, <1>4, <2>1, <2>2, SumTypes DEF PodInv, Changes
  <1>8. Numbered' /\ Alone'
    BY <1>1, <1>2, <1>3, <1>4 DEF PodInv, Numbered, Alone, AtWork
  <1>9. Served' /\ Recent'
    BY <1>1, <1>2, <1>4 DEF PodInv, Served, Recent
  <1> QED BY <1>5, <1>6, <1>7, <1>8, <1>9 DEF PodInv

\* An answer that is lost leaves a controller at work only in a context that is
\* blocked (119-187).
LEMMA LoseAnswerKeepsInv ==
  ASSUME PodInv, LoseAnswer
  PROVE  PodInv'
  <1>1. /\ call.step = "answer" /\ call.op \in Operations /\ End("uncertain")
        /\ UNCHANGED <<sandbox, condition, observed, pod, controllers, alive, delayed, ran>>
    BY DEF PodInv, Called, StepsOf, Possible, Operations, LoseAnswer, cluster, guest
  <1>2. /\ call' = [number |-> call.number, op |-> "none", step |-> "idle"]
        /\ phase' \in {"absent", "ready", "parked", "blocked"}
        /\ phase' = "blocked" \/ (call.op = "download" /\ phase' = phase)
    BY <1>1, EndStep DEF PodInv, Operations
  <1>3. call.op = "download" => \A k \in controllers : ~AtWork(k)
    BY <1>1 DEF PodInv, Alone, Numbered, AtWork, Request
  <1>4. PodTypeOK' /\ Recent' /\ Called'
    BY <1>1, <1>2, RecordTypes DEF PodInv, PodTypeOK, Recent, Called, StepsOf
  <1>5. Changes'
    <2>1. ~WillChange'
      BY <1>2 DEF WillChange
    <2> QED BY <1>1, <1>2, <2>1, SumTypes DEF PodInv, Changes
  <1>6. Numbered' /\ Alone' /\ Served'
    BY <1>1, <1>2, <1>3 DEF PodInv, Numbered, Alone, AtWork, Served
  <1> QED BY <1>4, <1>5, <1>6 DEF PodInv

-----------------------------------------------------------------------------
(* The controller, and the cluster *)

\* A controller that moves on is still the one of its operation.
LEMMA BecomesStep ==
  ASSUME PodInv, NEW k \in controllers,
         NEW step \in {"quiet", "running", "done", "failed"}, Becomes(k, step),
         UNCHANGED <<phase, call, pod, ran>>
  PROVE  /\ controllers' \subseteq [number : 1..MaxOperations, request : Requests,
                 step : {"started", "quiet", "running", "over", "done", "failed"}]
         /\ Numbered'
         /\ \A j \in controllers' :
              \/ j \in controllers /\ j # k
              \/ j.number = k.number /\ j.request = k.request /\ j.step = step
         /\ pod.state # "none"
         /\ phase = "parked" => \A j \in controllers' : j.request = "initialize"
  <1> DEFINE next == [number |-> k.number, request |-> k.request, step |-> step]
  <1>1. controllers' = (controllers \ {k}) \cup {next}
    BY DEF Becomes, PodInv, PodTypeOK
  <1>2. next \in [number : 1..MaxOperations, request : Requests,
                  step : {"started", "quiet", "running", "over", "done", "failed"}]
    BY RecordTypes DEF PodInv
  <1>3. controllers \subseteq [number : 1..MaxOperations, request : Requests,
                  step : {"started", "quiet", "running", "over", "done", "failed"}]
    BY DEF PodInv, PodTypeOK
  <1>4. next.number = k.number /\ next.request = k.request /\ next.step = step
    OBVIOUS
  <1> HIDE DEF next
  <1>5. Numbered'
    <2>1. \A j \in controllers' : j = next \/ (j \in controllers /\ j # k)
      BY <1>1
    <2>2. Request' = Request
      BY DEF Request
    <2> QED BY <1>4, <2>1, <2>2 DEF PodInv, Numbered
  <1>6. pod.state # "none"
    BY DEF PodInv, Served
  <1> QED BY <1>1, <1>2, <1>3, <1>4, <1>5, <1>6 DEF PodInv, Served

\* A controller makes the workspace quiet, reads or makes files, or ends a command
\* (51-128).
LEMMA ControllerKeepsInv ==
  ASSUME PodInv, NEW k \in controllers,
         Begin(k) \/ Serve(k) \/ Finish(k) \/ Killed(k)
  PROVE  PodInv'
  <1>1. UNCHANGED <<phase, call, sandbox, condition, observed, pod, delayed, ran>>
    BY DEF Begin, Serve, Finish, Killed, GuestOnly, cluster
  <1>2. PICK step \in {"quiet", "done", "failed"} :
          /\ Becomes(k, step)
          /\ alive' = {} \/ alive' = alive
          /\ step = "quiet" => /\ k.step = "started"
                               /\ k.request \in {"run", "download"} => alive' = {}
    <2>1. CASE Begin(k)
      BY <2>1 DEF Begin, NeedsQuiet
    <2>2. CASE Serve(k)
      BY <2>2 DEF Serve
    <2>3. CASE Finish(k)
      BY <2>3 DEF Finish
    <2>4. CASE Killed(k)
      BY <2>4 DEF Killed
    <2> QED BY <2>1, <2>2, <2>3, <2>4
  <1>3. /\ controllers' \subseteq [number : 1..MaxOperations, request : Requests,
                step : {"started", "quiet", "running", "over", "done", "failed"}]
        /\ Numbered'
        /\ \A j \in controllers' :
              \/ j \in controllers /\ j # k
              \/ j.number = k.number /\ j.request = k.request /\ j.step = step
        /\ pod.state # "none"
        /\ phase = "parked" => \A j \in controllers' : j.request = "initialize"
    BY <1>1, <1>2, BecomesStep
  <1>4. PodTypeOK'
    BY <1>1, <1>2, <1>3 DEF PodInv, PodTypeOK
  <1>5. Called' /\ Changes' /\ Recent'
    BY <1>1 DEF PodInv, Called, Possible, Changes, WillChange, Recent
  <1>6. Alone'
    <2>1. \A j \in controllers' :
            AtWork(j) => j.number = call.number /\ (call.op = "none" => phase = "blocked")
      BY <1>2, <1>3 DEF PodInv, Alone, AtWork
    <2>2. \A j \in controllers' :
            j.step = "quiet" /\ j.request \in {"run", "download"} /\ j.number = call.number =>
              alive' = {}
      BY <1>2, <1>3 DEF PodInv, Alone
    <2>3. \A n, i \in alive' : n = i
      BY <1>2 DEF PodInv, Alone
    <2> QED BY <1>1, <2>1, <2>2, <2>3 DEF Alone
  <1>7. Served'
    BY <1>1, <1>2, <1>3 DEF PodInv, Served
  <1> QED BY <1>3, <1>4, <1>5, <1>6, <1>7 DEF PodInv

\* A command starts where nothing is left, and no other controller counts on that
\* (80-88).
LEMMA SpawnKeepsInv ==
  ASSUME PodInv, NEW k \in controllers, Spawn(k)
  PROVE  PodInv'
  <1>1. /\ UNCHANGED <<phase, call, sandbox, condition, observed, pod, delayed, ran>>
        /\ k.step = "quiet" /\ k.request = "run" /\ alive' = alive \cup {k.number}
        /\ Becomes(k, "running")
    BY DEF Spawn, GuestOnly, cluster
  <1>2. k.number = call.number /\ alive = {} /\ k.number \in 1..MaxOperations
    BY <1>1, RecordTypes DEF PodInv, Alone, AtWork
  <1>3. /\ controllers' \subseteq [number : 1..MaxOperations, request : Requests,
                step : {"started", "quiet", "running", "over", "done", "failed"}]
        /\ Numbered'
        /\ \A j \in controllers' :
              \/ j \in controllers /\ j # k
              \/ j.number = k.number /\ j.request = k.request /\ j.step = "running"
        /\ pod.state # "none"
        /\ phase = "parked" => \A j \in controllers' : j.request = "initialize"
    BY <1>1, BecomesStep
  <1>4. PodTypeOK'
    BY <1>1, <1>2, <1>3 DEF PodInv, PodTypeOK
  <1>5. Called' /\ Changes' /\ Recent'
    BY <1>1 DEF PodInv, Called, Possible, Changes, WillChange, Recent
  <1>6. Alone'
    <2>1. \A j \in controllers' :
            AtWork(j) => j.number = call.number /\ (call.op = "none" => phase = "blocked")
      BY <1>1, <1>3 DEF PodInv, Alone, AtWork
    <2>2. \A j \in controllers' : j.number = call.number => j.step # "quiet"
      BY <1>2, <1>3 DEF PodInv, Numbered
    <2> QED BY <1>1, <1>2, <2>1, <2>2 DEF Alone
  <1>7. Served'
    <2>1. phase # "parked"
      BY <1>1 DEF PodInv, Served
    <2> QED BY <1>1, <1>3, <2>1 DEF PodInv, Served
  <1> QED BY <1>3, <1>4, <1>5, <1>6, <1>7 DEF PodInv

\* Processes end by themselves.
LEMMA ExitKeepsInv ==
  ASSUME PodInv, NEW n \in alive, Exit(n)
  PROVE  PodInv'
  <1>1. /\ UNCHANGED <<phase, call, sandbox, condition, observed, pod>>
        /\ UNCHANGED <<controllers, delayed, ran>>
        /\ alive' = alive \ {n}
    BY DEF Exit, GuestOnly, cluster
  <1>2. PodTypeOK' /\ Called' /\ Changes' /\ Recent'
    BY <1>1 DEF PodInv, PodTypeOK, Called, Possible, Changes, WillChange, Recent
  <1>3. Numbered' /\ Alone' /\ Served'
    BY <1>1 DEF PodInv, Numbered, Alone, AtWork, Served, Request
  <1> QED BY <1>2, <1>3 DEF PodInv

\* A pod starts with nothing in it, and ends with all of it; a condition is written
\* from what was observed, however old that is.
LEMMA ClusterKeepsInv ==
  ASSUME PodInv,
         \/ PodStarts \/ PodEnds \/ PodEnded \/ Observe
         \/ \E m \in Modes : WriteCondition(m)
  PROVE  PodInv'
  <1>1. UNCHANGED <<phase, call, sandbox, delayed, ran>>
    BY DEF PodStarts, PodEnds, PodEnded, Observe, WriteCondition, ClusterOnly
  <1>2. Called' /\ Changes'
    BY <1>1 DEF PodInv, Called, Possible, Changes, WillChange
  <1>3. pod.number \in 0..MaxPods /\ pod.number \in Nat /\ MaxPods \in Nat
    BY PodAssumption, RecordTypes DEF PodInv
  <1>4. CASE PodStarts
    <2>1. /\ pod' = [number |-> pod.number + 1, state |-> "up"]
          /\ sandbox.mode = "Running" /\ pod.state = "none" /\ pod.number < MaxPods
          /\ UNCHANGED <<condition, observed, controllers, alive>>
      BY <1>4 DEF PodStarts, guest
    <2>2. PodTypeOK'
      BY <1>1, <1>3, <2>1 DEF PodInv, PodTypeOK
    <2>3. Numbered' /\ Alone'
      BY <1>1, <2>1 DEF PodInv, Numbered, Alone, AtWork, Request
    <2>4. ran \in Nat
      BY PodAssumption DEF PodInv, PodTypeOK
    <2>5. Served'
      BY <1>1, <1>3, <2>1, <2>4 DEF PodInv, Served
    <2>6. Recent'
      BY <1>1, <2>1 DEF PodInv, Recent
    <2> QED BY <1>2, <2>2, <2>3, <2>5, <2>6 DEF PodInv
  <1>5. CASE PodEnds
    <2>1. /\ pod' = [number |-> pod.number, state |-> "ending"] /\ pod.state = "up"
          /\ UNCHANGED <<condition, observed, controllers, alive>>
      BY <1>5 DEF PodInv, PodTypeOK, PodEnds, guest
    <2>2. PodTypeOK'
      BY <1>1, <1>3, <2>1 DEF PodInv, PodTypeOK
    <2>3. Numbered' /\ Alone' /\ Served' /\ Recent'
      BY <1>1, <2>1 DEF PodInv, Numbered, Alone, AtWork, Served, Recent, Request
    <2> QED BY <1>2, <2>2, <2>3 DEF PodInv
  <1>6. CASE PodEnded
    <2>1. /\ pod' = [number |-> pod.number, state |-> "none"]
          /\ controllers' = {} /\ alive' = {}
          /\ UNCHANGED <<condition, observed>>
      BY <1>6 DEF PodInv, PodTypeOK, PodEnded
    <2>2. PodTypeOK'
      BY <1>1, <1>3, <2>1 DEF PodInv, PodTypeOK
    <2>3. Numbered' /\ Alone' /\ Served' /\ Recent'
      BY <1>1, <2>1 DEF PodInv, Numbered, Alone, Served, Recent
    <2> QED BY <1>2, <2>2, <2>3 DEF PodInv
  <1>7. CASE Observe
    <2> DEFINE seen(m) == [generation |-> sandbox.generation,
                           true |-> /\ sandbox.mode = m
                                    /\ pod.state = IF m = "Running" THEN "up" ELSE "none"]
    <2>1. /\ observed' = [m \in Modes |-> seen(m)]
          /\ UNCHANGED <<condition, pod, controllers, alive>>
      BY <1>7 DEF Observe, guest
    <2>2. \A m \in Modes : /\ observed'[m] \in Condition
                           /\ observed'[m].generation = sandbox.generation
      BY <2>1, RecordTypes DEF PodInv, Condition
    <2>3. observed'["Suspended"].true => sandbox.mode = "Suspended" /\ pod.state = "none"
      BY <2>1 DEF Modes
    <2>4. PodTypeOK'
      <3>1. observed' \in [Modes -> Condition]
        BY <2>1, <2>2
      <3> QED BY <1>1, <2>1, <3>1 DEF PodInv, PodTypeOK
    <2>5. Recent'
      <3>1. sandbox.generation \in Nat
        BY SumTypes DEF PodInv
      <3>2. "Suspended" \in Modes
        BY DEF Modes
      <3> QED BY <1>1, <2>1, <2>2, <2>3, <3>1, <3>2 DEF PodInv, Recent
    <2>6. Numbered' /\ Alone' /\ Served'
      BY <1>1, <2>1 DEF PodInv, Numbered, Alone, AtWork, Served, Request
    <2> QED BY <1>2, <2>4, <2>5, <2>6 DEF PodInv
  <1>8. ASSUME NEW m \in Modes, WriteCondition(m)
        PROVE  PodInv'
    <2>1. /\ condition' = [condition EXCEPT ![m] = observed[m]]
          /\ UNCHANGED <<observed, pod, controllers, alive>>
      BY <1>8 DEF WriteCondition, guest
    <2>2. \A n \in Modes : condition'[n] \in {condition[n], observed[n]}
      BY <2>1 DEF PodInv, PodTypeOK
    <2>3. PodTypeOK'
      BY <1>1, <2>1 DEF PodInv, PodTypeOK
    <2>4. Recent'
      BY <1>1, <2>1, <2>2 DEF PodInv, Recent, Modes
    <2>5. Numbered' /\ Alone' /\ Served'
      BY <1>1, <2>1 DEF PodInv, Numbered, Alone, AtWork, Served, Request
    <2> QED BY <1>2, <2>3, <2>4, <2>5 DEF PodInv
  <1> QED BY <1>4, <1>5, <1>6, <1>7, <1>8

\* A late patch makes another generation, of which nothing was observed yet.
LEMMA PatchArrivesKeepsInv ==
  ASSUME PodInv, NEW m \in Modes, PatchArrives(m)
  PROVE  PodInv'
  <1>1. /\ delayed[m] > 0 /\ delayed' = [delayed EXCEPT ![m] = @ - 1]
        /\ sandbox' = Patched(m)
        /\ UNCHANGED <<phase, call, condition, observed, pod, controllers, alive, ran>>
    BY DEF PatchArrives, guest
  <1>2. /\ Recent'
        /\ sandbox'.mode \in Modes /\ sandbox'.generation \in Nat
        /\ sandbox'.generation <= sandbox.generation + 1
        /\ sandbox' = [mode |-> sandbox'.mode, generation |-> sandbox'.generation]
    BY <1>1, PatchedRecent DEF PodInv
  <1>3. /\ delayed' \in [Modes -> 0..MaxDelayed]
        /\ delayed'["Running"] + delayed'["Suspended"] + 1 =
             delayed["Running"] + delayed["Suspended"]
        /\ delayed'["Running"] \in Nat /\ delayed'["Suspended"] \in Nat
    <2>1. delayed \in [Modes -> 0..MaxDelayed]
      BY DEF PodInv, PodTypeOK
    <2> QED BY <1>1, <2>1, PodAssumption DEF Modes
  <1>4. Changes'
    <2>1. WillChange' <=> WillChange
      BY <1>1 DEF WillChange
    <2> QED BY <1>1, <1>2, <1>3, <2>1, SumTypes DEF PodInv, Changes
  <1>5. sandbox'.generation \in Generations
    BY <1>1, <1>2, <1>3, <1>4, SumTypes DEF PodInv, Changes, Generations
  <1>6. PodTypeOK'
    BY <1>1, <1>2, <1>3, <1>5 DEF PodInv, PodTypeOK
  <1>7. Called' /\ Numbered' /\ Alone' /\ Served'
    BY <1>1 DEF PodInv, Called, Possible, Numbered, Alone, AtWork, Served, Request
  <1> QED BY <1>2, <1>4, <1>6, <1>7 DEF PodInv

-----------------------------------------------------------------------------

\* The invariant holds of every behaviour (kubernetes.ts:314-428,
\* native-controller.ts:51-164).
THEOREM PodInvariant == PodSpec => []PodInv
<1>1. PodInit => PodInv
  BY PodInitInv
<1>2. PodInv /\ [PodNext]_podVars => PodInv'
  <2> SUFFICES ASSUME PodInv, [PodNext]_podVars PROVE PodInv'
    OBVIOUS
  <2>1. CASE UNCHANGED podVars
    <3>1. /\ UNCHANGED <<phase, call, sandbox, condition, observed, pod>>
          /\ UNCHANGED <<controllers, alive, delayed, ran>>
      BY <2>1 DEF podVars, cluster, guest
    <3>2. PodTypeOK' /\ Called' /\ Changes' /\ Recent'
      BY <3>1 DEF PodInv, PodTypeOK, Called, Possible, Changes, WillChange, Recent
    <3>3. Numbered' /\ Alone' /\ Served'
      BY <3>1 DEF PodInv, Numbered, Alone, AtWork, Served, Request
    <3> QED BY <3>2, <3>3 DEF PodInv
  <2>2. CASE PodNext
    BY <2>2, StartKeepsInv, CreateKeepsInv, PatchKeepsInv, PatchFailsKeepsInv,
      WaitEndsKeepsInv, FailsKeepsInv, ExecKeepsInv, AnswerKeepsInv, LoseAnswerKeepsInv,
      ControllerKeepsInv, SpawnKeepsInv, ExitKeepsInv, ClusterKeepsInv, PatchArrivesKeepsInv
      DEF PodNext
  <2> QED BY <2>1, <2>2
<1> QED BY <1>1, <1>2, PTL DEF PodSpec

\* Two commands are never at work in one workspace, and none while its tree is read,
\* although a controller may be killed and leave what it started, and a lost one may
\* go on (native-controller.ts:80, 94, 103, 115).
THEOREM WorkloadsAreAlone == PodSpec => []OneWorkloadAtATime
<1>1. PodInv => OneWorkloadAtATime
  <2> SUFFICES ASSUME PodInv PROVE OneWorkloadAtATime
    OBVIOUS
  <2>1. Cardinality(alive) <= 1
    <3>1. CASE alive = {}
      <4>1. Cardinality(alive) = 0
        BY <3>1, FS_EmptySet, Zenon
      <4> QED BY <4>1
    <3>2. CASE alive # {}
      <4>1. PICK n \in alive : alive = {n}
        BY <3>2 DEF PodInv, Alone
      <4>2. Cardinality(alive) = 1
        BY <4>1, FS_Singleton, Zenon
      <4> QED BY <4>2
    <3> QED BY <3>1, <3>2
  <2> QED BY <2>1 DEF PodInv, Alone, OneWorkloadAtATime
<1> QED BY <1>1, PodInvariant, PTL

\* When a context is told to be parked, the pod that served it has ended, with all
\* that ran in it, and not only been told to (kubernetes.ts:314-322).
THEOREM ParkedHasEnded == PodSpec => []ParkedIsStopped
<1>1. PodInv => ParkedIsStopped
  <2> SUFFICES ASSUME PodInv PROVE ParkedIsStopped
    OBVIOUS
  <2>1. pod.number \in Nat /\ ran \in Nat
    BY PodAssumption, RecordTypes DEF PodInv, PodTypeOK
  <2> QED BY <2>1 DEF PodInv, Served, ParkedIsStopped
<1> QED BY <1>1, PodInvariant, PTL
=============================================================================
