-------------------------------- MODULE Pod --------------------------------
(***************************************************************************)
(* A persistent context on Kubernetes (src/src/backends/kubernetes.ts) and *)
(* the controller that serves it in its pod (native-controller.ts): the    *)
(* Sandbox object and its conditions, the pod, the processes in it, and    *)
(* the operation that the Work which holds the context is at.              *)
(*                                                                         *)
(* The cluster acts by itself: it makes and ends pods as the object says,  *)
(* and writes each condition from what it read a while ago.  Any answer    *)
(* may be lost; a patch may arrive late; the controller may be killed.     *)
(***************************************************************************)
EXTENDS Naturals, FiniteSets

CONSTANTS
  MaxOperations,   \* bound: the operations on the context
  MaxPods,         \* bound: the pods of the object, one after the other
  MaxDelayed       \* bound: the patches that arrive late

ASSUME PodAssumption == MaxOperations \in Nat /\ MaxPods \in Nat /\ MaxDelayed \in Nat

VARIABLES
  phase,       \* the context, as the journal has it
  call,        \* the operation at work
  sandbox,     \* the object: its mode and its generation
  condition,   \* Modes -> the generation it was observed at, and whether it is true
  observed,    \* what the cluster read of the object and is about to write
  pod,         \* the pod: its number, and whether it is up
  controllers, \* the controller processes in the pod
  alive,       \* the commands with processes in the pod, by operation
  delayed,     \* the patches that may still arrive
  ran          \* history: the pod that last served anything but initialize

cluster == <<sandbox, condition, observed, pod>>
guest == <<controllers, alive>>
podVars == <<phase, call, cluster, guest, delayed, ran>>

Modes == {"Running", "Suspended"}
Generations == 0..MaxOperations
Operations == {"create", "run", "download", "park", "wake"}
Requests == {"initialize", "run", "download", "quiesce"}
Condition == [generation : Generations, true : BOOLEAN]

PodTypeOK ==
  /\ phase \in {"absent", "ready", "parked", "blocked"}
  /\ call \in [number : 0..MaxOperations, op : Operations \cup {"none"},
               step : {"idle", "create", "patch", "wait", "exec", "answer"}]
  /\ sandbox \in [mode : Modes \cup {"absent"}, generation : Generations]
  /\ condition \in [Modes -> Condition]
  /\ observed \in [Modes -> Condition]
  /\ pod \in [number : 0..MaxPods, state : {"none", "up", "ending"}]
  /\ controllers \subseteq
       [number : 1..MaxOperations, request : Requests,
        step : {"started", "quiet", "running", "over", "done", "failed"}]
  /\ alive \subseteq 1..MaxOperations
  /\ delayed \in [Modes -> 0..MaxDelayed]
  /\ ran \in 0..MaxPods

Never == [generation |-> 0, true |-> FALSE]
Idle(number) == [number |-> number, op |-> "none", step |-> "idle"]

PodInit ==
  /\ phase = "absent" /\ call = Idle(0)
  /\ sandbox = [mode |-> "absent", generation |-> 0]
  /\ condition = [m \in Modes |-> Never] /\ observed = [m \in Modes |-> Never]
  /\ pod = [number |-> 0, state |-> "none"]
  /\ controllers = {} /\ alive = {} /\ ran = 0
  /\ delayed = [m \in Modes |-> 0]

-----------------------------------------------------------------------------
(* The operations *)

\* What a Work does with a context in this phase (src/src/platform.ts:828-876,
\* 1335-1406).
Possible(op) ==
  CASE phase = "absent" -> op = "create"
    [] phase = "ready" -> op \in {"run", "download", "park"}
    [] phase = "parked" -> op = "wake"
    [] OTHER -> FALSE

FirstStep(op) == CASE op = "create" -> "create" [] op = "wake" -> "patch" [] OTHER -> "exec"

Start(op) ==
  /\ call.op = "none" /\ call.number < MaxOperations /\ Possible(op)
  /\ call' = [number |-> call.number + 1, op |-> op, step |-> FirstStep(op)]
  /\ UNCHANGED <<phase, cluster, guest, delayed, ran>>

GoTo(step) == call' = [call EXCEPT !.step = step] /\ UNCHANGED phase

\* Nothing happens on a context that is blocked.  A capture in doubt blocks it, too,
\* but not where it is the seal of a command (1346-1361).
End(how) ==
  /\ call' = Idle(call.number)
  /\ phase' \in
       CASE how = "ok" -> {IF call.op = "park" THEN "parked" ELSE "ready"}
         [] how = "fault" -> {IF call.op = "create" THEN "blocked" ELSE phase}
         [] how = "uncertain" -> {"blocked"} \cup IF call.op = "download" THEN {phase} ELSE {}

\* The name of the object is that of the operation: a second create finds the
\* first.
CreateObject ==
  /\ call.step = "create"
  /\ \/ /\ sandbox' = IF sandbox.mode = "absent" THEN [mode |-> "Running", generation |-> 1]
                      ELSE sandbox
        /\ GoTo("wait") \/ End("uncertain")
     \/ /\ sandbox.mode = "absent"
        /\ End("uncertain") /\ UNCHANGED sandbox
  /\ UNCHANGED <<condition, observed, pod, guest, delayed, ran>>

Target == IF call.op = "park" THEN "Suspended" ELSE "Running"
Patched(mode) ==
  IF sandbox.mode = mode THEN sandbox
  ELSE [mode |-> mode, generation |-> sandbox.generation + 1]

Patch ==
  /\ call.step = "patch"
  /\ sandbox' = Patched(Target) /\ GoTo("wait")
  /\ UNCHANGED <<condition, observed, pod, guest, delayed, ran>>

\* A patch without an answer is an error of its own, and external makes it a
\* fault: it was applied, will be, or never is.
PatchFails ==
  /\ call.step = "patch" /\ End("fault")
  /\ \/ sandbox' = Patched(Target) /\ UNCHANGED delayed
     \/ UNCHANGED <<sandbox, delayed>>
     \/ /\ \A m \in Modes : delayed[m] < MaxDelayed
        /\ delayed' = [delayed EXCEPT ![Target] = @ + 1] /\ UNCHANGED sandbox
  /\ UNCHANGED <<condition, observed, pod, guest, ran>>

\* Mutant: a condition is taken as it stands.
ConfirmedOnce(mode) == sandbox.mode = mode /\ condition[mode].true
Confirmed(mode) ==
  /\ sandbox.mode = mode /\ condition[mode].true
  /\ condition[mode].generation = sandbox.generation

WaitEnds ==
  /\ call.step = "wait" /\ Confirmed(Target)
  /\ IF call.op = "park" THEN End("ok") ELSE GoTo("exec")
  /\ UNCHANGED <<cluster, guest, delayed, ran>>

WaitFails ==
  /\ call.step = "wait" /\ End("uncertain")
  /\ UNCHANGED <<cluster, guest, delayed, ran>>

Request ==
  CASE call.op \in {"create", "wake"} -> "initialize"
    [] call.op = "park" -> "quiesce"
    [] OTHER -> call.op

\* exec finds the pod of the object and starts a controller in it.
Exec ==
  /\ call.step = "exec" /\ pod.state = "up"
  /\ controllers' = controllers \cup
       {[number |-> call.number, request |-> Request, step |-> "started"]}
  /\ ran' = IF Request = "initialize" THEN ran ELSE pod.number
  /\ GoTo("answer")
  /\ UNCHANGED <<cluster, alive, delayed>>

ExecFails ==
  /\ call.step = "exec" /\ End("uncertain")
  /\ UNCHANGED <<cluster, guest, delayed, ran>>

AfterAnswer == IF call.op = "park" THEN GoTo("patch") ELSE End("ok")
Answer ==
  /\ call.step = "answer"
  /\ \E k \in controllers :
       /\ k.number = call.number /\ k.step \in {"done", "failed"}
       /\ controllers' = controllers \ {k}
       /\ IF k.step = "done" THEN AfterAnswer ELSE End("fault")
  /\ UNCHANGED <<cluster, alive, delayed, ran>>

\* A timeout, an abort, too much output, or a connection that breaks.  Mutant:
\* the error is classified as any other.
LoseAnswerAsFault ==
  /\ call.step = "answer" /\ End("fault")
  /\ UNCHANGED <<cluster, guest, delayed, ran>>
LoseAnswer ==
  /\ call.step = "answer" /\ End("uncertain")
  /\ UNCHANGED <<cluster, guest, delayed, ran>>

-----------------------------------------------------------------------------
(* The controller in the pod *)

GuestOnly == UNCHANGED <<phase, call, cluster, delayed, ran>>
Becomes(k, step) == controllers' = (controllers \ {k}) \cup {[k EXCEPT !.step = step]}

\* Mutant: a command starts beside what the last one left.
NeedsQuietSome == {"download", "quiesce"}
NeedsQuiet == {"run", "download", "quiesce"}

Begin(k) ==
  /\ k.step = "started"
  /\ \/ /\ Becomes(k, "quiet")
        /\ alive' = IF k.request \in NeedsQuiet THEN {} ELSE alive
     \/ /\ k.request \in NeedsQuiet /\ alive # {}
        /\ Becomes(k, "failed") /\ UNCHANGED alive
  /\ GuestOnly

Spawn(k) ==
  /\ k.step = "quiet" /\ k.request = "run"
  /\ alive' = alive \cup {k.number}
  /\ Becomes(k, "running") /\ GuestOnly

\* Files were written, read or made; one that is unfit fails the request.
Serve(k) ==
  /\ k.step = "quiet" /\ k.request # "run"
  /\ Becomes(k, "done") \/ Becomes(k, "failed")
  /\ UNCHANGED alive /\ GuestOnly

\* The command ends or is over a limit: what is left of it is killed, if it can be.
Finish(k) ==
  /\ k.step = "running"
  /\ \/ alive' = {} /\ (Becomes(k, "done") \/ Becomes(k, "failed"))
     \/ alive # {} /\ UNCHANGED alive /\ Becomes(k, "failed")
  /\ GuestOnly

\* The controller itself is killed, for memory.
Killed(k) ==
  /\ k.step \in {"started", "quiet", "running"}
  /\ Becomes(k, "failed") /\ UNCHANGED alive /\ GuestOnly

\* All processes of the command have ended by themselves.
Exit(n) ==
  /\ n \in alive /\ alive' = alive \ {n}
  /\ UNCHANGED controllers /\ GuestOnly

-----------------------------------------------------------------------------
(* The cluster *)

ClusterOnly == UNCHANGED <<phase, call, delayed, ran>>

PodStarts ==
  /\ sandbox.mode = "Running" /\ pod.state = "none" /\ pod.number < MaxPods
  /\ pod' = [number |-> pod.number + 1, state |-> "up"]
  /\ UNCHANGED <<sandbox, condition, observed, guest>> /\ ClusterOnly

\* Suspended, or evicted.
PodEnds ==
  /\ pod.state = "up"
  /\ pod' = [pod EXCEPT !.state = "ending"]
  /\ UNCHANGED <<sandbox, condition, observed, guest>> /\ ClusterOnly

PodEnded ==
  /\ pod.state = "ending"
  /\ pod' = [pod EXCEPT !.state = "none"]
  /\ controllers' = {} /\ alive' = {}
  /\ UNCHANGED <<sandbox, condition, observed>> /\ ClusterOnly

Observe ==
  /\ sandbox.mode # "absent"
  /\ observed' = [m \in Modes |->
       [generation |-> sandbox.generation,
        true |-> /\ sandbox.mode = m
                 /\ pod.state = IF m = "Running" THEN "up" ELSE "none"]]
  /\ UNCHANGED <<sandbox, condition, pod, guest>> /\ ClusterOnly

WriteCondition(m) ==
  /\ observed[m].generation > 0
  /\ condition' = [condition EXCEPT ![m] = observed[m]]
  /\ UNCHANGED <<sandbox, observed, pod, guest>> /\ ClusterOnly

PatchArrives(m) ==
  /\ delayed[m] > 0
  /\ delayed' = [delayed EXCEPT ![m] = @ - 1]
  /\ sandbox' = Patched(m)
  /\ UNCHANGED <<phase, call, condition, observed, pod, guest, ran>>

PodNext ==
  \/ \E op \in Operations : Start(op)
  \/ CreateObject \/ Patch \/ PatchFails \/ WaitEnds \/ WaitFails
  \/ Exec \/ ExecFails \/ Answer \/ LoseAnswer
  \/ \E k \in controllers : Begin(k) \/ Spawn(k) \/ Serve(k) \/ Finish(k) \/ Killed(k)
  \/ \E n \in alive : Exit(n)
  \/ PodStarts \/ PodEnds \/ PodEnded \/ Observe
  \/ \E m \in Modes : WriteCondition(m) \/ PatchArrives(m)

PodSpec == PodInit /\ [][PodNext]_podVars

-----------------------------------------------------------------------------

\* Two commands are never at work in one workspace, and none while the tree of the
\* workspace is read, although a controller may be killed and leave what it
\* started, and a lost one may go on (native-controller.ts:80, 94, 103, 115).
OneWorkloadAtATime ==
  /\ Cardinality(alive) <= 1
  /\ \A k \in controllers :
       k.request = "download" /\ k.step = "quiet" /\ k.number = call.number => alive = {}

\* When a context is told to be parked, the pod that served it has ended, with all
\* that ran in it, and not only been told to (kubernetes.ts:314-322): what wake
\* remounts has no old writer.
ParkedIsStopped ==
  phase = "parked" => alive = {} /\ (pod.state # "none" => pod.number # ran)
=============================================================================
