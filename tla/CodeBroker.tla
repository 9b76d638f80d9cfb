---------------------------- MODULE CodeBroker ----------------------------
(***************************************************************************)
(* The tool calls of one code.execute Work, from the start of its          *)
(* interpreter to its receipt: the broker of platform.ts, the two          *)
(* interpreters that call it back, and the fiber that records the end.     *)
(*                                                                         *)
(* Every call runs in a fiber of its own and goes through up to three      *)
(* transactions: reserveCall, toolObserved and releaseCall.  The fiber of  *)
(* the Work has transactions of its own, and so does a cancel.  All of     *)
(* them stand in the one queue of the journal (chain), which runs them     *)
(* first-in first-out (journal.ts:162-177): a transaction joins the queue  *)
(* in one step and commits in a later one.                                 *)
(*                                                                         *)
(* "quickjs" is a child process that writes frames to a pipe; "cloudflare" *)
(* is a remote worker that calls an HTTP endpoint and then answers the     *)
(* request that started it.  A crash ends the Work in WorkManager.         *)
(***************************************************************************)
EXTENDS Naturals, Sequences, FiniteSets

CONSTANTS
  Calls,          \* the calls a program may make, by requestId
  None,           \* no call
  CallLimit,      \* work.bounds.calls
  InFlightLimit,  \* work.bounds.inFlight
  Interpreters,   \* the backends that may have been chosen
  MaxFaults       \* bound: journal transactions that fail

ASSUME BrokerAssumption ==
  /\ CallLimit \in Nat /\ InFlightLimit \in Nat /\ MaxFaults \in Nat
  /\ Interpreters \subseteq {"quickjs", "cloudflare"}
  /\ None \notin Calls

VARIABLES
  \* The row of the Work and its events.
  phase,        \* work.state.phase
  gate,         \* work.gate
  calls,        \* work.calls
  inFlight,     \* work.inFlight
  started,      \* calls with an event of phase "started"
  observed,     \* calls with an event of phase "observed"
  \* The coordinator process.
  chain,        \* the transactions that have not committed
  call,         \* where the fiber of each call is
  reply,        \* what the call resolves to
  fiber,        \* where the fiber of the Work is
  cancel,       \* where a cancel request is
  aborted,      \* controller.signal of the Work
  \* The interpreter and its connection.
  interpreter,  \* which backend runs the program
  host,         \* "open", "returned" with its result pending, or "closed"
  failure,      \* entry.failure of a remote channel
  result,       \* what execute resolved to
  late,         \* whether work.demand.deadline has passed
  faults        \* how many transactions have failed

row == << phase, gate, calls, inFlight, started, observed >>
backend == << interpreter, host, failure, result >>
control == << fiber, cancel, aborted >>
world == << late, faults >>
vars == << row, chain, call, reply, backend, control, world >>

-----------------------------------------------------------------------------
(* Shapes *)

CallStates == {"none", "reserving", "invoking", "observing", "releasing",
               "done", "gone"}
FiberStates == {"executing", "completing", "checking", "settling", "idle"}
\* "stopped" stands for every Fault and Interrupt.
Errors == {"stopped", "uncertain"}
Receipts == {"settled", "reconciling"}

Tx(kind, c, timely, to) == [tx |-> kind, call |-> c, timely |-> timely,
                            to |-> to]
ReserveTx(c) == Tx("reserve", c, ~late, "none")
ObserveTx(c) == Tx("observe", c, TRUE, "none")
ReleaseTx(c) == Tx("release", c, TRUE, "none")
CheckTx == Tx("check", None, TRUE, "none")
SettleTx(to) == Tx("settle", None, TRUE, to)
CloseGateTx == Tx("closeGate", None, TRUE, "none")

CallTransactions ==
  [tx : {"reserve", "observe", "release"}, call : Calls, timely : BOOLEAN,
   to : {"none"}]
WorkTransactions ==
  [tx : {"settle"}, call : {None}, timely : {TRUE}, to : Receipts]
    \cup [tx : {"check", "closeGate"}, call : {None}, timely : {TRUE}, to : {"none"}]
Transactions == CallTransactions \cup WorkTransactions

\* Calls the interpreter waits for: accepted of quickjs.ts, entry.active of
\* cloudflare.ts.
Outstanding == {c \in Calls : call[c] \notin {"none", "gone"}}
\* Calls between their reservation and their release.
Reserved == {c \in Calls : call[c] \in {"invoking", "observing", "releasing"}}

\* Every variable holds a value of its type.
TypeOK ==
  /\ phase \in {"running"} \cup Receipts
  /\ gate \in BOOLEAN
  /\ calls \in Nat /\ inFlight \in Nat
  /\ started \subseteq Calls /\ observed \subseteq Calls
  /\ chain \in Seq(Transactions)
  /\ call \in [Calls -> CallStates]
  /\ reply \in [Calls -> {"none", "value"} \cup Errors]
  /\ fiber \in FiberStates
  /\ cancel \in {"none", "closing", "closed", "done"}
  /\ aborted \in BOOLEAN
  /\ interpreter \in Interpreters
  /\ host \in {"open", "returned", "closed"}
  /\ failure \in {"none"} \cup Errors
  /\ result \in {"none", "completed"} \cup Errors
  /\ late \in BOOLEAN
  /\ faults \in 0..MaxFaults

Init ==
  /\ phase = "running" /\ gate = TRUE
  /\ calls = 0 /\ inFlight = 0
  /\ started = {} /\ observed = {}
  /\ chain = << >>
  /\ call = [c \in Calls |-> "none"]
  /\ reply = [c \in Calls |-> "none"]
  /\ fiber = "executing" /\ cancel = "none" /\ aborted = FALSE
  /\ interpreter \in Interpreters
  /\ host = "open" /\ failure = "none" /\ result = "none"
  /\ late = FALSE /\ faults = 0

-----------------------------------------------------------------------------
(* The queue of transactions *)

Enqueue(tx) == chain' = Append(chain, tx)
At(kind) == chain # << >> /\ Head(chain).tx = kind
Commit == chain' = Tail(chain)
CommitThen(tx) == chain' = Append(Tail(chain), tx)

CallMoves(c, to) == call' = [call EXCEPT ![c] = to]
CallEnds(c, with) ==
  /\ CallMoves(c, "done")
  /\ reply' = [reply EXCEPT ![c] = with]

-----------------------------------------------------------------------------
(* A call of the program *)

\* The child process writes a call frame, or the worker posts to the bridge.
\* A remote call is refused once its channel has failed, aborted or expired.
Listening ==
  /\ host # "closed"
  /\ interpreter = "cloudflare" => failure = "none" /\ ~aborted /\ ~late

\* The broker authorizes the call, checks its argument and reads the clock
\* without awaiting anything, and joins the queue with reserveCall.
AcceptCall(c) ==
  /\ Listening /\ call[c] = "none"
  /\ CallMoves(c, "reserving")
  /\ Enqueue(ReserveTx(c))
  /\ UNCHANGED << row, reply, backend, control, world >>

\* The principal is gone, or the argument is too large.
DenyCall(c) ==
  /\ Listening /\ call[c] = "none"
  /\ CallEnds(c, "stopped")
  /\ UNCHANGED << row, chain, backend, control, world >>

CallAllowed(tx) == gate /\ tx.timely
\* Mutant of LimitReached: both comparisons off by one.
LimitReachedLate == calls > CallLimit \/ inFlight > InFlightLimit

LimitReached == calls >= CallLimit \/ inFlight >= InFlightLimit

\* Mutant of RefuseCall: the release also runs for a call that has no slot.
RefuseCallReleasing ==
  /\ At("reserve") /\ ~CallAllowed(Head(chain))
  /\ CallMoves(Head(chain).call, "releasing")
  /\ reply' = [reply EXCEPT ![Head(chain).call] = "stopped"]
  /\ CommitThen(ReleaseTx(Head(chain).call))
  /\ UNCHANGED << row, backend, control, world >>

\* reserveCall throws: the gate is closed or the deadline had passed.
RefuseCall ==
  /\ At("reserve") /\ ~CallAllowed(Head(chain))
  /\ CallEnds(Head(chain).call, "stopped")
  /\ Commit
  /\ UNCHANGED << row, backend, control, world >>

\* reserveCall at a limit closes the gate for all later calls.
LimitCall ==
  /\ At("reserve") /\ CallAllowed(Head(chain)) /\ LimitReached
  /\ gate' = FALSE
  /\ CallEnds(Head(chain).call, "stopped")
  /\ Commit
  /\ UNCHANGED << phase, calls, inFlight, started, observed, backend, control,
                  world >>

ReserveCall ==
  /\ At("reserve") /\ CallAllowed(Head(chain)) /\ ~LimitReached
  /\ calls' = calls + 1 /\ inFlight' = inFlight + 1
  /\ started' = started \cup {Head(chain).call}
  /\ CallMoves(Head(chain).call, "invoking")
  /\ Commit
  /\ UNCHANGED << phase, gate, observed, reply, backend, control, world >>

\* The tool answers, or refuses with a Fault that the program is told of.
Answer(c) ==
  /\ call[c] = "invoking"
  /\ CallMoves(c, "observing")
  /\ Enqueue(ObserveTx(c))
  /\ UNCHANGED << row, reply, backend, control, world >>

\* The tool fails in a way that leaves its effect unknown.
LoseAnswer(c) ==
  /\ call[c] = "invoking"
  /\ CallMoves(c, "releasing")
  /\ reply' = [reply EXCEPT ![c] = "uncertain"]
  /\ Enqueue(ReleaseTx(c))
  /\ UNCHANGED << row, backend, control, world >>

ObserveCall ==
  /\ At("observe")
  /\ observed' = observed \cup {Head(chain).call}
  /\ CallMoves(Head(chain).call, "releasing")
  /\ reply' = [reply EXCEPT ![Head(chain).call] = "value"]
  /\ CommitThen(ReleaseTx(Head(chain).call))
  /\ UNCHANGED << phase, gate, calls, inFlight, started, backend, control,
                  world >>

ReleaseCall ==
  /\ At("release")
  /\ inFlight' = IF inFlight = 0 THEN 0 ELSE inFlight - 1
  /\ CallMoves(Head(chain).call, "done")
  /\ Commit
  /\ UNCHANGED << phase, gate, calls, started, observed, reply, backend,
                  control, world >>
-----------------------------------------------------------------------------
(* The interpreter *)

\* Mutant of EndHost: the end is reported as it is, outstanding calls or not.
EndHostAsIs(with) == host' = "closed" /\ result' = with

\* done() of quickjs.ts: the first end wins, the child is killed, and an end
\* with calls outstanding is uncertain whatever it was.
EndHost(with) ==
  /\ host' = "closed"
  /\ result' = IF Outstanding = {} THEN with ELSE "uncertain"

\* quickjs: the call resolves.  A value is written to the child; one that is
\* too large, or an error, ends the interpreter while the call still counts
\* as outstanding.
DeliverFrame(c) ==
  /\ interpreter = "quickjs" /\ call[c] = "done"
  /\ CallMoves(c, "gone")
  /\ \/ (reply[c] = "value" \/ host = "closed") /\ UNCHANGED << host, result >>
     \/ host # "closed" /\ EndHost("uncertain")
  /\ UNCHANGED << row, chain, reply, interpreter, failure, control, world >>

\* cloudflare: the callback is answered; an error stays with the channel.
AnswerCallback(c) ==
  /\ interpreter = "cloudflare" /\ call[c] = "done"
  /\ CallMoves(c, "gone")
  /\ failure' = IF reply[c] = "value" THEN failure ELSE reply[c]
  /\ UNCHANGED << row, chain, reply, interpreter, host, result, control, world >>

\* quickjs: the result frame.  The log writes are waited for.
ProgramReturns ==
  /\ interpreter = "quickjs" /\ host = "open"
  /\ \/ Outstanding = {} /\ host' = "returned" /\ UNCHANGED result
     \/ Outstanding # {} /\ EndHost("uncertain")
  /\ UNCHANGED << row, chain, call, reply, interpreter, failure, control, world >>

LogsWritten ==
  /\ interpreter = "quickjs" /\ host = "returned"
  /\ EndHost("completed")
  /\ UNCHANGED << row, chain, call, reply, interpreter, failure, control, world >>

\* quickjs: a guest error, a lost child, a limit, a failed log or the watchdog.
RunnerStops ==
  /\ interpreter = "quickjs" /\ host # "closed"
  /\ EndHost("stopped")
  /\ UNCHANGED << row, chain, call, reply, interpreter, failure, control, world >>

\* cloudflare: the head of the response arrives.  channel.check() looks at
\* the calls once, here; the rest of the body is read afterwards.
CheckChannel ==
  IF failure # "none" THEN failure
  ELSE IF Outstanding # {} THEN "stopped"
  ELSE "none"

ResponseArrives ==
  /\ interpreter = "cloudflare" /\ host = "open" /\ result = "none"
  /\ \/ CheckChannel # "none" /\ result' = CheckChannel /\ UNCHANGED host
     \/ CheckChannel = "none" /\ host' = "returned" /\ UNCHANGED result
  /\ UNCHANGED << row, chain, call, reply, interpreter, failure, control, world >>

BodyRead ==
  /\ interpreter = "cloudflare" /\ host = "returned" /\ result = "none"
  /\ result' = "completed"
  /\ UNCHANGED << row, chain, call, reply, interpreter, host, failure, control,
                  world >>

\* cloudflare: the connection breaks or is aborted, the status is not ok, or
\* the body is too large or malformed.
GatewayFails ==
  /\ interpreter = "cloudflare" /\ host # "closed" /\ result = "none"
  /\ result' = "stopped"
  /\ UNCHANGED << row, chain, call, reply, interpreter, host, failure, control,
                  world >>
-----------------------------------------------------------------------------
(* The fiber of the Work *)

\* execute resolves, and its channel closes.  A result is recorded at once;
\* an error is first held against the calls on record, unless it is known to
\* be uncertain.
Conclude ==
  /\ fiber = "executing" /\ result # "none"
  /\ host' = "closed"
  /\ \/ /\ result = "completed" /\ fiber' = "completing"
        /\ Enqueue(SettleTx("settled"))
     \/ /\ result = "uncertain" /\ fiber' = "settling"
        /\ Enqueue(SettleTx("reconciling"))
     \/ /\ result = "stopped" /\ fiber' = "checking"
        /\ Enqueue(CheckTx)
  /\ UNCHANGED << row, call, reply, interpreter, failure, result, cancel,
                  aborted, world >>

\* Mutant of TimesOut: the deadline is left to an interpreter that has not yet
\* answered.
TimesOutWhileOpen ==
  /\ late /\ fiber = "executing" /\ host = "open"
  /\ aborted' = TRUE /\ host' = "closed"
  /\ fiber' = "checking"
  /\ Enqueue(CheckTx)
  /\ UNCHANGED << row, call, reply, interpreter, failure, result, cancel, world >>

\* The deadline of dispatch interrupts run, which leaves a transaction that
\* is already in the queue where it is.
TimesOut ==
  /\ late /\ fiber \in {"executing", "completing"}
  /\ aborted' = TRUE /\ host' = "closed"
  /\ fiber' = "checking"
  /\ Enqueue(CheckTx)
  /\ UNCHANGED << row, call, reply, interpreter, failure, result, cancel, world >>

CallsAccounted == started \subseteq observed

\* Mutant of CheckCalls: the receipt is decided without a look at the events.
CheckCallsBlind ==
  /\ At("check")
  /\ fiber' = "settling"
  /\ CommitThen(SettleTx("settled"))
  /\ UNCHANGED << row, call, reply, backend, cancel, aborted, world >>

\* unobservedCalls of fail, and the receipt it decides on.
CheckCalls ==
  /\ At("check")
  /\ fiber' = "settling"
  /\ CommitThen(SettleTx(IF CallsAccounted THEN "settled" ELSE "reconciling"))
  /\ UNCHANGED << row, call, reply, backend, cancel, aborted, world >>

\* setState: a settled Work is left as it is.
Settle ==
  /\ At("settle")
  /\ \/ phase = "settled" /\ UNCHANGED << phase, gate >>
     \/ phase # "settled" /\ phase' = Head(chain).to /\ gate' = FALSE
  /\ fiber' = IF fiber = "checking" THEN "checking" ELSE "idle"
  /\ Commit
  /\ UNCHANGED << calls, inFlight, started, observed, call, reply, backend,
                  cancel, aborted, world >>
-----------------------------------------------------------------------------
(* A cancel, the journal and the clock *)

RequestCancel ==
  /\ cancel = "none"
  /\ cancel' = "closing"
  /\ Enqueue(CloseGateTx)
  /\ UNCHANGED << row, call, reply, backend, fiber, aborted, world >>

CloseGate ==
  /\ At("closeGate")
  /\ gate' = FALSE /\ cancel' = "closed"
  /\ Commit
  /\ UNCHANGED << phase, calls, inFlight, started, observed, call, reply,
                  backend, fiber, aborted, world >>

\* The controller is gone with the fiber.  Its signal ends a child process at
\* once; it breaks a remote request, which is GatewayFails.
AbortRun ==
  /\ cancel = "closed"
  /\ cancel' = "done"
  /\ aborted' = (aborted \/ fiber # "idle")
  /\ \/ /\ interpreter = "quickjs" /\ fiber # "idle" /\ host # "closed"
        /\ EndHost("stopped")
     \/ /\ ~(interpreter = "quickjs" /\ fiber # "idle" /\ host # "closed")
        /\ UNCHANGED << host, result >>
  /\ UNCHANGED << row, chain, call, reply, interpreter, failure, fiber, world >>

Fails(kind) ==
  /\ At(kind) /\ faults < MaxFaults
  /\ faults' = faults + 1
  /\ UNCHANGED << row, backend, aborted, late >>

\* A call whose transaction fails ends with an error.  One that was reserved
\* is released first; a release that fails leaves its slot counted.
CallTransactionFails ==
  \/ /\ Fails("reserve") \/ Fails("release")
     /\ CallEnds(Head(chain).call, "stopped")
     /\ Commit
     /\ UNCHANGED << fiber, cancel >>
  \/ /\ Fails("observe")
     /\ CallMoves(Head(chain).call, "releasing")
     /\ reply' = [reply EXCEPT ![Head(chain).call] = "stopped"]
     /\ CommitThen(ReleaseTx(Head(chain).call))
     /\ UNCHANGED << fiber, cancel >>

\* A completion that fails is a failure of run, and goes through fail.  What
\* fails in fail ends the fiber, with the Work still running.
WorkTransactionFails ==
  /\ UNCHANGED << call, reply >>
  /\ \/ /\ Fails("settle") /\ fiber = "completing"
        /\ fiber' = "checking" /\ CommitThen(CheckTx)
        /\ UNCHANGED cancel
     \/ /\ Fails("settle") /\ fiber # "completing"
        /\ fiber' = IF fiber = "checking" THEN "checking" ELSE "idle"
        /\ Commit
        /\ UNCHANGED cancel
     \/ /\ Fails("check")
        /\ fiber' = "idle" /\ Commit
        /\ UNCHANGED cancel
     \/ /\ Fails("closeGate")
        /\ cancel' = "done" /\ Commit
        /\ UNCHANGED fiber

TimeUp ==
  /\ ~late /\ late' = TRUE
  /\ UNCHANGED << row, chain, call, reply, backend, control, faults >>

-----------------------------------------------------------------------------
CallStep(c) ==
  \/ AcceptCall(c) \/ DenyCall(c)
  \/ Answer(c) \/ LoseAnswer(c)
  \/ DeliverFrame(c) \/ AnswerCallback(c)

Transaction ==
  \/ RefuseCall \/ LimitCall \/ ReserveCall \/ ObserveCall \/ ReleaseCall
  \/ CheckCalls \/ Settle \/ CloseGate
  \/ CallTransactionFails \/ WorkTransactionFails

InterpreterStep ==
  \/ ProgramReturns \/ LogsWritten \/ RunnerStops
  \/ ResponseArrives \/ BodyRead \/ GatewayFails

Next ==
  \/ \E c \in Calls : CallStep(c)
  \/ Transaction
  \/ InterpreterStep
  \/ Conclude \/ TimesOut
  \/ RequestCancel \/ AbortRun
  \/ TimeUp

\* The journal works off its queue, the clock moves, the deadline timer fires,
\* and a fiber whose interpreter has ended goes on.  Neither a program nor a
\* tool owes an answer.
Fairness ==
  /\ WF_vars(Transaction)
  /\ WF_vars(Conclude)
  /\ WF_vars(TimesOut)
  /\ WF_vars(TimeUp)

Spec == Init /\ [][Next]_vars /\ Fairness

-----------------------------------------------------------------------------
(* Properties *)

\* However calls interleave and whatever fails, a program starts no more calls
\* than bounds.calls, and no more than bounds.inFlight are between their
\* reservation and their release (reserveCall, releaseCall).
WithinCallLimits ==
  /\ Cardinality(started) <= CallLimit
  /\ Cardinality(Reserved) <= InFlightLimit

\* work.inFlight counts the calls that hold a slot: no slot is returned twice,
\* and none is lost but by a transaction that failed (releaseCall runs for
\* every reserved call, whatever became of it).
InFlightIsCounted ==
  /\ inFlight >= Cardinality(Reserved)
  /\ inFlight <= Cardinality(Reserved) + faults

\* A settled Work has no call whose outcome is unknown.  README.md:69 says so
\* of every Work: unknown external effects require reconciliation.
UnknownCallsAreReconciled == phase = "settled" => CallsAccounted

\* The calls and the receipt implement Program, in which a call starts only
\* before the receipt and, with an interpreter that tells of its unanswered
\* calls, a Work settles only with all of them observed (fail, setState, done).
Promise == INSTANCE Program WITH
  accountable <- interpreter = "quickjs",
  receipt <- IF phase = "running" THEN "none" ELSE phase
ImplementsProgram == Promise!Spec

\* Every program comes to a receipt by its deadline, answered or not, unless a
\* transaction of its fiber failed (timeoutOrElse, fail).
ProgramConcludes ==
  <>(phase # "running" \/ (fiber = "idle" /\ faults > 0))
=============================================================================
