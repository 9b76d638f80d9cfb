------------------------ MODULE CodeBrokerInvariant ------------------------
(***************************************************************************)
(* The inductive invariant of CodeBroker: what stands in the queue of the  *)
(* journal, and what that says of the calls, the fiber and the interpreter.*)
(***************************************************************************)
EXTENDS CodeBroker

CallTx == {"reserve", "observe", "release"}
Awaits(kind) == CASE kind = "reserve" -> "reserving"
                  [] kind = "observe" -> "observing"
                  [] kind = "release" -> "releasing"

Queued(i, kind) == chain[i].tx = kind
QueuedCall(i) == chain[i].tx \in CallTx

\* A transaction of a call is one that this call waits for, and its only one.
CallQueueInv ==
  /\ \A i \in DOMAIN chain : QueuedCall(i) =>
       call[chain[i].call] = Awaits(chain[i].tx)
  /\ \A i, j \in DOMAIN chain : QueuedCall(i) /\ QueuedCall(j) /\ chain[i].call = chain[j].call => i = j

\* The fiber has at most one check and one settlement in the queue, the
\* settlement of an interrupted completion before the check.
WorkQueueInv ==
  /\ \A i \in DOMAIN chain : Queued(i, "check") => fiber = "checking"
  /\ \A i \in DOMAIN chain : Queued(i, "settle") =>
       /\ fiber \in {"completing", "checking", "settling"}
       /\ chain[i].to = "reconciling" => fiber = "settling"
  /\ \A i, j \in DOMAIN chain : Queued(i, "check") /\ Queued(j, "check") => i = j
  /\ \A i, j \in DOMAIN chain : Queued(i, "settle") /\ Queued(j, "settle") => i = j
  /\ \A i, j \in DOMAIN chain : Queued(i, "check") /\ Queued(j, "settle") => j < i

\* No reservation comes after a check, and none is left beside the settlement
\* of a program whose interpreter accounts for its calls.
OrderInv ==
  /\ \A i, j \in DOMAIN chain : Queued(i, "check") /\ Queued(j, "reserve") => j < i
  /\ interpreter = "quickjs" => \A i, j \in DOMAIN chain :
       Queued(i, "settle") /\ chain[i].to = "settled" =>
         CallsAccounted /\ ~Queued(j, "reserve")

RowInv ==
  /\ gate => phase = "running"
  /\ phase = "reconciling" => fiber = "idle"
  /\ fiber # "executing" => host = "closed"

\* Where a call is says what is on record of it.
CallInv ==
  /\ \A c \in Calls : call[c] \in {"none", "reserving"} => c \notin started
  /\ \A c \in Reserved : c \in started
  /\ \A c \in Calls : reply[c] = "value" => c \in observed

\* A child process that completed left no call behind.
ChildInv ==
  interpreter = "quickjs" =>
    /\ \A c \in Calls : call[c] = "gone" =>
         reply[c] = "value" \/ (host = "closed" /\ result # "completed")
    /\ result = "completed" =>
         host = "closed" /\ Outstanding = {} /\ CallsAccounted
    /\ fiber = "completing" => result = "completed"

CountInv ==
  /\ IsFiniteSet(started) /\ IsFiniteSet(Reserved)
  /\ Cardinality(started) = calls /\ calls <= CallLimit
  /\ Cardinality(Reserved) <= inFlight
  /\ inFlight <= Cardinality(Reserved) + faults
  /\ inFlight <= InFlightLimit

IInv ==
  /\ TypeOK
  /\ CallQueueInv /\ WorkQueueInv /\ OrderInv
  /\ RowInv /\ CallInv /\ ChildInv /\ CountInv
=============================================================================
