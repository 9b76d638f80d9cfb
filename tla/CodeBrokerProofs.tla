-------------------------- MODULE CodeBrokerProofs --------------------------
EXTENDS CodeBrokerInvariant, FiniteSetTheorems, TLAPS

(***************************************************************************)
(* Proofs that the safety properties of CodeBroker hold for every value of *)
(* the constants, and that it implements Program.  IInv of                 *)
(* CodeBrokerInvariant is inductive.  What a step does to the queue of     *)
(* transactions is said once, by Evolves, and the three parts of IInv      *)
(* about the queue follow from it; the parts about the row, the calls, the *)
(* children and the counters are proved action by action.                  *)
(***************************************************************************)
USE DEF row, backend, control, world, vars

-----------------------------------------------------------------------------
(* The queue *)

LEMMA TxTypes ==
  /\ \A c \in Calls : ReserveTx(c) \in Transactions
  /\ \A c \in Calls : ObserveTx(c) \in Transactions /\ ReleaseTx(c) \in Transactions
  /\ CheckTx \in Transactions /\ CloseGateTx \in Transactions
  /\ \A to \in Receipts : SettleTx(to) \in Transactions
  BY DEF ReserveTx, ObserveTx, ReleaseTx, CheckTx, CloseGateTx, SettleTx, Tx,
         Transactions, CallTransactions, WorkTransactions, Receipts

LEMMA TxFields ==
  /\ \A c : ReserveTx(c).tx = "reserve" /\ ReserveTx(c).call = c
  /\ \A c : ObserveTx(c).tx = "observe" /\ ObserveTx(c).call = c
  /\ \A c : ReleaseTx(c).tx = "release" /\ ReleaseTx(c).call = c
  /\ CheckTx.tx = "check" /\ CloseGateTx.tx = "closeGate"
  /\ \A to : SettleTx(to).tx = "settle" /\ SettleTx(to).to = to
  BY DEF ReserveTx, ObserveTx, ReleaseTx, CheckTx, CloseGateTx, SettleTx, Tx

\* How a step changes the queue: it drops the first d transactions and appends
\* those of New, one at most.
Evolves(d, New) ==
  /\ chain' \in Seq(Transactions)
  /\ \A i \in DOMAIN chain' :
       \/ i + d \in DOMAIN chain /\ chain'[i] = chain[i + d]
       \/ i + d = Len(chain) + 1 /\ chain'[i] \in New

LEMMA Stays ==
  ASSUME TypeOK, UNCHANGED chain
  PROVE  Evolves(0, {})
  BY DEF TypeOK, Evolves

LEMMA Appends ==
  ASSUME TypeOK, NEW tx \in Transactions, Enqueue(tx)
  PROVE  Evolves(0, {tx})
  BY DEF TypeOK, Evolves, Enqueue

LEMMA Heads ==
  ASSUME TypeOK, NEW kind, At(kind)
  PROVE  /\ 1 \in DOMAIN chain /\ Head(chain) = chain[1] /\ Queued(1, kind)
         /\ Head(chain) \in Transactions /\ Head(chain).tx = kind
         /\ kind \in CallTx => Head(chain).call \in Calls
         /\ kind = "settle" => Head(chain).to \in Receipts
<1>1. /\ 1 \in DOMAIN chain /\ Head(chain) = chain[1] /\ Queued(1, kind)
      /\ Head(chain) \in Transactions /\ Head(chain).tx = kind
  BY DEF TypeOK, At, Queued
<1> QED
  BY <1>1 DEF Transactions, CallTransactions, WorkTransactions, CallTx

LEMMA Commits ==
  ASSUME TypeOK, NEW kind, At(kind), Commit
  PROVE  Evolves(1, {})
  BY DEF TypeOK, Evolves, At, Commit

LEMMA CommitsThen ==
  ASSUME TypeOK, NEW kind, At(kind), NEW tx \in Transactions, CommitThen(tx)
  PROVE  Evolves(1, {tx})
<1> DEFINE t == Tail(chain)
<1>1. t \in Seq(Transactions) /\ Len(t) = Len(chain) - 1 /\ \A i \in 1..Len(t) : t[i] = chain[i + 1]
  BY DEF TypeOK, At
<1>2. chain' = Append(t, tx)
  BY DEF CommitThen
<1> HIDE DEF t
<1>3. /\ chain' \in Seq(Transactions) /\ DOMAIN chain' = 1..(Len(t) + 1)
      /\ \A i \in 1..Len(t) : chain'[i] = t[i]
      /\ chain'[Len(t) + 1] = tx
  BY <1>1, <1>2
<1>4. chain \in Seq(Transactions) /\ DOMAIN chain = 1..Len(chain) /\ Len(chain) \in Nat
  BY DEF TypeOK
<1> QED
  BY <1>1, <1>3, <1>4 DEF Evolves

LEMMA CallQueueKept ==
  ASSUME TypeOK, CallQueueInv, NEW d \in {0, 1}, NEW New, Evolves(d, New),
         \A i \in DOMAIN chain : i > d /\ QueuedCall(i) =>
           call'[chain[i].call] = call[chain[i].call],
         \A tx \in New : tx.tx \in CallTx =>
           /\ call'[tx.call] = Awaits(tx.tx)
           /\ \A i \in DOMAIN chain : i > d /\ QueuedCall(i) => chain[i].call # tx.call
  PROVE  CallQueueInv'
<1>1. DOMAIN chain = 1..Len(chain) /\ Len(chain) \in Nat /\ DOMAIN chain' \subseteq Nat \ {0}
  BY DEF TypeOK, Evolves
<1>2. ASSUME NEW i \in DOMAIN chain', QueuedCall(i)'
      PROVE  call'[chain'[i].call] = Awaits(chain'[i].tx)
  BY <1>1, <1>2 DEF Evolves, CallQueueInv, QueuedCall
<1>3. ASSUME NEW i \in DOMAIN chain', NEW j \in DOMAIN chain', QueuedCall(i)',
             QueuedCall(j)', chain'[i].call = chain'[j].call
      PROVE  i = j
  BY <1>1, <1>3 DEF Evolves, CallQueueInv, QueuedCall
<1> QED
  BY <1>2, <1>3 DEF CallQueueInv

LEMMA WorkQueueKept ==
  ASSUME TypeOK, WorkQueueInv, NEW d \in {0, 1}, NEW New, Evolves(d, New),
         \A i \in DOMAIN chain : i > d =>
           /\ Queued(i, "check") => fiber' = "checking"
           /\ Queued(i, "settle") => fiber' \in {"completing", "checking", "settling"}
           /\ Queued(i, "settle") /\ chain[i].to = "reconciling" => fiber' = "settling",
         \A tx \in New :
           /\ tx.tx = "check" =>
                /\ fiber' = "checking"
                /\ \A i \in DOMAIN chain : i > d => ~Queued(i, "check")
           /\ tx.tx = "settle" =>
                /\ fiber' \in {"completing", "checking", "settling"}
                /\ tx.to = "reconciling" => fiber' = "settling"
                /\ \A i \in DOMAIN chain : i > d => ~Queued(i, "check") /\ ~Queued(i, "settle")
  PROVE  WorkQueueInv'
<1>1. DOMAIN chain = 1..Len(chain) /\ Len(chain) \in Nat /\ DOMAIN chain' \subseteq Nat \ {0}
  BY DEF TypeOK, Evolves
<1>2. ASSUME NEW i \in DOMAIN chain', Queued(i, "check")'
      PROVE  fiber' = "checking"
  BY <1>1, <1>2 DEF Evolves, WorkQueueInv, Queued
<1>3. ASSUME NEW i \in DOMAIN chain', Queued(i, "settle")'
      PROVE  /\ fiber' \in {"completing", "checking", "settling"}
             /\ chain'[i].to = "reconciling" => fiber' = "settling"
  BY <1>1, <1>3 DEF Evolves, WorkQueueInv, Queued
<1>4. ASSUME NEW i \in DOMAIN chain', NEW j \in DOMAIN chain'
      PROVE  /\ Queued(i, "check")' /\ Queued(j, "check")' => i = j
             /\ Queued(i, "settle")' /\ Queued(j, "settle")' => i = j
             /\ Queued(i, "check")' /\ Queued(j, "settle")' => j < i
  BY <1>1 DEF Evolves, WorkQueueInv, Queued
<1> QED
  BY <1>2, <1>3, <1>4 DEF WorkQueueInv, Queued

LEMMA OrderKept ==
  ASSUME TypeOK, OrderInv, NEW d \in {0, 1}, NEW New, Evolves(d, New),
         UNCHANGED interpreter,
         \A tx \in New : tx.tx = "reserve" => \A i \in DOMAIN chain : ~Queued(i, "check"),
         interpreter = "quickjs" =>
           /\ \A i \in DOMAIN chain : i > d /\ Queued(i, "settle") /\ chain[i].to = "settled" =>
                CallsAccounted' /\ \A tx \in New : tx.tx # "reserve"
           /\ \A tx \in New : tx.tx = "settle" /\ tx.to = "settled" =>
                CallsAccounted' /\ \A i \in DOMAIN chain : i > d => ~Queued(i, "reserve")
  PROVE  OrderInv'
<1>1. DOMAIN chain = 1..Len(chain) /\ Len(chain) \in Nat /\ DOMAIN chain' \subseteq Nat \ {0}
  BY DEF TypeOK, Evolves
<1>2. ASSUME NEW i \in DOMAIN chain', NEW j \in DOMAIN chain',
             Queued(i, "check")', Queued(j, "reserve")'
      PROVE  j < i
  BY <1>1, <1>2 DEF Evolves, OrderInv, Queued
<1>3. ASSUME interpreter = "quickjs", NEW i \in DOMAIN chain', NEW j \in DOMAIN chain',
             Queued(i, "settle")', chain'[i].to = "settled"
      PROVE  CallsAccounted' /\ ~Queued(j, "reserve")'
  BY <1>1, <1>3 DEF Evolves, OrderInv, Queued
<1> QED
  BY <1>2, <1>3 DEF OrderInv

-----------------------------------------------------------------------------
(* Types *)

LEMMA Failures ==
  ASSUME TypeOK, NEW kind, Fails(kind)
  PROVE  faults' \in 0..MaxFaults /\ faults' = faults + 1
  BY BrokerAssumption DEF Fails, TypeOK

LEMMA CallTypes ==
  ASSUME TypeOK, NEW c \in Calls, CallStep(c)
  PROVE  TypeOK'
<1>1. CASE AcceptCall(c)
  <2>1. chain' \in Seq(Transactions)
    BY <1>1, Appends, TxTypes DEF AcceptCall, Evolves
  <2> QED
    BY <1>1, <2>1 DEF AcceptCall, TypeOK, CallMoves, CallStates
<1>2. CASE DenyCall(c)
  BY <1>2 DEF DenyCall, TypeOK, CallEnds, CallMoves, CallStates, Errors
<1>3. CASE Answer(c)
  <2>1. chain' \in Seq(Transactions)
    BY <1>3, Appends, TxTypes DEF Answer, Evolves
  <2> QED
    BY <1>3, <2>1 DEF Answer, TypeOK, CallMoves, CallStates
<1>4. CASE LoseAnswer(c)
  <2>1. chain' \in Seq(Transactions)
    BY <1>4, Appends, TxTypes DEF LoseAnswer, Evolves
  <2> QED
    BY <1>4, <2>1 DEF LoseAnswer, TypeOK, CallMoves, CallStates, Errors
<1>5. CASE DeliverFrame(c)
  BY <1>5 DEF DeliverFrame, EndHost, TypeOK, CallMoves, CallStates, Errors
<1>6. CASE AnswerCallback(c)
  BY <1>6 DEF AnswerCallback, TypeOK, CallMoves, CallStates, Errors
<1> QED
  BY <1>1, <1>2, <1>3, <1>4, <1>5, <1>6 DEF CallStep

LEMMA TransactionTypes ==
  ASSUME TypeOK, Transaction
  PROVE  TypeOK'
<1>1. CASE RefuseCall
  <2>1. chain' \in Seq(Transactions) /\ Head(chain).call \in Calls
    BY <1>1, Commits, Heads DEF RefuseCall, Evolves, CallTx
  <2> QED
    BY <1>1, <2>1 DEF RefuseCall, TypeOK, CallEnds, CallMoves, CallStates, Errors
<1>2. CASE LimitCall
  <2>1. chain' \in Seq(Transactions) /\ Head(chain).call \in Calls
    BY <1>2, Commits, Heads DEF LimitCall, Evolves, CallTx
  <2> QED
    BY <1>2, <2>1, ZenonT(40) DEF LimitCall, TypeOK, CallEnds, CallMoves, CallStates, Errors
<1>3. CASE ReserveCall
  <2>1. chain' \in Seq(Transactions) /\ Head(chain).call \in Calls
    BY <1>3, Commits, Heads DEF ReserveCall, Evolves, CallTx
  <2> QED
    BY <1>3, <2>1 DEF ReserveCall, TypeOK, CallMoves, CallStates
<1>4. CASE ObserveCall
  <2>1. Head(chain).call \in Calls
    BY <1>4, Heads DEF ObserveCall, CallTx
  <2>2. chain' \in Seq(Transactions)
    BY <1>4, <2>1, CommitsThen, TxTypes DEF ObserveCall, Evolves
  <2> QED
    BY <1>4, <2>1, <2>2 DEF ObserveCall, TypeOK, CallMoves, CallStates
<1>5. CASE ReleaseCall
  <2>1. chain' \in Seq(Transactions) /\ Head(chain).call \in Calls
    BY <1>5, Commits, Heads DEF ReleaseCall, Evolves, CallTx
  <2> QED
    BY <1>5, <2>1 DEF ReleaseCall, TypeOK, CallMoves, CallStates
<1>6. CASE CheckCalls
  <2>1. chain' \in Seq(Transactions)
    BY <1>6, CommitsThen, TxTypes DEF CheckCalls, Evolves, Receipts
  <2> QED
    BY <1>6, <2>1 DEF CheckCalls, TypeOK, FiberStates
<1>7. CASE Settle
  <2>1. chain' \in Seq(Transactions)
    BY <1>7, Commits DEF Settle, Evolves
  <2>2. phase' \in {"running"} \cup Receipts
    BY <1>7, Heads DEF Settle, TypeOK
  <2> QED
    BY <1>7, <2>1, <2>2, ZenonT(40) DEF Settle, TypeOK, FiberStates
<1>8. CASE CloseGate
  <2>1. chain' \in Seq(Transactions)
    BY <1>8, Commits DEF CloseGate, Evolves
  <2> QED
    BY <1>8, <2>1 DEF CloseGate, TypeOK
<1>9. CASE CallTransactionFails
  <2>1. Head(chain).call \in Calls
    BY <1>9, Heads DEF CallTransactionFails, Fails, CallTx
  <2>2. chain' \in Seq(Transactions)
    BY <1>9, <2>1, Commits, CommitsThen, TxTypes DEF CallTransactionFails, Fails, Evolves
  <2>3. call' \in [Calls -> CallStates]
    BY <1>9, <2>1 DEF CallTransactionFails, TypeOK, CallEnds, CallMoves, CallStates
  <2>4. reply' \in [Calls -> {"none", "value"} \cup Errors]
    BY <1>9, <2>1 DEF CallTransactionFails, TypeOK, CallEnds, Errors
  <2>5. faults' \in 0..MaxFaults /\ UNCHANGED << row, backend, control, late >>
    <3>1. faults' \in 0..MaxFaults
      BY <1>9, Failures DEF CallTransactionFails
    <3> QED
      BY <1>9, <3>1 DEF CallTransactionFails, Fails
  <2> QED
    BY <2>2, <2>3, <2>4, <2>5 DEF TypeOK
<1>10. CASE WorkTransactionFails
  <2>1. chain' \in Seq(Transactions)
    BY <1>10, Commits, CommitsThen, TxTypes DEF WorkTransactionFails, Fails, Evolves
  <2>2. fiber' \in FiberStates /\ cancel' \in {"none", "closing", "closed", "done"}
    BY <1>10 DEF WorkTransactionFails, TypeOK, FiberStates
  <2>3. faults' \in 0..MaxFaults /\ UNCHANGED << row, call, reply, backend, aborted, late >>
    <3>1. faults' \in 0..MaxFaults
      BY <1>10, Failures DEF WorkTransactionFails
    <3> QED
      BY <1>10, <3>1 DEF WorkTransactionFails, Fails
  <2> QED
    BY <2>1, <2>2, <2>3 DEF TypeOK
<1> QED
  BY <1>1, <1>2, <1>3, <1>4, <1>5, <1>6, <1>7, <1>8, <1>9, <1>10 DEF Transaction

LEMMA RestTypes ==
  ASSUME TypeOK, InterpreterStep \/ Conclude \/ TimesOut \/ RequestCancel \/ AbortRun \/ TimeUp
  PROVE  TypeOK'
<1>1. CASE InterpreterStep
  BY <1>1 DEF InterpreterStep, ProgramReturns, LogsWritten, RunnerStops, ResponseArrives,
    BodyRead, GatewayFails, EndHost, CheckChannel, TypeOK, Errors
<1>2. CASE Conclude
  <2>1. chain' \in Seq(Transactions)
    BY <1>2, Appends, TxTypes DEF Conclude, Evolves, Receipts
  <2> QED
    BY <1>2, <2>1 DEF Conclude, TypeOK, FiberStates
<1>3. CASE TimesOut
  <2>1. chain' \in Seq(Transactions)
    BY <1>3, Appends, TxTypes DEF TimesOut, Evolves
  <2> QED
    BY <1>3, <2>1 DEF TimesOut, TypeOK, FiberStates
<1>4. CASE RequestCancel
  <2>1. chain' \in Seq(Transactions)
    BY <1>4, Appends, TxTypes DEF RequestCancel, Evolves
  <2> QED
    BY <1>4, <2>1 DEF RequestCancel, TypeOK
<1>5. CASE AbortRun
  BY <1>5 DEF AbortRun, EndHost, TypeOK, Errors
<1>6. CASE TimeUp
  BY <1>6 DEF TimeUp, TypeOK
<1> QED
  BY <1>1, <1>2, <1>3, <1>4, <1>5, <1>6

-----------------------------------------------------------------------------
(* What each step does to the queue *)

LEMMA CallSteps ==
  ASSUME TypeOK, NEW c \in Calls
  PROVE  /\ AcceptCall(c) => Evolves(0, {ReserveTx(c)})
         /\ Answer(c) => Evolves(0, {ObserveTx(c)})
         /\ LoseAnswer(c) => Evolves(0, {ReleaseTx(c)})
         /\ DenyCall(c) \/ DeliverFrame(c) \/ AnswerCallback(c) => Evolves(0, {})
<1>1. AcceptCall(c) => Evolves(0, {ReserveTx(c)})
  BY Appends, TxTypes DEF AcceptCall
<1>2. Answer(c) => Evolves(0, {ObserveTx(c)})
  BY Appends, TxTypes DEF Answer
<1>3. LoseAnswer(c) => Evolves(0, {ReleaseTx(c)})
  BY Appends, TxTypes DEF LoseAnswer
<1>4. DenyCall(c) \/ DeliverFrame(c) \/ AnswerCallback(c) => Evolves(0, {})
  BY Stays DEF DenyCall, DeliverFrame, AnswerCallback
<1> QED
  BY <1>1, <1>2, <1>3, <1>4

\* A failing transaction of a call, by what it does to the queue.
FailsForGood ==
  /\ At("reserve") \/ At("release")
  /\ CallMoves(Head(chain).call, "done") /\ Evolves(1, {})
FailsAndReleases ==
  /\ At("observe")
  /\ CallMoves(Head(chain).call, "releasing")
  /\ Evolves(1, {ReleaseTx(Head(chain).call)})

LEMMA TransactionSteps ==
  ASSUME TypeOK
  PROVE  /\ RefuseCall \/ LimitCall \/ ReserveCall => At("reserve") /\ Evolves(1, {})
         /\ ObserveCall => At("observe") /\ Evolves(1, {ReleaseTx(Head(chain).call)})
         /\ ReleaseCall => At("release") /\ Evolves(1, {})
         /\ CheckCalls =>
              At("check") /\ Evolves(1, {SettleTx(IF CallsAccounted THEN "settled"
                                                                     ELSE "reconciling")})
         /\ Settle => At("settle") /\ Evolves(1, {})
         /\ CloseGate => At("closeGate") /\ Evolves(1, {})
         /\ CallTransactionFails => FailsForGood \/ FailsAndReleases
         /\ WorkTransactionFails =>
              \/ (At("settle") \/ At("check") \/ At("closeGate")) /\ Evolves(1, {})
              \/ At("settle") /\ fiber = "completing" /\ fiber' = "checking" /\ Evolves(1, {CheckTx})
<1>1. RefuseCall \/ LimitCall \/ ReserveCall => At("reserve") /\ Evolves(1, {})
  BY Commits DEF RefuseCall, LimitCall, ReserveCall
<1>2. ObserveCall => At("observe") /\ Evolves(1, {ReleaseTx(Head(chain).call)})
  BY Heads, CommitsThen, TxTypes DEF ObserveCall, CallTx
<1>3. ReleaseCall => At("release") /\ Evolves(1, {})
  BY Commits DEF ReleaseCall
<1>4. CheckCalls => At("check") /\ Evolves(1, {SettleTx(IF CallsAccounted THEN "settled"
                                                                     ELSE "reconciling")})
  BY CommitsThen, TxTypes DEF CheckCalls, Receipts
<1>5. (Settle => At("settle") /\ Evolves(1, {})) /\ (CloseGate => At("closeGate") /\ Evolves(1, {}))
  BY Commits DEF Settle, CloseGate
<1>6. ASSUME CallTransactionFails PROVE FailsForGood \/ FailsAndReleases
  <2>1. CASE Fails("observe") /\ CommitThen(ReleaseTx(Head(chain).call))
             /\ CallMoves(Head(chain).call, "releasing")
    BY <2>1, Heads, CommitsThen, TxTypes DEF Fails, CallTx, FailsAndReleases
  <2>2. CASE (Fails("reserve") \/ Fails("release")) /\ Commit
             /\ CallMoves(Head(chain).call, "done")
    BY <2>2, Commits DEF Fails, FailsForGood
  <2> QED
    BY <1>6, <2>1, <2>2 DEF CallTransactionFails, CallEnds
<1>7. WorkTransactionFails =>
        \/ (At("settle") \/ At("check") \/ At("closeGate")) /\ Evolves(1, {})
        \/ At("settle") /\ fiber = "completing" /\ fiber' = "checking" /\ Evolves(1, {CheckTx})
  BY Commits, CommitsThen, TxTypes DEF WorkTransactionFails, Fails
<1> QED
  BY <1>1, <1>2, <1>3, <1>4, <1>5, <1>6, <1>7

LEMMA OtherSteps ==
  ASSUME TypeOK
  PROVE  /\ Conclude =>
              \/ result = "completed" /\ fiber' = "completing" /\ Evolves(0, {SettleTx("settled")})
              \/ fiber' = "settling" /\ Evolves(0, {SettleTx("reconciling")})
              \/ fiber' = "checking" /\ Evolves(0, {CheckTx})
         /\ TimesOut => Evolves(0, {CheckTx})
         /\ RequestCancel => Evolves(0, {CloseGateTx})
         /\ InterpreterStep \/ AbortRun \/ TimeUp \/ UNCHANGED vars => Evolves(0, {})
<1>1. Conclude =>
        \/ result = "completed" /\ fiber' = "completing" /\ Evolves(0, {SettleTx("settled")})
        \/ fiber' = "settling" /\ Evolves(0, {SettleTx("reconciling")})
        \/ fiber' = "checking" /\ Evolves(0, {CheckTx})
  BY Appends, TxTypes DEF Conclude, Receipts
<1>2. TimesOut => Evolves(0, {CheckTx})
  BY Appends, TxTypes DEF TimesOut
<1>3. RequestCancel => Evolves(0, {CloseGateTx})
  BY Appends, TxTypes DEF RequestCancel
<1>4. InterpreterStep \/ AbortRun \/ TimeUp \/ UNCHANGED vars => Evolves(0, {})
  BY Stays DEF InterpreterStep, ProgramReturns, LogsWritten, RunnerStops, ResponseArrives,
    BodyRead, GatewayFails, AbortRun, TimeUp
<1> QED
  BY <1>1, <1>2, <1>3, <1>4

-----------------------------------------------------------------------------
(* The transactions of calls *)

LEMMA QueuedCalls ==
  ASSUME TypeOK, NEW i \in DOMAIN chain, QueuedCall(i)
  PROVE  chain[i].call \in Calls
<1>1. chain[i] \in Transactions
  BY DEF TypeOK
<1> QED
  BY <1>1 DEF QueuedCall, Transactions, CallTransactions, WorkTransactions, CallTx

\* A call that waits for no transaction has none in the queue.
LEMMA NotQueued ==
  ASSUME CallQueueInv, NEW c, call[c] \notin {"reserving", "observing", "releasing"},
         NEW i \in DOMAIN chain, QueuedCall(i)
  PROVE  chain[i].call # c
  BY DEF CallQueueInv, QueuedCall, CallTx, Awaits

\* The call whose transaction is at the head waits for it, and has no other.
LEMMA HeadIsAlone ==
  ASSUME TypeOK, CallQueueInv, NEW kind \in CallTx, At(kind)
  PROVE  /\ Head(chain).call \in Calls
         /\ call[Head(chain).call] = Awaits(kind)
         /\ \A i \in DOMAIN chain : i > 1 /\ QueuedCall(i) =>
              chain[i].call # Head(chain).call
<1>1. 1 \in DOMAIN chain /\ Head(chain) = chain[1] /\ QueuedCall(1) /\ chain[1].tx = kind
  BY Heads DEF QueuedCall, Queued
<1>2. chain[1].call \in Calls
  BY <1>1, QueuedCalls
<1> QED
  BY <1>1, <1>2 DEF CallQueueInv

LEMMA CallMovesOnly ==
  ASSUME TypeOK, NEW c \in Calls, NEW to, CallMoves(c, to)
  PROVE  call'[c] = to /\ \A x \in Calls : x # c => call'[x] = call[x]
  BY DEF TypeOK, CallMoves

\* A step that keeps the states of all calls and appends nothing of a call.
LEMMA CallQueueFrame ==
  ASSUME TypeOK, CallQueueInv, NEW d \in {0, 1}, NEW New, Evolves(d, New),
         UNCHANGED call, \A tx \in New : tx.tx \notin CallTx
  PROVE  CallQueueInv'
  BY CallQueueKept

\* A call that waits for nothing moves, and joins the queue or does not.
LEMMA CallQueueMove ==
  ASSUME TypeOK, CallQueueInv, NEW c \in Calls, NEW to, CallMoves(c, to),
         call[c] \notin {"reserving", "observing", "releasing"},
         NEW New, Evolves(0, New),
         \A tx \in New : tx.tx \in CallTx /\ tx.call = c /\ to = Awaits(tx.tx)
  PROVE  CallQueueInv'
<1>1. \A i \in DOMAIN chain : QueuedCall(i) => chain[i].call # c /\ chain[i].call \in Calls
  BY NotQueued, QueuedCalls
<1>2. \A i \in DOMAIN chain : QueuedCall(i) => call'[chain[i].call] = call[chain[i].call]
  BY <1>1, CallMovesOnly
<1>3. call'[c] = to
  BY CallMovesOnly
<1> QED
  BY <1>1, <1>2, <1>3, CallQueueKept

\* The transaction at the head commits, its call moves on, and may join again.
LEMMA CallQueueCommit ==
  ASSUME TypeOK, CallQueueInv, NEW kind \in CallTx, At(kind), NEW to,
         CallMoves(Head(chain).call, to), NEW New, Evolves(1, New),
         \A tx \in New :
           tx.tx \in CallTx /\ tx.call = Head(chain).call /\ to = Awaits(tx.tx)
  PROVE  CallQueueInv'
<1>1. \A i \in DOMAIN chain : i > 1 /\ QueuedCall(i) =>
        chain[i].call # Head(chain).call /\ chain[i].call \in Calls
  BY HeadIsAlone, QueuedCalls
<1>2. Head(chain).call \in Calls
  BY HeadIsAlone
<1>3. /\ call'[Head(chain).call] = to
      /\ \A i \in DOMAIN chain : i > 1 /\ QueuedCall(i) =>
           call'[chain[i].call] = call[chain[i].call]
  BY <1>1, <1>2, CallMovesOnly
<1> QED
  BY <1>1, <1>3, CallQueueKept

LEMMA CallQueueStep ==
  ASSUME TypeOK, CallQueueInv, [Next]_vars
  PROVE  CallQueueInv'
<1> USE DEF CallTx, Awaits
<1>1. ASSUME NEW c \in Calls, CallStep(c) PROVE CallQueueInv'
  <2>1. CASE AcceptCall(c)
    <3>1. Evolves(0, {ReserveTx(c)})
      BY <2>1, CallSteps
    <3> QED
      BY <2>1, <3>1, TxFields, CallQueueMove DEF AcceptCall
  <2>2. CASE DenyCall(c)
    <3>1. Evolves(0, {})
      BY <2>2, CallSteps
    <3> QED
      BY <2>2, <3>1, CallQueueMove DEF DenyCall, CallEnds
  <2>3. CASE Answer(c)
    <3>1. Evolves(0, {ObserveTx(c)})
      BY <2>3, CallSteps
    <3> QED
      BY <2>3, <3>1, TxFields, CallQueueMove DEF Answer
  <2>4. CASE LoseAnswer(c)
    <3>1. Evolves(0, {ReleaseTx(c)})
      BY <2>4, CallSteps
    <3> QED
      BY <2>4, <3>1, TxFields, CallQueueMove DEF LoseAnswer
  <2>5. CASE DeliverFrame(c) \/ AnswerCallback(c)
    <3>1. Evolves(0, {})
      BY <2>5, CallSteps
    <3> QED
      BY <2>5, <3>1, CallQueueMove DEF DeliverFrame, AnswerCallback
  <2> QED
    BY <1>1, <2>1, <2>2, <2>3, <2>4, <2>5 DEF CallStep
<1>2. CASE RefuseCall \/ LimitCall \/ ReserveCall
  <2>1. \E to : CallMoves(Head(chain).call, to)
    BY <1>2 DEF RefuseCall, LimitCall, ReserveCall, CallEnds
  <2> QED
    BY <1>2, <2>1, TransactionSteps, CallQueueCommit
<1>3. CASE ObserveCall
  BY <1>3, TransactionSteps, TxFields, CallQueueCommit DEF ObserveCall
<1>4. CASE ReleaseCall
  BY <1>4, TransactionSteps, CallQueueCommit DEF ReleaseCall
<1>5. CASE CallTransactionFails
  BY <1>5, TransactionSteps, TxFields, CallQueueCommit DEF FailsForGood, FailsAndReleases
<1>6. CASE CheckCalls \/ Settle \/ CloseGate \/ WorkTransactionFails
  <2>1. UNCHANGED call
    BY <1>6 DEF CheckCalls, Settle, CloseGate, WorkTransactionFails
  <2> QED
    BY <1>6, <2>1, TransactionSteps, TxFields, CallQueueFrame
<1>7. CASE \/ Conclude \/ TimesOut \/ RequestCancel
           \/ InterpreterStep \/ AbortRun \/ TimeUp \/ UNCHANGED vars
  <2>1. UNCHANGED call
    BY <1>7 DEF Conclude, TimesOut, RequestCancel, InterpreterStep, ProgramReturns,
      LogsWritten, RunnerStops, ResponseArrives, BodyRead, GatewayFails, AbortRun, TimeUp
  <2> QED
    BY <1>7, <2>1, OtherSteps, TxFields, CallQueueFrame
<1> QED
  BY <1>1, <1>2, <1>3, <1>4, <1>5, <1>6, <1>7 DEF Next, Transaction

-----------------------------------------------------------------------------
(* The transactions of the fiber *)

\* A step that keeps the fiber and appends neither a check nor a settlement.
LEMMA WorkQueueFrame ==
  ASSUME TypeOK, WorkQueueInv, NEW d \in {0, 1}, NEW New, Evolves(d, New),
         UNCHANGED fiber, \A tx \in New : tx.tx \notin {"check", "settle"}
  PROVE  WorkQueueInv'
<1>1. \A i \in DOMAIN chain :
        /\ Queued(i, "check") => fiber' = "checking"
        /\ Queued(i, "settle") => fiber' \in {"completing", "checking", "settling"}
        /\ Queued(i, "settle") /\ chain[i].to = "reconciling" => fiber' = "settling"
  BY DEF WorkQueueInv
<1> QED
  BY <1>1, WorkQueueKept

\* What is left of the fiber's transactions behind the one at the head.
LEMMA BehindHead ==
  ASSUME TypeOK, WorkQueueInv, NEW i \in DOMAIN chain, i > 1
  PROVE  /\ At("check") => ~Queued(i, "check") /\ ~Queued(i, "settle")
         /\ At("settle") => ~Queued(i, "settle")
<1>1. DOMAIN chain \subseteq Nat
  BY DEF TypeOK
<1>2. /\ At("check") => 1 \in DOMAIN chain /\ Queued(1, "check")
      /\ At("settle") => 1 \in DOMAIN chain /\ Queued(1, "settle")
  BY Heads
<1> QED
  BY <1>1, <1>2 DEF WorkQueueInv

LEMMA WorkQueueStep ==
  ASSUME TypeOK, WorkQueueInv, [Next]_vars
  PROVE  WorkQueueInv'
<1>1. ASSUME NEW c \in Calls, CallStep(c) PROVE WorkQueueInv'
  <2>1. UNCHANGED fiber
    BY <1>1 DEF CallStep, AcceptCall, DenyCall, Answer, LoseAnswer, DeliverFrame, AnswerCallback
  <2> QED
    <3>1. \/ Evolves(0, {}) \/ Evolves(0, {ReserveTx(c)})
          \/ Evolves(0, {ObserveTx(c)}) \/ Evolves(0, {ReleaseTx(c)})
      BY <1>1, CallSteps DEF CallStep
    <3> QED
      BY <2>1, <3>1, TxFields, WorkQueueFrame
<1>2. CASE \/ RefuseCall \/ LimitCall \/ ReserveCall \/ ObserveCall \/ ReleaseCall
           \/ CloseGate \/ CallTransactionFails
  <2>1. UNCHANGED fiber
    BY <1>2 DEF RefuseCall, LimitCall, ReserveCall, ObserveCall, ReleaseCall, CloseGate,
      CallTransactionFails
  <2> QED
    BY <1>2, <2>1, TransactionSteps, TxFields, WorkQueueFrame
    DEF FailsForGood, FailsAndReleases
<1>3. CASE CheckCalls
  <2>1. fiber' = "settling"
    BY <1>3 DEF CheckCalls
  <2> QED
    BY <1>3, <2>1, TransactionSteps, TxFields, BehindHead, WorkQueueKept
<1>4. CASE Settle
  <2>1. \A i \in DOMAIN chain : i > 1 => ~Queued(i, "settle")
    BY <1>4, BehindHead, TransactionSteps
  <2>2. \A i \in DOMAIN chain : Queued(i, "check") => fiber' = "checking"
    BY <1>4 DEF Settle, WorkQueueInv
  <2> QED
    BY <1>4, <2>1, <2>2, TransactionSteps, WorkQueueKept
<1>5. CASE WorkTransactionFails
  <2> USE DEF WorkTransactionFails, Fails
  <2>1. CASE Fails("settle") /\ fiber = "completing"
    <3>1. fiber' = "checking" /\ At("settle") /\ Evolves(1, {CheckTx})
      BY <1>5, <2>1, CommitsThen, TxTypes DEF At
    <3>2. \A i \in DOMAIN chain : ~Queued(i, "check")
      BY <2>1 DEF WorkQueueInv
    <3> QED
      BY <3>1, <3>2, BehindHead, TxFields, WorkQueueKept
  <2>2. CASE Fails("settle") /\ fiber # "completing"
    <3>1. fiber' = (IF fiber = "checking" THEN "checking" ELSE "idle") /\ At("settle") /\ Evolves(1, {})
      BY <1>5, <2>2, Commits DEF At
    <3>2. \A i \in DOMAIN chain : Queued(i, "check") => fiber' = "checking"
      BY <3>1 DEF WorkQueueInv
    <3> QED
      BY <3>1, <3>2, BehindHead, WorkQueueKept
  <2>3. CASE Fails("check")
    <3>1. At("check") /\ Evolves(1, {})
      BY <1>5, <2>3, Commits DEF At
    <3> QED
      BY <3>1, BehindHead, WorkQueueKept
  <2>4. CASE Fails("closeGate")
    <3>1. Evolves(1, {}) /\ UNCHANGED fiber
      BY <1>5, <2>4, Commits DEF At
    <3> QED
      BY <3>1, WorkQueueFrame
  <2> QED
    BY <1>5, <2>1, <2>2, <2>3, <2>4
<1>6. CASE Conclude
  <2>1. \A i \in DOMAIN chain : ~Queued(i, "check") /\ ~Queued(i, "settle")
    BY <1>6 DEF Conclude, WorkQueueInv
  <2> QED
    BY <1>6, <2>1, OtherSteps, TxFields, WorkQueueKept DEF Receipts
<1>7. CASE TimesOut
  <2>1. /\ fiber \in {"executing", "completing"} /\ fiber' = "checking"
    BY <1>7 DEF TimesOut
  <2>2. \A i \in DOMAIN chain :
          ~Queued(i, "check") /\ (Queued(i, "settle") => chain[i].to # "reconciling")
    BY <2>1 DEF WorkQueueInv
  <2> QED
    BY <1>7, <2>1, <2>2, OtherSteps, TxFields, WorkQueueKept
<1>8. CASE RequestCancel \/ InterpreterStep \/ AbortRun \/ TimeUp \/ UNCHANGED vars
  <2>1. UNCHANGED fiber
    BY <1>8 DEF RequestCancel, InterpreterStep, ProgramReturns, LogsWritten, RunnerStops,
      ResponseArrives, BodyRead, GatewayFails, AbortRun, TimeUp
  <2> QED
    BY <1>8, <2>1, OtherSteps, TxFields, WorkQueueFrame
<1> QED
  BY <1>1, <1>2, <1>3, <1>4, <1>5, <1>6, <1>7, <1>8 DEF Next, Transaction

-----------------------------------------------------------------------------
(* Reservations, checks and settlements *)

\* With no call outstanding there is no reservation in the queue.
LEMMA NothingReserving ==
  ASSUME TypeOK, CallQueueInv, Outstanding = {}, NEW i \in DOMAIN chain
  PROVE  ~Queued(i, "reserve")
<1>1. SUFFICES ASSUME QueuedCall(i), chain[i].tx = "reserve" PROVE FALSE
  BY DEF Queued, QueuedCall, CallTx
<1>2. chain[i].call \in Calls /\ call[chain[i].call] = "reserving"
  BY <1>1, QueuedCalls DEF CallQueueInv, Awaits
<1> QED
  BY <1>2 DEF Outstanding

\* A step that keeps the events on record and appends no reservation, check
\* or settlement to settled.
LEMMA OrderFrame ==
  ASSUME TypeOK, OrderInv, NEW d \in {0, 1}, NEW New, Evolves(d, New),
         UNCHANGED interpreter, started' \subseteq started, observed \subseteq observed',
         \A tx \in New : tx.tx # "reserve" /\ ~(tx.tx = "settle" /\ tx.to = "settled")
  PROVE  OrderInv'
<1>1. CallsAccounted => CallsAccounted'
  BY DEF CallsAccounted
<1>2. interpreter = "quickjs" =>
        \A i \in DOMAIN chain : Queued(i, "settle") /\ chain[i].to = "settled" => CallsAccounted
  BY DEF OrderInv
<1> QED
  BY <1>1, <1>2, OrderKept

LEMMA OrderStep ==
  ASSUME IInv, [Next]_vars
  PROVE  OrderInv'
<1> USE DEF IInv
<1>1. ASSUME NEW c \in Calls, CallStep(c) PROVE OrderInv'
  <2>1. CASE AcceptCall(c)
    <3>1. Evolves(0, {ReserveTx(c)}) /\ UNCHANGED << interpreter, started, observed >>
      BY <2>1, CallSteps DEF AcceptCall
    <3>2. fiber = "executing"
      BY <2>1 DEF AcceptCall, Listening, RowInv
    <3>3. \A i \in DOMAIN chain : ~Queued(i, "check") /\ ~Queued(i, "settle")
      BY <3>2 DEF WorkQueueInv
    <3> QED
      BY <3>1, <3>3, TxFields, OrderKept
  <2>2. CASE ~AcceptCall(c)
    <3>1. /\ Evolves(0, {}) \/ Evolves(0, {ObserveTx(c)}) \/ Evolves(0, {ReleaseTx(c)})
          /\ UNCHANGED << interpreter, started, observed >>
      BY <1>1, <2>2, CallSteps DEF CallStep, DenyCall, Answer, LoseAnswer, DeliverFrame, AnswerCallback
    <3> QED
      BY <3>1, TxFields, OrderFrame
  <2> QED
    BY <2>1, <2>2
<1>2. CASE ReserveCall
  <2>1. /\ At("reserve") /\ Evolves(1, {}) /\ UNCHANGED interpreter
    BY <1>2, TransactionSteps DEF ReserveCall
  <2>2. 1 \in DOMAIN chain /\ Queued(1, "reserve")
    BY <2>1, Heads
  <2>3. interpreter = "quickjs" =>
          \A i \in DOMAIN chain : ~(Queued(i, "settle") /\ chain[i].to = "settled")
    BY <2>2 DEF OrderInv
  <2> QED
    BY <2>1, <2>3, OrderKept
<1>3. CASE CheckCalls
  <2>1. /\ At("check") /\ UNCHANGED << interpreter, started, observed >>
        /\ CallsAccounted => Evolves(1, {SettleTx("settled")})
        /\ ~CallsAccounted => Evolves(1, {SettleTx("reconciling")})
    BY <1>3, TransactionSteps DEF CheckCalls
  <2>2. CASE ~CallsAccounted
    BY <2>1, <2>2, TxFields, OrderFrame
  <2>3. CASE CallsAccounted
    <3>1. CallsAccounted'
      BY <2>1, <2>3 DEF CallsAccounted
    <3>2. 1 \in DOMAIN chain /\ Queued(1, "check") /\ DOMAIN chain \subseteq Nat
      BY <2>1, Heads DEF TypeOK
    <3>3. \A i \in DOMAIN chain : i > 1 => ~Queued(i, "reserve")
      BY <3>2 DEF OrderInv
    <3>4. Evolves(1, {SettleTx("settled")}) /\ UNCHANGED interpreter
      BY <2>1, <2>3
    <3> QED
      BY <3>1, <3>3, <3>4, TxFields, OrderKept
  <2> QED
    BY <2>2, <2>3
<1>4. CASE RefuseCall \/ LimitCall \/ ObserveCall \/ ReleaseCall \/ CallTransactionFails
  <2>1. UNCHANGED << interpreter, started >> /\ observed \subseteq observed'
    BY <1>4 DEF RefuseCall, LimitCall, ObserveCall, ReleaseCall, CallTransactionFails, Fails
  <2>2. Evolves(1, {}) \/ Evolves(1, {ReleaseTx(Head(chain).call)})
    BY <1>4, TransactionSteps DEF FailsForGood, FailsAndReleases
  <2> QED
    BY <2>1, <2>2, TxFields, OrderFrame
<1>5. CASE Settle \/ CloseGate \/ WorkTransactionFails
  <2>1. UNCHANGED << interpreter, started, observed >>
    BY <1>5 DEF Settle, CloseGate, WorkTransactionFails, Fails
  <2>2. Evolves(1, {}) \/ Evolves(1, {CheckTx})
    BY <1>5, TransactionSteps
  <2> QED
    BY <2>1, <2>2, TxFields, OrderFrame
<1>6. CASE Conclude
  <2>1. UNCHANGED << interpreter, started, observed >>
    BY <1>6 DEF Conclude
  <2>2. CASE Evolves(0, {SettleTx("reconciling")}) \/ Evolves(0, {CheckTx})
    BY <2>1, <2>2, TxFields, OrderFrame
  <2>3. CASE result = "completed" /\ Evolves(0, {SettleTx("settled")})
    <3>1. interpreter = "quickjs" =>
            CallsAccounted' /\ \A i \in DOMAIN chain : ~Queued(i, "reserve")
      BY <2>1, <2>3, NothingReserving DEF ChildInv, CallsAccounted
    <3>2. \A i \in DOMAIN chain : ~Queued(i, "settle")
      BY <1>6 DEF Conclude, WorkQueueInv
    <3> QED
      BY <2>1, <2>3, <3>1, <3>2, TxFields, OrderKept
  <2> QED
    BY <1>6, <2>2, <2>3, OtherSteps
<1>7. CASE TimesOut \/ RequestCancel \/ InterpreterStep \/ AbortRun \/ TimeUp \/ UNCHANGED vars
  <2>1. UNCHANGED << interpreter, started, observed >>
    BY <1>7 DEF TimesOut, RequestCancel, InterpreterStep, ProgramReturns, LogsWritten, RunnerStops,
      ResponseArrives, BodyRead, GatewayFails, AbortRun, TimeUp
  <2>2. Evolves(0, {}) \/ Evolves(0, {CheckTx}) \/ Evolves(0, {CloseGateTx})
    BY <1>7, OtherSteps
  <2> QED
    BY <2>1, <2>2, TxFields, OrderFrame
<1> QED
  BY <1>1, <1>2, <1>3, <1>4, <1>5, <1>6, <1>7 DEF Next, Transaction

-----------------------------------------------------------------------------
(* The row of the Work and the fiber *)

LEMMA RowStep ==
  ASSUME IInv, [Next]_vars
  PROVE  RowInv'
<1> USE DEF IInv, RowInv
<1>1. ASSUME NEW c \in Calls, CallStep(c) PROVE RowInv'
  BY <1>1 DEF CallStep, AcceptCall, DenyCall, Answer, LoseAnswer, DeliverFrame, EndHost,
    AnswerCallback
<1>2. CASE \/ RefuseCall \/ LimitCall \/ ReserveCall \/ ObserveCall \/ ReleaseCall
           \/ CloseGate \/ CallTransactionFails
  BY <1>2 DEF RefuseCall, LimitCall, ReserveCall, ObserveCall, ReleaseCall, CloseGate,
    CallTransactionFails, Fails
<1>3. CASE CheckCalls
  <2>1. fiber = "checking"
    BY <1>3, Heads DEF CheckCalls, WorkQueueInv
  <2> QED
    BY <1>3, <2>1 DEF CheckCalls
<1>4. CASE Settle
  <2>1. /\ fiber \in {"completing", "checking", "settling"}
        /\ Head(chain).to = "reconciling" => fiber = "settling"
        /\ Head(chain).to \in Receipts
    BY <1>4, Heads DEF Settle, WorkQueueInv
  <2> QED
    BY <1>4, <2>1 DEF Settle, Receipts
<1>5. CASE WorkTransactionFails
  <2>1. /\ At("settle") => fiber \in {"completing", "checking", "settling"}
        /\ At("check") => fiber = "checking"
    BY Heads DEF WorkQueueInv
  <2> QED
    BY <1>5, <2>1 DEF WorkTransactionFails, Fails
<1>6. CASE InterpreterStep \/ AbortRun
  BY <1>6 DEF InterpreterStep, ProgramReturns, LogsWritten, RunnerStops, ResponseArrives, BodyRead,
    GatewayFails, AbortRun, EndHost
<1>7. CASE Conclude \/ TimesOut \/ RequestCancel \/ TimeUp \/ UNCHANGED vars
  BY <1>7 DEF Conclude, TimesOut, RequestCancel, TimeUp
<1> QED
  BY <1>1, <1>2, <1>3, <1>4, <1>5, <1>6, <1>7 DEF Next, Transaction

-----------------------------------------------------------------------------
(* Calls and events *)

LEMMA CallInvStep ==
  ASSUME IInv, [Next]_vars
  PROVE  CallInv'
<1> USE DEF IInv, CallInv, Reserved
<1>1. ASSUME NEW c \in Calls, CallStep(c) PROVE CallInv'
  BY <1>1 DEF CallStep, AcceptCall, DenyCall, Answer, LoseAnswer, DeliverFrame, AnswerCallback,
    CallMoves, CallEnds, TypeOK
<1>2. CASE RefuseCall \/ LimitCall
  <2>1. /\ Head(chain).call \in Calls /\ CallEnds(Head(chain).call, "stopped")
        /\ UNCHANGED << started, observed >>
    BY <1>2, HeadIsAlone DEF RefuseCall, LimitCall, CallTx
  <2> QED
    BY <2>1 DEF CallEnds, CallMoves, TypeOK
<1>3. CASE ReserveCall
  <2>1. Head(chain).call \in Calls
    BY <1>3, HeadIsAlone DEF ReserveCall, CallTx
  <2> QED
    BY <1>3, <2>1 DEF ReserveCall, CallMoves, TypeOK
<1>4. CASE ObserveCall
  <2>1. Head(chain).call \in Reserved
    BY <1>4, HeadIsAlone DEF ObserveCall, CallTx, Awaits
  <2> QED
    BY <1>4, <2>1 DEF ObserveCall, CallMoves, TypeOK
<1>5. CASE ReleaseCall
  <2>1. Head(chain).call \in Calls
    BY <1>5, HeadIsAlone DEF ReleaseCall, CallTx
  <2> QED
    BY <1>5, <2>1 DEF ReleaseCall, CallMoves, TypeOK
<1>6. CASE CallTransactionFails
  <2>1. UNCHANGED << started, observed >>
    BY <1>6 DEF CallTransactionFails, Fails
  <2>2. CASE (Fails("reserve") \/ Fails("release")) /\ CallEnds(Head(chain).call, "stopped")
    <3>1. Head(chain).call \in Calls
      BY <2>2, HeadIsAlone DEF Fails, CallTx
    <3> QED
      BY <2>1, <2>2, <3>1 DEF CallEnds, CallMoves, TypeOK
  <2>3. CASE /\ Fails("observe") /\ CallMoves(Head(chain).call, "releasing")
             /\ reply' = [reply EXCEPT ![Head(chain).call] = "stopped"]
    <3>1. Head(chain).call \in Reserved
      BY <2>3, HeadIsAlone DEF Fails, CallTx, Awaits
    <3> QED
      BY <2>1, <2>3, <3>1 DEF CallMoves, TypeOK
  <2> QED
    BY <1>6, <2>2, <2>3 DEF CallTransactionFails
<1>7. CASE CheckCalls \/ Settle \/ CloseGate \/ WorkTransactionFails
  BY <1>7 DEF CheckCalls, Settle, CloseGate, WorkTransactionFails, Fails
<1>8. CASE \/ InterpreterStep \/ AbortRun \/ Conclude \/ TimesOut
           \/ RequestCancel \/ TimeUp \/ UNCHANGED vars
  BY <1>8 DEF InterpreterStep, ProgramReturns, LogsWritten, RunnerStops, ResponseArrives, BodyRead,
    GatewayFails, AbortRun, Conclude, TimesOut, RequestCancel, TimeUp
<1> QED
  BY <1>1, <1>2, <1>3, <1>4, <1>5, <1>6, <1>7, <1>8 DEF Next, Transaction

-----------------------------------------------------------------------------
(* The child process *)

\* While a call waits for a transaction, the child has not completed.
LEMMA NotCompleted ==
  ASSUME IInv, interpreter = "quickjs", NEW c \in Calls, call[c] \notin {"none", "gone"}
  PROVE  result # "completed"
  BY DEF IInv, ChildInv, Outstanding

\* A child that ends with no call outstanding has every started call observed.
LEMMA AllGone ==
  ASSUME IInv, interpreter = "quickjs", host # "closed", Outstanding = {}
  PROVE  CallsAccounted
<1>1. SUFFICES ASSUME NEW c \in started PROVE c \in observed
  BY DEF CallsAccounted
<1>2. c \in Calls /\ call[c] = "gone"
  BY DEF IInv, TypeOK, CallInv, Outstanding
<1> QED
  BY <1>2 DEF IInv, ChildInv, CallInv

LEMMA ChildStep ==
  ASSUME IInv, [Next]_vars
  PROVE  ChildInv'
<1>1. UNCHANGED interpreter
  BY DEF Next, CallStep, AcceptCall, DenyCall, Answer, LoseAnswer, DeliverFrame, AnswerCallback,
    Transaction, RefuseCall, LimitCall, ReserveCall, ObserveCall, ReleaseCall, CheckCalls, Settle,
    CloseGate, CallTransactionFails, WorkTransactionFails, Fails, InterpreterStep, ProgramReturns,
    LogsWritten, RunnerStops, ResponseArrives, BodyRead, GatewayFails, Conclude, TimesOut,
    RequestCancel, AbortRun, TimeUp
<1> SUFFICES ASSUME interpreter = "quickjs" PROVE ChildInv'
  BY <1>1 DEF ChildInv
<1>2. /\ \A c \in Calls : call[c] = "gone" =>
           reply[c] = "value" \/ (host = "closed" /\ result # "completed")
      /\ result = "completed" => host = "closed" /\ Outstanding = {} /\ CallsAccounted
      /\ fiber = "completing" => result = "completed"
      /\ call \in [Calls -> CallStates] /\ reply \in [Calls -> {"none", "value"} \cup Errors]
  BY DEF IInv, ChildInv, TypeOK
<1> DEFINE Kept == /\ \A c \in Calls : call'[c] = "gone" => call[c] = "gone" /\ reply'[c] = reply[c]
                   /\ UNCHANGED << host, result, fiber >>
                   /\ result # "completed"
<1>3. ASSUME Kept PROVE ChildInv'
  BY <1>2, <1>3 DEF ChildInv
<1>4. ASSUME NEW c \in Calls, CallStep(c) PROVE ChildInv'
  <2>1. CASE AcceptCall(c) \/ DenyCall(c)
    <3>1. host # "closed"
      BY <2>1 DEF AcceptCall, DenyCall, Listening
    <3>2. Kept
      BY <1>2, <2>1, <3>1 DEF AcceptCall, DenyCall, CallEnds, CallMoves
    <3> QED
      BY <1>3, <3>2
  <2>2. CASE Answer(c) \/ LoseAnswer(c)
    <3>1. result # "completed"
      BY <2>2, NotCompleted DEF Answer, LoseAnswer
    <3>2. Kept
      BY <1>2, <2>2, <3>1 DEF Answer, LoseAnswer, CallMoves
    <3> QED
      BY <1>3, <3>2
  <2>3. CASE DeliverFrame(c)
    <3>1. result # "completed" /\ call[c] = "done"
      BY <2>3, NotCompleted DEF DeliverFrame
    <3>2. /\ UNCHANGED << reply, fiber >>
          /\ \A x \in Calls : x # c => call'[x] = call[x]
          /\ \/ (reply[c] = "value" \/ host = "closed") /\ UNCHANGED << host, result >>
             \/ host' = "closed" /\ result' = "uncertain"
      BY <1>2, <2>3 DEF DeliverFrame, CallMoves, EndHost
    <3> QED
      BY <1>2, <3>1, <3>2 DEF ChildInv
  <2> QED
    BY <1>4, <2>1, <2>2, <2>3 DEF CallStep, AnswerCallback
<1>5. CASE \/ RefuseCall \/ LimitCall \/ ReserveCall \/ ObserveCall \/ ReleaseCall
           \/ CallTransactionFails
  <2>1. \E kind \in CallTx : At(kind)
    BY <1>5 DEF RefuseCall, LimitCall, ReserveCall, ObserveCall, ReleaseCall,
      CallTransactionFails, Fails, CallTx
  <2> DEFINE c == Head(chain).call
  <2>2. c \in Calls /\ call[c] \notin {"none", "gone"}
    BY <2>1, HeadIsAlone DEF IInv, CallTx, Awaits
  <2>3. result # "completed"
    BY <2>2, NotCompleted
  <2>4. /\ \E to : to # "gone" /\ CallMoves(c, to)
        /\ reply' = reply \/ \E r : reply' = [reply EXCEPT ![c] = r]
        /\ UNCHANGED << host, result, fiber >>
    BY <1>5 DEF RefuseCall, LimitCall, ReserveCall, ObserveCall, ReleaseCall,
      CallTransactionFails, Fails, CallEnds
  <2> HIDE DEF c
  <2>5. Kept
    BY <1>2, <2>2, <2>3, <2>4 DEF CallMoves
  <2> QED
    BY <1>3, <2>5
<1>6. CASE \/ CheckCalls \/ Settle \/ CloseGate \/ WorkTransactionFails \/ Conclude \/ TimesOut
           \/ RequestCancel \/ TimeUp \/ UNCHANGED vars
  <2>1. /\ UNCHANGED << call, reply, result, started, observed >>
        /\ host' \in {host, "closed"}
        /\ fiber' = "completing" => fiber = "completing" \/ result = "completed"
    BY <1>6 DEF CheckCalls, Settle, CloseGate, WorkTransactionFails, Fails, Conclude, TimesOut,
      RequestCancel, TimeUp
  <2> QED
    BY <1>2, <2>1 DEF ChildInv, Outstanding, CallsAccounted
<1>7. CASE InterpreterStep \/ AbortRun
  <2>1. /\ UNCHANGED << call, reply, fiber, started, observed >>
        /\ \/ UNCHANGED << host, result >>
           \/ host = "open" /\ host' = "returned" /\ UNCHANGED result
           \/ host # "closed" /\ EndHost("completed")
           \/ host # "closed" /\ (EndHost("stopped") \/ EndHost("uncertain"))
    BY <1>7 DEF InterpreterStep, ProgramReturns, LogsWritten, RunnerStops, ResponseArrives,
      BodyRead, GatewayFails, AbortRun
  <2>2. CASE host # "closed" /\ EndHost("completed") /\ Outstanding = {}
    BY <1>2, <2>1, <2>2, AllGone DEF ChildInv, EndHost, Outstanding, CallsAccounted
  <2>3. CASE host # "closed" /\ EndHost("completed") /\ Outstanding # {}
    BY <1>2, <2>1, <2>3 DEF ChildInv, EndHost
  <2>4. CASE host # "closed" /\ (EndHost("stopped") \/ EndHost("uncertain"))
    BY <1>2, <2>1, <2>4 DEF ChildInv, EndHost
  <2>5. CASE UNCHANGED << host, result >> \/ (host = "open" /\ host' = "returned" /\ UNCHANGED result)
    BY <1>2, <2>1, <2>5 DEF ChildInv, Outstanding, CallsAccounted
  <2> QED
    BY <2>1, <2>2, <2>3, <2>4, <2>5
<1> QED
  BY <1>4, <1>5, <1>6, <1>7 DEF Next, Transaction

-----------------------------------------------------------------------------
(* Counters *)

\* What the counters and the number of calls with a slot have to do with each
\* other after a step that moves the call x into the slots, out, or neither.
LEMMA CountFrame ==
  ASSUME CountInv, TypeOK, Reserved' = Reserved,
         UNCHANGED << started, calls, inFlight >>, faults' \in Nat, faults <= faults'
  PROVE  CountInv'
<1>1. Cardinality(Reserved) \in Nat
  BY FS_CardinalityType DEF CountInv
<1>2. faults \in Nat /\ inFlight \in Nat /\ calls \in Nat
  BY DEF TypeOK
<1> QED
  BY <1>1, <1>2 DEF CountInv

LEMMA CountStep ==
  ASSUME IInv, [Next]_vars
  PROVE  CountInv'
<1>1. TypeOK /\ CountInv /\ CallInv /\ CallQueueInv
  BY DEF IInv
<1>2. /\ faults \in Nat /\ inFlight \in Nat /\ calls \in Nat
      /\ call \in [Calls -> CallStates]
      /\ CallLimit \in Nat /\ InFlightLimit \in Nat
  BY <1>1, BrokerAssumption DEF TypeOK
<1>3. /\ IsFiniteSet(Reserved) /\ Cardinality(Reserved) \in Nat
      /\ IsFiniteSet(started) /\ Cardinality(started) = calls
      /\ Cardinality(Reserved) <= inFlight /\ inFlight <= Cardinality(Reserved) + faults
      /\ calls <= CallLimit /\ inFlight <= InFlightLimit
  BY <1>1, FS_CardinalityType DEF CountInv
<1>4. ASSUME NEW c \in Calls, CallStep(c) PROVE CountInv'
  <2>1. UNCHANGED << started, calls, inFlight, faults >>
    BY <1>4 DEF CallStep, AcceptCall, DenyCall, Answer, LoseAnswer, DeliverFrame, AnswerCallback
  <2>2. Reserved' = Reserved
    BY <1>2, <1>4 DEF CallStep, AcceptCall, DenyCall, Answer, LoseAnswer, DeliverFrame,
      AnswerCallback, CallMoves, CallEnds, Reserved
  <2> QED
    BY <1>1, <1>2, <2>1, <2>2, CountFrame
<1>5. CASE RefuseCall \/ LimitCall
  <2>1. /\ Head(chain).call \in Calls /\ call[Head(chain).call] = "reserving"
    BY <1>1, <1>5, HeadIsAlone DEF RefuseCall, LimitCall, CallTx, Awaits
  <2>2. Reserved' = Reserved
    BY <1>2, <1>5, <2>1 DEF RefuseCall, LimitCall, CallMoves, CallEnds, Reserved
  <2>3. UNCHANGED << started, calls, inFlight, faults >>
    BY <1>5 DEF RefuseCall, LimitCall
  <2> QED
    BY <1>1, <1>2, <2>2, <2>3, CountFrame
<1>6. CASE ReserveCall
  <2> DEFINE c == Head(chain).call
  <2>1. c \in Calls /\ call[c] = "reserving"
    BY <1>1, <1>6, HeadIsAlone DEF ReserveCall, CallTx, Awaits
  <2>2. c \notin started /\ c \notin Reserved
    BY <1>1, <2>1 DEF CallInv, Reserved
  <2>3. /\ started' = started \cup {c} /\ calls' = calls + 1 /\ inFlight' = inFlight + 1
        /\ UNCHANGED faults /\ CallMoves(c, "invoking")
        /\ calls < CallLimit /\ inFlight < InFlightLimit
    BY <1>2, <1>6 DEF ReserveCall, LimitReached
  <2> HIDE DEF c
  <2>4. Reserved' = Reserved \cup {c}
    BY <1>2, <2>1, <2>3 DEF CallMoves, Reserved
  <2>5. /\ IsFiniteSet(started') /\ Cardinality(started') = Cardinality(started) + 1
    BY <1>3, <2>2, <2>3, FS_AddElement
  <2>6. /\ IsFiniteSet(Reserved') /\ Cardinality(Reserved') = Cardinality(Reserved) + 1
    BY <1>3, <2>2, <2>4, FS_AddElement
  <2> QED
    BY <1>2, <1>3, <2>3, <2>5, <2>6 DEF CountInv
<1>7. CASE ObserveCall
  <2>1. /\ Head(chain).call \in Calls /\ call[Head(chain).call] = "observing"
    BY <1>1, <1>7, HeadIsAlone DEF ObserveCall, CallTx, Awaits
  <2>2. Reserved' = Reserved
    BY <1>2, <1>7, <2>1 DEF ObserveCall, CallMoves, Reserved
  <2>3. UNCHANGED << started, calls, inFlight, faults >>
    BY <1>7 DEF ObserveCall
  <2> QED
    BY <1>1, <1>2, <2>2, <2>3, CountFrame
\* A release that commits returns the slot, one that fails leaves it counted.
<1>8. ASSUME At("release"), CallMoves(Head(chain).call, "done"), UNCHANGED << started, calls >>,
             \/ UNCHANGED faults /\ inFlight' = IF inFlight = 0 THEN 0 ELSE inFlight - 1
             \/ faults' = faults + 1 /\ UNCHANGED inFlight
      PROVE  CountInv'
  <2> DEFINE c == Head(chain).call
  <2>1. c \in Calls /\ call[c] = "releasing"
    BY <1>1, <1>8, HeadIsAlone DEF CallTx, Awaits
  <2>2. c \in Reserved
    BY <2>1 DEF Reserved
  <2>3. CallMoves(c, "done")
    BY <1>8
  <2> HIDE DEF c
  <2>4. Reserved' = Reserved \ {c}
    BY <1>2, <2>1, <2>3 DEF CallMoves, Reserved
  <2>5. IsFiniteSet(Reserved') /\ Cardinality(Reserved') = Cardinality(Reserved) - 1
    BY <1>3, <2>2, <2>4, FS_RemoveElement
  <2>6. Cardinality(Reserved') \in Nat
    BY <2>5, FS_CardinalityType
  <2> QED
    BY <1>2, <1>3, <1>8, <2>5, <2>6 DEF CountInv
<1>9. CASE ReleaseCall
  BY <1>8, <1>9 DEF ReleaseCall
<1>10. CASE CallTransactionFails
  <2>1. CASE Fails("release") /\ CallMoves(Head(chain).call, "done")
    BY <1>8, <2>1 DEF Fails
  <2>2. CASE \/ Fails("reserve") /\ CallMoves(Head(chain).call, "done")
             \/ Fails("observe") /\ CallMoves(Head(chain).call, "releasing")
    <3>1. /\ Head(chain).call \in Calls
          /\ Fails("reserve") => call[Head(chain).call] = "reserving"
          /\ Fails("observe") => call[Head(chain).call] = "observing"
      BY <1>1, <2>2, HeadIsAlone DEF Fails, CallTx, Awaits
    <3>2. Reserved' = Reserved
      BY <1>2, <2>2, <3>1 DEF Fails, At, CallMoves, Reserved
    <3>3. UNCHANGED << started, calls, inFlight >> /\ faults' = faults + 1
      BY <2>2 DEF Fails
    <3> QED
      BY <1>1, <1>2, <3>2, <3>3, CountFrame
  <2> QED
    BY <1>10, <2>1, <2>2 DEF CallTransactionFails, CallEnds
<1>11. CASE CheckCalls \/ Settle \/ CloseGate \/ WorkTransactionFails
  <2>1. UNCHANGED << started, calls, inFlight, call >> /\ faults' \in {faults, faults + 1}
    BY <1>11 DEF CheckCalls, Settle, CloseGate, WorkTransactionFails, Fails
  <2> QED
    BY <1>1, <1>2, <2>1, CountFrame DEF Reserved
<1>12. CASE \/ InterpreterStep \/ AbortRun \/ Conclude \/ TimesOut
            \/ RequestCancel \/ TimeUp \/ UNCHANGED vars
  <2>1. UNCHANGED << started, calls, inFlight, call, faults >>
    BY <1>12 DEF InterpreterStep, ProgramReturns, LogsWritten, RunnerStops, ResponseArrives,
      BodyRead, GatewayFails, AbortRun, Conclude, TimesOut, RequestCancel, TimeUp
  <2> QED
    BY <1>1, <1>2, <2>1, CountFrame DEF Reserved
<1> QED
  BY <1>4, <1>5, <1>6, <1>7, <1>9, <1>10, <1>11, <1>12 DEF Next, Transaction

-----------------------------------------------------------------------------
(* The theorems *)

LEMMA InitInvariant == Init => IInv
<1> SUFFICES ASSUME Init PROVE IInv
  OBVIOUS
<1>1. chain = << >> /\ chain \in Seq(Transactions) /\ DOMAIN chain = {}
  BY DEF Init
<1>2. TypeOK
  <2>1. 0 \in 0..MaxFaults
    BY BrokerAssumption
  <2>2. call \in [Calls -> CallStates]
    BY DEF Init, CallStates
  <2>3. reply \in [Calls -> {"none", "value"} \cup Errors]
    BY DEF Init
  <2>4. fiber \in FiberStates
    BY DEF Init, FiberStates
  <2> QED
    BY <1>1, <2>1, <2>2, <2>3, <2>4 DEF Init, TypeOK
<1>3. CallQueueInv /\ WorkQueueInv /\ OrderInv
  BY <1>1 DEF CallQueueInv, WorkQueueInv, OrderInv
<1>4. RowInv /\ CallInv /\ ChildInv
  BY DEF Init, RowInv, CallInv, ChildInv, Reserved
<1>5. Reserved = {} /\ started = {} /\ calls = 0 /\ inFlight = 0 /\ faults = 0
  BY DEF Init, Reserved
<1>6. CountInv
  BY <1>5, FS_EmptySet, BrokerAssumption DEF CountInv
<1> QED
  BY <1>2, <1>3, <1>4, <1>6 DEF IInv

LEMMA TypeStep ==
  ASSUME TypeOK, [Next]_vars
  PROVE  TypeOK'
<1>1. CASE UNCHANGED vars
  BY <1>1 DEF TypeOK
<1> QED
  BY <1>1, CallTypes, TransactionTypes, RestTypes DEF Next

\* IInv is an invariant of CodeBroker.
THEOREM Invariant == Spec => []IInv
<1>1. IInv /\ [Next]_vars => IInv'
  BY TypeStep, CallQueueStep, WorkQueueStep, OrderStep, RowStep, CallInvStep, ChildStep, CountStep
  DEF IInv
<1> QED
  BY InitInvariant, <1>1, PTL DEF Spec

\* A program starts no more calls than its bounds allow, in all and at a time
\* (reserveCall).
THEOREM LimitsHold == Spec => []WithinCallLimits
<1>1. IInv => WithinCallLimits
  <2> SUFFICES ASSUME IInv PROVE WithinCallLimits
    OBVIOUS
  <2>1. Cardinality(Reserved) \in Nat
    BY FS_CardinalityType DEF IInv, CountInv
  <2> QED
    BY <2>1, BrokerAssumption DEF IInv, CountInv, TypeOK, WithinCallLimits
<1> QED
  BY Invariant, <1>1, PTL

\* work.inFlight counts the calls that hold a slot, up to releases that failed
\* (reserveCall, releaseCall).
THEOREM SlotsAreCounted == Spec => []InFlightIsCounted
<1>1. IInv => InFlightIsCounted
  BY DEF IInv, CountInv, InFlightIsCounted
<1> QED
  BY Invariant, <1>1, PTL

LEMMA InitRefines == Init => Promise!Init
  BY DEF Init, Promise!Init

LEMMA StepRefines ==
  ASSUME IInv, [Next]_vars
  PROVE  [Promise!Next]_Promise!vars
<1> USE DEF Promise!Next, Promise!vars, Promise!Start, Promise!Observe, Promise!Settle,
          Promise!Reconcile
<1> DEFINE Stutter == UNCHANGED << interpreter, phase, started, observed >>
<1>1. ASSUME Stutter PROVE [Promise!Next]_Promise!vars
  BY <1>1
<1>2. CASE ReserveCall
  <2>1. Head(chain).call \in Calls /\ call[Head(chain).call] = "reserving"
    BY <1>2, HeadIsAlone DEF IInv, ReserveCall, CallTx, Awaits
  <2>2. Head(chain).call \notin started /\ phase = "running"
    BY <1>2, <2>1 DEF IInv, CallInv, RowInv, ReserveCall, CallAllowed
  <2>3. Promise!Start(Head(chain).call)
    BY <1>2, <2>2 DEF ReserveCall
  <2> QED
    BY <2>1, <2>3
<1>3. CASE ObserveCall
  <2>1. Head(chain).call \in Calls /\ Head(chain).call \in Reserved
    BY <1>3, HeadIsAlone DEF IInv, ObserveCall, CallTx, Awaits, Reserved
  <2>2. Head(chain).call \in started
    BY <2>1 DEF IInv, CallInv
  <2>3. Promise!Observe(Head(chain).call) \/ UNCHANGED Promise!vars
    BY <1>3, <2>2 DEF ObserveCall
  <2> QED
    BY <2>1, <2>3
<1>4. CASE Settle
  <2>1. CASE phase = "settled"
    BY <1>1, <1>4, <2>1 DEF Settle
  <2>2. CASE phase # "settled"
    <3>1. /\ 1 \in DOMAIN chain /\ Head(chain) = chain[1] /\ Queued(1, "settle")
          /\ Head(chain).to \in Receipts
      BY <1>4, Heads DEF IInv, Settle
    <3>2. fiber \in {"completing", "checking", "settling"}
      BY <3>1 DEF IInv, WorkQueueInv
    <3>3. phase = "running"
      BY <2>2, <3>2 DEF IInv, RowInv, TypeOK, Receipts
    <3>4. phase' = Head(chain).to /\ UNCHANGED << interpreter, started, observed >>
      BY <1>4, <2>2 DEF Settle
    <3>5. Head(chain).to = "settled" /\ interpreter = "quickjs" => started \subseteq observed
      BY <3>1 DEF IInv, OrderInv, CallsAccounted
    <3>6. CASE Head(chain).to = "settled"
      BY <3>3, <3>4, <3>5, <3>6
    <3>7. CASE Head(chain).to = "reconciling"
      BY <3>3, <3>4, <3>7
    <3> QED
      BY <3>1, <3>6, <3>7 DEF Receipts
  <2> QED
    BY <2>1, <2>2
<1>5. ASSUME NEW c \in Calls, CallStep(c) PROVE [Promise!Next]_Promise!vars
  BY <1>1, <1>5 DEF CallStep, AcceptCall, DenyCall, Answer, LoseAnswer, DeliverFrame, AnswerCallback
<1>6. CASE \/ RefuseCall \/ LimitCall \/ ReleaseCall \/ CheckCalls \/ CloseGate
           \/ CallTransactionFails \/ WorkTransactionFails
  BY <1>1, <1>6 DEF RefuseCall, LimitCall, ReleaseCall, CheckCalls, CloseGate,
    CallTransactionFails, WorkTransactionFails, Fails
<1>7. CASE \/ InterpreterStep \/ AbortRun \/ Conclude \/ TimesOut
           \/ RequestCancel \/ TimeUp \/ UNCHANGED vars
  BY <1>1, <1>7 DEF InterpreterStep, ProgramReturns, LogsWritten, RunnerStops, ResponseArrives,
      BodyRead, GatewayFails, AbortRun, Conclude, TimesOut, RequestCancel, TimeUp
<1> QED
  BY <1>2, <1>3, <1>4, <1>5, <1>6, <1>7 DEF Next, Transaction

\* The broker, its interpreters and the fiber that records the end implement
\* Program: no call starts after the receipt, and under an interpreter that
\* accounts for its calls none is left unobserved by a settled Work.
THEOREM BrokerImplementsProgram == Spec => ImplementsProgram
  BY Invariant, InitRefines, StepRefines, PTL DEF Spec, ImplementsProgram, Promise!Spec

\* README.md:69 holds of the programs that run under QuickJS: done (quickjs.ts:67-84)
\* looks at the unanswered calls at the very end, so a settled Work has none whose
\* outcome is unknown.  Whether a call is observed after the receipt, or is one of
\* a Work left to reconciliation, makes no difference.
THEOREM QuickJSAccounts ==
  Spec => [](interpreter = "quickjs" => UnknownCallsAreReconciled)
<1> DEFINE Accounted == interpreter = "quickjs" /\ phase = "settled" => CallsAccounted
<1>1. Init => Accounted
  BY DEF Init
<1>2. ASSUME IInv, Accounted, [Next]_vars
      PROVE  Accounted'
  <2>1. [Promise!Next]_Promise!vars
    BY <1>2, StepRefines
  <2>2. TypeOK' /\ phase \in {"running", "settled", "reconciling"}
    BY <1>2, TypeStep DEF IInv, TypeOK, Receipts
  <2>3. phase' \in {"running", "settled", "reconciling"}
    BY <2>2 DEF TypeOK, Receipts
  <2>4. interpreter' = "quickjs" => interpreter = "quickjs"
    BY <2>1 DEF Promise!Next, Promise!vars, Promise!Start, Promise!Observe, Promise!Settle,
       Promise!Reconcile
  <2> QED
    BY <1>2, <2>1, <2>2, <2>3, <2>4 DEF CallsAccounted, Promise!Next, Promise!vars,
       Promise!Start, Promise!Observe, Promise!Settle, Promise!Reconcile
<1>3. Spec => []Accounted
  BY <1>1, <1>2, Invariant, PTL DEF Spec
<1>4. Accounted => (interpreter = "quickjs" => UnknownCallsAreReconciled)
  BY DEF UnknownCallsAreReconciled
<1> QED
  BY <1>3, <1>4, PTL
=============================================================================
