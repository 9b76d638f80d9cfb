------------------------------ MODULE Journal ------------------------------
(***************************************************************************)
(* The journal on PostgreSQL (src/src/journal.ts:86-183): the session of a *)
(* coordinator, the lock that keeps other coordinators out, the chain of   *)
(* its transactions, and what becomes of them when a statement fails, the  *)
(* connection breaks, the process stops or close is called.                *)
(*                                                                         *)
(* A query and its reply are one step, but for COMMIT: that may be on its  *)
(* way when the connection breaks, and the server notices late, perhaps    *)
(* after it ran it.  pg_advisory_xact_lock is part of BEGIN and waits for  *)
(* the transactions of others.  A transaction writes every row in turn.    *)
(***************************************************************************)
EXTENDS Naturals, Sequences

CONSTANTS
  Coordinators,  \* the processes that open the journal, each once
  Txns, OwnerOf, \* the transactions, and whose they are
  RowCount,      \* the number of rows that a transaction writes, in order
  None

ASSUME JournalAssumption ==
  /\ OwnerOf \in [Txns -> Coordinators]
  /\ None \notin Coordinators /\ None \notin Txns
  /\ RowCount \in Nat \ {0}

VARIABLES
  \* The server.
  committed, \* Rows -> the transactions that wrote the row
  dirty,     \* Coordinators -> the rows as its open transaction has them
  session,   \* Coordinators -> its session at the server
  locked,    \* the session that holds the advisory lock
  committing,\* Coordinators -> the transaction whose COMMIT is on its way
  \* The coordinators.
  client,    \* Coordinators -> what has become of its connection
  chain,     \* Coordinators -> the transactions it called, in order
  closing,   \* Coordinators -> how many of them close waits for
  step,      \* Txns -> how far it is
  done,      \* Txns -> how many of its statements were run
  answer     \* Txns -> what its caller was told; "lost" is an error, too

server == <<committed, dirty, session, locked, committing>>
vars == <<server, client, chain, closing, step, done, answer>>

Rows == 1..RowCount
Elements(s) == {s[i] : i \in DOMAIN s}
NoRows == [r \in Rows |-> <<>>]
Steps == {"new", "chained", "body", "commit", "committed", "rollback", "settled"}

TypeOK ==
  /\ committed \in [Rows -> Seq(Txns)]
  /\ dirty \in [Coordinators -> [Rows -> Seq(Txns)]]
  /\ session \in [Coordinators -> {"none", "idle", "open"}]
  /\ locked \in Coordinators \cup {None}
  /\ committing \in [Coordinators -> Txns \cup {None}]
  /\ client \in [Coordinators -> {"new", "open", "closing", "broken", "refused", "gone"}]
  /\ chain \in [Coordinators -> Seq(Txns)]
  /\ closing \in [Coordinators -> Nat]
  /\ step \in [Txns -> Steps] /\ done \in [Txns -> Nat]
  /\ answer \in [Txns -> {"none", "ok", "failed", "lost"}]

Init ==
  /\ committed = NoRows /\ dirty = [p \in Coordinators |-> NoRows]
  /\ session = [p \in Coordinators |-> "none"] /\ locked = None
  /\ committing = [p \in Coordinators |-> None]
  /\ client = [p \in Coordinators |-> "new"]
  /\ chain = [p \in Coordinators |-> <<>>]
  /\ closing = [p \in Coordinators |-> 0]
  /\ step = [t \in Txns |-> "new"] /\ done = [t \in Txns |-> 0]
  /\ answer = [t \in Txns |-> "none"]

-----------------------------------------------------------------------------
(* open and close *)

\* pg_try_advisory_lock, and the checks and the migration after it.
Open(p) ==
  /\ client[p] = "new"
  /\ \/ /\ locked = None
        /\ locked' = p /\ session' = [session EXCEPT ![p] = "idle"]
        /\ client' = [client EXCEPT ![p] = "open"]
     \/ /\ client' = [client EXCEPT ![p] = "refused"]
        /\ UNCHANGED <<locked, session>>
  /\ UNCHANGED <<committed, dirty, committing, chain, closing, step, done, answer>>

Close(p) ==
  /\ client[p] = "open"
  /\ client' = [client EXCEPT ![p] = "closing"]
  /\ closing' = [closing EXCEPT ![p] = Len(chain[p])]
  /\ UNCHANGED <<server, chain, step, done, answer>>

Disconnect(p) ==
  /\ client' = [client EXCEPT ![p] = "broken"]
  /\ UNCHANGED <<server, chain, closing, step, done, answer>>

\* close has waited for the chain as it was; a later call may still be at work.
CloseDb(p) ==
  /\ client[p] = "closing"
  /\ \A i \in 1..closing[p] : step[chain[p][i]] = "settled"
  /\ Disconnect(p)

\* pg.Client has no listener for errors here, so that a connection that breaks may
\* also end the process (Stop).
Break(p) == client[p] \in {"open", "closing"} /\ Disconnect(p)

\* The process stops.
Stop(p) ==
  /\ client[p] \in {"open", "closing", "broken"}
  /\ client' = [client EXCEPT ![p] = "gone"]
  /\ step' = [t \in Txns |-> IF t \in Elements(chain[p]) THEN "settled" ELSE step[t]]
  /\ answer' = [t \in Txns |-> IF t \in Elements(chain[p]) /\ answer[t] = "none" THEN "lost"
                               ELSE answer[t]]
  /\ UNCHANGED <<server, chain, closing, done>>

\* The server notices that the connection is gone.
SessionEnds(p) ==
  /\ client[p] \in {"broken", "gone"} /\ session[p] # "none"
  /\ session' = [session EXCEPT ![p] = "none"]
  /\ locked' = IF locked = p THEN None ELSE locked
  /\ committing' = [committing EXCEPT ![p] = None]
  /\ dirty' = [dirty EXCEPT ![p] = NoRows]
  /\ UNCHANGED <<committed, client, chain, closing, step, done, answer>>

-----------------------------------------------------------------------------
(* transaction *)

Connected(p) == client[p] \in {"open", "closing"}

Call(t) ==
  LET p == OwnerOf[t]
  IN /\ step[t] = "new" /\ client[p] \in {"open", "closing", "broken"}
     /\ chain' = [chain EXCEPT ![p] = Append(@, t)]
     /\ step' = [step EXCEPT ![t] = "chained"]
     /\ UNCHANGED <<server, client, closing, done, answer>>

\* Mutant: the chain breaks with the first transaction that fails.
FirstOfOk(t) == \E i \in DOMAIN chain[OwnerOf[t]] :
  /\ chain[OwnerOf[t]][i] = t
  /\ \A j \in 1..(i - 1) : answer[chain[OwnerOf[t]][j]] = "ok"
\* The transactions that were called before came to their ends.
FirstOf(t) == \E i \in DOMAIN chain[OwnerOf[t]] :
  /\ chain[OwnerOf[t]][i] = t
  /\ \A j \in 1..(i - 1) : step[chain[OwnerOf[t]][j]] = "settled"

Settle(t, how) ==
  /\ step' = [step EXCEPT ![t] = "settled"]
  /\ answer' = [answer EXCEPT ![t] = how]
  /\ UNCHANGED <<client, chain, closing, done>>

Go(t, to) ==
  /\ step' = [step EXCEPT ![t] = to]
  /\ UNCHANGED <<client, chain, closing, done, answer>>

Begin(t) ==
  LET p == OwnerOf[t]
  IN /\ step[t] = "chained" /\ FirstOf(t)
     /\ Connected(p) /\ \A o \in Coordinators : session[o] # "open"
     /\ session' = [session EXCEPT ![p] = "open"]
     /\ dirty' = [dirty EXCEPT ![p] = committed]
     /\ Go(t, "body")
     /\ UNCHANGED <<committed, locked, committing>>

Statement(t) ==
  LET p == OwnerOf[t]
  IN /\ step[t] = "body" /\ done[t] + 1 \in Rows /\ Connected(p)
     /\ dirty' = [dirty EXCEPT ![p][done[t] + 1] = Append(@, t)]
     /\ done' = [done EXCEPT ![t] = @ + 1]
     /\ UNCHANGED <<committed, session, locked, committing, client, chain, closing, step, answer>>

\* A statement fails, or fn throws.
Throw(t) ==
  /\ step[t] = "body" /\ Connected(OwnerOf[t])
  /\ Go(t, "rollback") /\ UNCHANGED server

SendCommit(t) ==
  LET p == OwnerOf[t]
  IN /\ step[t] = "body" /\ done[t] + 1 \notin Rows /\ Connected(p)
     /\ committing' = [committing EXCEPT ![p] = t]
     /\ Go(t, "commit")
     /\ UNCHANGED <<committed, dirty, session, locked>>

\* The server runs a COMMIT, or fails to and rolls back.
RunCommit(p) ==
  LET t == committing[p]
  IN /\ t # None /\ session[p] = "open"
     /\ session' = [session EXCEPT ![p] = "idle"]
     /\ committing' = [committing EXCEPT ![p] = None]
     /\ \E ok \in BOOLEAN :
          /\ committed' = IF ok THEN dirty[p] ELSE committed
          /\ IF step[t] = "commit" THEN Go(t, IF ok THEN "committed" ELSE "rollback")
             ELSE UNCHANGED <<client, chain, closing, step, done, answer>>
     /\ UNCHANGED <<dirty, locked>>

Committed(t) ==
  /\ step[t] = "committed" /\ Connected(OwnerOf[t])
  /\ Settle(t, "ok") /\ UNCHANGED server

Rollback(t) ==
  LET p == OwnerOf[t]
  IN /\ step[t] = "rollback" /\ Connected(p)
     /\ session' = [session EXCEPT ![p] = "idle"]
     /\ Settle(t, "failed")
     /\ UNCHANGED <<committed, dirty, locked, committing>>

\* Without a connection BEGIN rejects outside the try, anything else rejects and
\* then ROLLBACK does, too.
Reject(t) ==
  /\ client[OwnerOf[t]] = "broken"
  /\ step[t] \in {"chained", "body", "rollback", "commit", "committed"}
  /\ step[t] = "chained" => FirstOf(t)
  /\ Settle(t, IF step[t] \in {"commit", "committed"} THEN "lost" ELSE "failed")
  /\ UNCHANGED server

Transaction(t) ==
  \/ Begin(t) \/ Statement(t) \/ SendCommit(t) \/ Committed(t) \/ Rollback(t) \/ Reject(t)

Next ==
  \/ \E p \in Coordinators :
       \/ Open(p) \/ Close(p) \/ CloseDb(p) \/ Break(p) \/ Stop(p)
       \/ SessionEnds(p) \/ RunCommit(p)
  \/ \E t \in Txns : Call(t) \/ Throw(t) \/ Transaction(t)

(* A coordinator goes on with its transactions, of which one at a time has *)
(* a next step, and the server with what it was sent; it notices in the    *)
(* end that a connection is gone.                                          *)
GoOn(p) == \E t \in Txns : OwnerOf[t] = p /\ Transaction(t)
Fairness == \A p \in Coordinators : /\ WF_vars(GoOn(p))
                                    /\ WF_vars(RunCommit(p) \/ SessionEnds(p))

Spec == Init /\ [][Next]_vars
FairSpec == Spec /\ Fairness

-----------------------------------------------------------------------------

\* Transactions are atomic, happen in the order of their calls, are answered
\* truly and in any case, whatever fails; and what a coordinator that is gone
\* left on its way does not happen once the next one was let in.
A == INSTANCE AtomicJournal WITH
  owner <- locked, table <- committed,
  retired <- {p \in Coordinators : client[p] \notin {"new", "refused"}} \ {locked}

ImplementsAtomicJournal == A!AtomicJournalSpec
=============================================================================
