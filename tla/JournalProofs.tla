--------------------------- MODULE JournalProofs ---------------------------
(***************************************************************************)
(* Journal implements the safety of AtomicJournal, for all coordinators,   *)
(* transactions and rows, and whatever fails.                              *)
(*                                                                         *)
(* The argument is about the COMMIT that was sent.  The server runs it in  *)
(* a session that is open, and an open session has the lock (Locking): so  *)
(* no other coordinator was let in, and no other transaction changed what  *)
(* it read (Working, Committing).  The transactions that were called after *)
(* it have not begun, for each waits for all before it (InOrder), and they *)
(* cannot begin once the connection is gone.                               *)
(***************************************************************************)
EXTENDS Journal, SequenceTheorems, TLAPS

\* Who is connected has a session, and a session the lock; a COMMIT is run in one.
Locking ==
  \A p \in Coordinators :
    /\ Connected(p) => session[p] # "none"
    /\ session[p] # "none" => locked = p /\ client[p] \notin {"new", "refused"}
    /\ committing[p] # None => session[p] = "open"
    /\ locked = p => client[p] \notin {"new", "refused"}

\* A chain is what its coordinator called, each once.
Chains ==
  /\ \A p \in Coordinators : \A i \in DOMAIN chain[p] :
       /\ OwnerOf[chain[p][i]] = p
       /\ \A j \in DOMAIN chain[p] : chain[p][i] = chain[p][j] => i = j
  /\ \A p \in Coordinators : client[p] \in {"new", "refused"} => chain[p] = <<>>
  /\ \A t \in Txns : step[t] = "new" <=> t \notin Elements(chain[OwnerOf[t]])

\* A transaction that is past its place in the chain has none before it.
InOrder ==
  /\ \A p \in Coordinators : \A j \in DOMAIN chain[p] :
       step[chain[p][j]] # "chained" =>
         \A i \in 1..(j - 1) : step[chain[p][i]] = "settled"
  /\ \A t \in Txns : step[t] \in {"new", "chained"} => done[t] = 0
  /\ \A t \in Txns : answer[t] = "none" <=> step[t] # "settled"

\* What the session of a transaction has written when k of its statements were run.
Partial(t, k) == [r \in Rows |-> IF r <= k THEN Append(committed[r], t) ELSE committed[r]]

\* A transaction at work with its connection.
Working ==
  \A t \in Txns : Connected(OwnerOf[t]) =>
    /\ step[t] = "body" =>
         /\ session[OwnerOf[t]] = "open" /\ committing[OwnerOf[t]] = None
         /\ done[t] = 0 \/ done[t] \in Rows
         /\ dirty[OwnerOf[t]] = Partial(t, done[t])
    /\ step[t] = "commit" => committing[OwnerOf[t]] = t
    /\ step[t] \in {"rollback", "committed"} => committing[OwnerOf[t]] = None

\* A COMMIT that the server was sent, also one of a caller who has its answer.
Committing ==
  \A p \in Coordinators, t \in Txns : committing[p] = t =>
    /\ OwnerOf[t] = p /\ done[t] # 0
    /\ dirty[p] = [r \in Rows |-> Append(committed[r], t)]
    /\ \/ step[t] = "commit"
       \/ step[t] = "settled" /\ answer[t] = "lost" /\ ~Connected(p)
    /\ ~A!InTable(t)
    /\ \A i, j \in DOMAIN chain[p] : chain[p][i] = t /\ j > i => done[chain[p][j]] = 0

\* What is in the table got there by a COMMIT.
Tables ==
  \A t \in Txns :
    /\ A!InTable(t) => done[t] # 0 /\ step[t] \in {"committed", "settled"}
    /\ step[t] = "committed" => A!InTable(t)

IInv == TypeOK /\ Locking /\ Chains /\ InOrder /\ Working /\ Committing /\ Tables

-----------------------------------------------------------------------------
(* Lemmas *)

\* What is in a sequence with one more.
LEMMA AppendElements ==
  ASSUME NEW S, NEW s \in Seq(S), NEW e \in S
  PROVE  /\ Elements(Append(s, e)) = Elements(s) \cup {e}
         /\ A!Elements(Append(s, e)) = A!Elements(s) \cup {e}
  <1>1. /\ Append(s, e) \in Seq(S) /\ Len(Append(s, e)) = Len(s) + 1
        /\ \A i \in 1..Len(s) : Append(s, e)[i] = s[i]
        /\ Append(s, e)[Len(s) + 1] = e
    OBVIOUS
  <1>2. DOMAIN Append(s, e) = 1..(Len(s) + 1) /\ DOMAIN s = 1..Len(s) /\ Len(s) \in Nat
    BY <1>1
  <1>3. Elements(Append(s, e)) = Elements(s) \cup {e}
    BY <1>1, <1>2 DEF Elements
  <1>4. A!Elements(Append(s, e)) = A!Elements(s) \cup {e}
    BY <1>1, <1>2 DEF A!Elements
  <1> QED BY <1>3, <1>4

\* The table is the same if its rows are (journal.ts:169).
LEMMA SameTable ==
  ASSUME NEW t, UNCHANGED committed
  PROVE  A!InTable(t)' <=> A!InTable(t)
  BY DEF A!InTable, A!Elements

\* Of whom a COMMIT is that was sent, what he knows, and what waits behind it.
LEMMA CommitSent ==
  ASSUME Committing, NEW q \in Coordinators, NEW x \in Txns, committing[q] = x
  PROVE  /\ OwnerOf[x] = q
         /\ \/ step[x] = "commit"
            \/ step[x] = "settled" /\ answer[x] = "lost" /\ ~Connected(q)
         /\ ~A!InTable(x)
         /\ \A i, j \in DOMAIN chain[q] : chain[q][i] = x /\ j > i => done[chain[q][j]] = 0
  BY ZenonT(40) DEF Committing

\* A chain holds when nothing new is called (162).
LEMMA SameChains ==
  ASSUME Chains, UNCHANGED chain, \A t \in Txns : step'[t] = "new" <=> step[t] = "new",
         \A p \in Coordinators : client'[p] \in {"new", "refused"} => client[p] \in {"new", "refused"}
  PROVE  Chains'
  BY DEF Chains, Elements

\* A transaction that was called has one place in its coordinator's chain.
LEMMA PlaceOf ==
  ASSUME JournalAssumption, IInv, NEW t \in Txns, step[t] # "new"
  PROVE  \E i \in DOMAIN chain[OwnerOf[t]] : chain[OwnerOf[t]][i] = t
  BY DEF IInv, Chains, Elements

\* All that comes before a transaction at work, or whose turn it is, is settled.
LEMMA TurnOf ==
  ASSUME JournalAssumption, IInv, NEW t \in Txns,
         \/ step[t] \notin {"new", "chained", "settled"}
         \/ step[t] = "chained" /\ FirstOf(t)
  PROVE  \E i \in DOMAIN chain[OwnerOf[t]] :
           /\ chain[OwnerOf[t]][i] = t
           /\ \A k \in 1..(i - 1) : step[chain[OwnerOf[t]][k]] = "settled"
  <1>1. CASE FirstOf(t)
    BY <1>1 DEF FirstOf
  <1>2. CASE step[t] \notin {"new", "chained", "settled"}
    <2>1. PICK i \in DOMAIN chain[OwnerOf[t]] : chain[OwnerOf[t]][i] = t
      BY <1>2, PlaceOf
    <2>2. OwnerOf[t] \in Coordinators
      BY DEF JournalAssumption
    <2>3. \A k \in 1..(i - 1) : step[chain[OwnerOf[t]][k]] = "settled"
      BY <1>2, <2>1, <2>2 DEF IInv, InOrder
    <2> QED BY <2>1, <2>3
  <1> QED BY <1>1, <1>2

\* A transaction that is past its place, or whose turn it is, is due: it comes
\* after what is answered, and before what did not begin (163).
LEMMA IsDue ==
  ASSUME JournalAssumption, IInv, NEW t \in Txns,
         \/ step[t] \notin {"new", "chained", "settled"}
         \/ step[t] = "chained" /\ FirstOf(t)
  PROVE  A!Due(t)
  <1> DEFINE p == OwnerOf[t]
  <1>1. step[t] # "new" /\ p \in Coordinators /\ chain[p] \in Seq(Txns)
    BY DEF IInv, TypeOK, JournalAssumption
  <1>2. PICK i \in DOMAIN chain[p] :
          chain[p][i] = t /\ \A j \in 1..(i - 1) : step[chain[p][j]] = "settled"
    BY TurnOf
  <1>3. \A j \in DOMAIN chain[p] : j < i => answer[chain[p][j]] # "none"
    <2> SUFFICES ASSUME NEW j \in DOMAIN chain[p], j < i PROVE answer[chain[p][j]] # "none"
      OBVIOUS
    <2>1. j \in 1..(i - 1) /\ chain[p][j] \in Txns
      BY <1>1
    <2> QED BY <2>1, <1>2 DEF IInv, InOrder
  <1>4. \A j \in DOMAIN chain[p] : j > i => ~A!InTable(chain[p][j])
    <2> SUFFICES ASSUME NEW j \in DOMAIN chain[p], j > i PROVE ~A!InTable(chain[p][j])
      OBVIOUS
    <2>1. i \in 1..(j - 1) /\ chain[p][j] \in Txns /\ step[chain[p][i]] # "settled"
      BY <1>1, <1>2
    <2>2. step[chain[p][j]] = "chained"
      BY <1>1, <2>1 DEF IInv, InOrder
    <2> QED BY <2>1, <2>2 DEF IInv, Tables
  <1> QED BY <1>2, <1>3, <1>4 DEF A!Due

-----------------------------------------------------------------------------
(* open, close, and the ends of a process and of a session *)

\* open takes the lock or is refused it (94-161).
LEMMA OpenKeepsInv ==
  ASSUME JournalAssumption, IInv, NEW p \in Coordinators, Open(p)
  PROVE  IInv'
  <1>1. UNCHANGED <<committed, dirty, committing, chain, closing, step, done, answer>>
    BY DEF Open
  <1>2. TypeOK'
    BY DEF IInv, TypeOK, Open
  <1>3. ~Connected(p) /\ session[p] = "none" /\ committing[p] = None /\ locked # p
    BY DEF IInv, Locking, Open, Connected
  <1>4. Locking'
    BY <1>1, <1>3 DEF IInv, TypeOK, Locking, Open, Connected, JournalAssumption
  <1>5. \A t \in Txns : OwnerOf[t] = p => step[t] = "new"
    BY DEF IInv, Chains, Elements, Open
  <1>6. Working'
    <2>1. \A t \in Txns : Connected(OwnerOf[t])' => Connected(OwnerOf[t]) \/ OwnerOf[t] = p
      BY DEF IInv, TypeOK, JournalAssumption, Open, Connected
    <2>2. \A t \in Txns : session[OwnerOf[t]] = "open" => session'[OwnerOf[t]] = "open"
      <3>1. \A q \in Coordinators : q # p => session'[q] = session[q]
        BY DEF IInv, TypeOK, Open
      <3> QED BY <1>3, <3>1 DEF JournalAssumption
    <2> QED BY <1>1, <1>5, <2>1, <2>2 DEF IInv, Working, Partial
  <1>7. Committing'
    <2>1. \A q \in Coordinators : q # p => client'[q] = client[q]
      BY DEF IInv, TypeOK, Open
    <2>2. \A q \in Coordinators, t \in Txns : committing[q] = t => q # p
      BY <1>3 DEF JournalAssumption
    <2> QED BY <1>1, <2>1, <2>2, SameTable DEF IInv, Committing, Connected
  <1>8. Chains'
    BY <1>1, SameChains DEF IInv, TypeOK, Open
  <1>9. InOrder' /\ Tables'
    BY <1>1, SameTable DEF IInv, InOrder, Tables
  <1> QED BY <1>2, <1>4, <1>6, <1>7, <1>8, <1>9 DEF IInv

\* A connection that is to be closed, is closed or breaks is no longer one to
\* begin with (179-182).
LEMMA ClientKeepsInv ==
  ASSUME JournalAssumption, IInv, NEW p \in Coordinators, Close(p) \/ CloseDb(p) \/ Break(p)
  PROVE  IInv'
  <1>1. UNCHANGED <<server, chain, step, done, answer>>
    BY DEF Close, CloseDb, Break, Disconnect
  <1>2. /\ client[p] \in {"open", "closing"}
        /\ client' = [client EXCEPT ![p] = "closing"] \/ client' = [client EXCEPT ![p] = "broken"]
    BY DEF Close, CloseDb, Break, Disconnect
  <1>3. closing' \in [Coordinators -> Nat]
    <2>1. Len(chain[p]) \in Nat /\ closing \in [Coordinators -> Nat]
      BY DEF IInv, TypeOK
    <2>2. closing' = closing \/ closing' = [closing EXCEPT ![p] = Len(chain[p])]
      BY DEF Close, CloseDb, Break, Disconnect
    <2> QED BY <2>1, <2>2
  <1>4. /\ \A q \in Coordinators : Connected(q)' => Connected(q)
        /\ \A q \in Coordinators : client'[q] \in {"new", "refused"} <=> client[q] \in {"new", "refused"}
    BY <1>2 DEF IInv, TypeOK, Connected
  <1>5. TypeOK'
    BY <1>1, <1>2, <1>3 DEF IInv, TypeOK, server
  <1>6. Locking'
    BY <1>1, <1>4 DEF IInv, Locking, server
  <1>7. Chains'
    BY <1>1, <1>4, SameChains DEF IInv
  <1>8. Working'
    BY <1>1, <1>4 DEF IInv, Working, Partial, server, JournalAssumption
  <1>9. Committing'
    BY <1>1, <1>4, SameTable DEF IInv, Committing, server
  <1>10. InOrder' /\ Tables'
    BY <1>1, SameTable DEF IInv, InOrder, Tables, server
  <1> QED BY <1>5, <1>6, <1>7, <1>8, <1>9, <1>10 DEF IInv

\* A process that stops has come to the end of what it called, whatever the server
\* still does of it.
LEMMA StopKeepsInv ==
  ASSUME JournalAssumption, IInv, NEW p \in Coordinators, Stop(p)
  PROVE  IInv'
  <1>1. UNCHANGED <<committed, dirty, session, locked, committing, chain, closing, done>>
    BY DEF Stop, server
  <1>2. /\ \A q \in Coordinators : Connected(q)' => Connected(q) /\ q # p
        /\ \A q \in Coordinators : client'[q] \in {"new", "refused"} <=> client[q] \in {"new", "refused"}
    BY DEF IInv, TypeOK, Connected, Stop
  <1>3. \A t \in Txns : t \in Elements(chain[p]) <=> OwnerOf[t] = p /\ step[t] # "new"
    BY DEF IInv, Chains, Elements
  <1>4. \A t \in Txns :
          /\ step'[t] = IF OwnerOf[t] = p /\ step[t] # "new" THEN "settled" ELSE step[t]
          /\ answer'[t] = IF OwnerOf[t] = p /\ step[t] # "new" /\ answer[t] = "none" THEN "lost"
                          ELSE answer[t]
    BY <1>3 DEF Stop
  <1>5. TypeOK'
    BY <1>1 DEF IInv, TypeOK, Stop, Steps
  <1>6. Locking'
    BY <1>1, <1>2 DEF IInv, Locking
  <1>7. Chains'
    BY <1>1, <1>2, <1>4, SameChains DEF IInv
  <1>8. InOrder'
    <2>1. \A q \in Coordinators : \A j \in DOMAIN chain[q] :
            step'[chain[q][j]] # "chained" =>
              \A i \in 1..(j - 1) : step'[chain[q][i]] = "settled"
      <3> SUFFICES ASSUME NEW q \in Coordinators, NEW j \in DOMAIN chain[q],
                          step'[chain[q][j]] # "chained", NEW i \in 1..(j - 1)
                   PROVE  step'[chain[q][i]] = "settled"
        OBVIOUS
      <3>1. chain[q] \in Seq(Txns) /\ i \in DOMAIN chain[q]
        BY DEF IInv, TypeOK
      <3>2. /\ chain[q][i] \in Txns /\ chain[q][j] \in Txns
            /\ OwnerOf[chain[q][i]] = q /\ OwnerOf[chain[q][j]] = q
            /\ step[chain[q][i]] # "new"
        BY <3>1 DEF IInv, Chains, Elements
      <3>3. CASE q = p
        BY <1>4, <3>2, <3>3
      <3>4. CASE q # p
        BY <1>4, <3>2, <3>4 DEF IInv, InOrder
      <3> QED BY <3>3, <3>4
    <2>2. \A t \in Txns : step'[t] \in {"new", "chained"} => done[t] = 0
      BY <1>4 DEF IInv, InOrder
    <2>3. \A t \in Txns : answer'[t] = "none" <=> step'[t] # "settled"
      BY <1>4 DEF IInv, InOrder
    <2> QED BY <1>1, <2>1, <2>2, <2>3 DEF InOrder
  <1>9. Working'
    BY <1>1, <1>2, <1>4 DEF IInv, Working, Partial, JournalAssumption
  <1>10. Committing'
    <2>1. \A q \in Coordinators, t \in Txns : committing[q] = t =>
            \/ step'[t] = "commit"
            \/ step'[t] = "settled" /\ answer'[t] = "lost" /\ ~Connected(q)'
      <3> SUFFICES ASSUME NEW q \in Coordinators, NEW t \in Txns, committing[q] = t
                   PROVE  \/ step'[t] = "commit"
                          \/ step'[t] = "settled" /\ answer'[t] = "lost" /\ ~Connected(q)'
        OBVIOUS
      <3>1. /\ OwnerOf[t] = q
            /\ step[t] = "commit" \/ (step[t] = "settled" /\ answer[t] = "lost" /\ ~Connected(q))
        BY CommitSent DEF IInv
      <3>4. answer[t] = "none" <=> step[t] # "settled"
        BY DEF IInv, InOrder
      <3>2. CASE q = p
        BY <1>2, <1>4, <3>1, <3>4, <3>2
      <3>3. CASE q # p
        BY <1>2, <1>4, <3>1, <3>4, <3>3
      <3> QED BY <3>2, <3>3
    <2> QED BY <1>1, <2>1, SameTable DEF IInv, Committing
  <1>11. Tables'
    BY <1>1, <1>4, SameTable DEF IInv, Tables
  <1> QED BY <1>5, <1>6, <1>7, <1>8, <1>9, <1>10, <1>11 DEF IInv

\* With a session ends its transaction, and nobody is connected to it.
LEMMA SessionEndKeepsInv ==
  ASSUME JournalAssumption, IInv, NEW p \in Coordinators, SessionEnds(p)
  PROVE  IInv'
  <1>1. UNCHANGED <<committed, client, chain, closing, step, done, answer>>
    BY DEF SessionEnds
  <1>2. ~Connected(p)
    BY DEF SessionEnds, Connected
  <1>3. \A q \in Coordinators : q # p =>
          session'[q] = session[q] /\ committing'[q] = committing[q] /\ dirty'[q] = dirty[q]
    BY DEF SessionEnds, IInv, TypeOK
  <1>4. session'[p] = "none" /\ committing'[p] = None
    BY DEF SessionEnds, IInv, TypeOK
  <1>5. locked' = locked \/ (locked = p /\ locked' = None)
    BY DEF SessionEnds
  <1>6. TypeOK'
    BY DEF SessionEnds, IInv, TypeOK, NoRows
  <1>7. Locking'
    BY <1>1, <1>2, <1>3, <1>4, <1>5 DEF IInv, Locking, Connected, JournalAssumption
  <1>8. Chains'
    BY <1>1, SameChains DEF IInv
  <1>9. Working'
    BY <1>1, <1>2, <1>3 DEF IInv, Working, Partial, Connected, JournalAssumption
  <1>10. Committing'
    BY <1>1, <1>3, <1>4, SameTable DEF IInv, Committing, Connected
  <1>11. InOrder' /\ Tables'
    BY <1>1, SameTable DEF IInv, InOrder, Tables
  <1> QED BY <1>6, <1>7, <1>8, <1>9, <1>10, <1>11 DEF IInv

-----------------------------------------------------------------------------
(* transaction *)

\* Of the transactions of a coordinator one is at work at a time (163).
LEMMA OnlyOne ==
  ASSUME JournalAssumption, IInv, NEW t \in Txns, NEW x \in Txns, x # t, OwnerOf[x] = OwnerOf[t],
         \/ step[t] \notin {"new", "chained", "settled"}
         \/ step[t] = "chained" /\ FirstOf(t)
  PROVE  step[x] \in {"new", "chained", "settled"}
  <1> DEFINE p == OwnerOf[t]
  <1> SUFFICES ASSUME step[x] \notin {"new", "chained", "settled"} PROVE FALSE
    OBVIOUS
  <1>1. p \in Coordinators /\ chain[p] \in Seq(Txns)
    BY DEF IInv, TypeOK, JournalAssumption
  <1>2. PICK i \in DOMAIN chain[p] :
          chain[p][i] = t /\ \A k \in 1..(i - 1) : step[chain[p][k]] = "settled"
    BY TurnOf
  <1>3. PICK j \in DOMAIN chain[p] :
          chain[p][j] = x /\ \A k \in 1..(j - 1) : step[chain[p][k]] = "settled"
    <2>1. step[x] \notin {"new", "chained", "settled"}
      OBVIOUS
    <2> QED BY <2>1, TurnOf
  <1>4. i \in 1..(j - 1) \/ j \in 1..(i - 1)
    BY <1>1, <1>2, <1>3
  <1> QED BY <1>2, <1>3, <1>4

\* Who has a session keeps others from the server (94-127).
LEMMA OneServed ==
  ASSUME IInv, NEW p \in Coordinators, NEW q \in Coordinators, session[p] # "none",
         session[q] # "none" \/ Connected(q) \/ committing[q] # None
  PROVE  p = q
  BY DEF IInv, Locking

\* A transaction that is past its place moves on, and the order stands.
LEMMA OrderKept ==
  ASSUME JournalAssumption, IInv, NEW t \in Txns, NEW to \in Steps \ {"new", "chained"},
         \/ step[t] \notin {"new", "chained", "settled"}
         \/ step[t] = "chained" /\ FirstOf(t),
         step' = [step EXCEPT ![t] = to], UNCHANGED chain,
         \A x \in Txns : x # t => done'[x] = done[x],
         \A x \in Txns : answer'[x] = "none" <=> step'[x] # "settled"
  PROVE  InOrder'
  <1>1. \A x \in Txns : step'[x] = IF x = t THEN to ELSE step[x]
    BY DEF IInv, TypeOK
  <1>2. \A q \in Coordinators : \A j \in DOMAIN chain[q] :
          step'[chain[q][j]] # "chained" =>
            \A i \in 1..(j - 1) : step'[chain[q][i]] = "settled"
    <2> SUFFICES ASSUME NEW q \in Coordinators, NEW j \in DOMAIN chain[q],
                        step'[chain[q][j]] # "chained", NEW i \in 1..(j - 1)
                 PROVE  step'[chain[q][i]] = "settled"
      OBVIOUS
    <2> DEFINE x == chain[q][j]
               y == chain[q][i]
    <2>1. chain[q] \in Seq(Txns)
      BY DEF IInv, TypeOK
    <2>2. i \in DOMAIN chain[q] /\ i # j /\ x \in Txns /\ y \in Txns
      BY <2>1
    <2>3. x # y /\ OwnerOf[x] = q /\ OwnerOf[y] = q
      BY <2>2 DEF IInv, Chains
    <2>4. CASE x = t
      <3>1. step[y] = "settled"
        <4>1. CASE step[t] # "chained"
          BY <2>4, <4>1 DEF IInv, InOrder
        <4>2. CASE FirstOf(t)
          <5>1. PICK k \in DOMAIN chain[q] :
                  chain[q][k] = t /\ \A l \in 1..(k - 1) : step[chain[q][l]] = "settled"
            BY <2>3, <2>4, <4>2 DEF FirstOf
          <5>2. k = j
            BY <2>4, <5>1 DEF IInv, Chains
          <5> QED BY <5>1, <5>2
        <4> QED BY <4>1, <4>2
      <3> QED BY <1>1, <2>2, <2>3, <2>4, <3>1
    <2>5. CASE x # t
      <3>1. step[x] # "chained"
        BY <1>1, <2>2, <2>5
      <3>2. step[y] = "settled"
        BY <3>1 DEF IInv, InOrder
      <3> QED BY <1>1, <2>2, <3>2
    <2> QED BY <2>4, <2>5
  <1>3. \A x \in Txns : step'[x] \in {"new", "chained"} => done'[x] = 0
    BY <1>1 DEF IInv, InOrder
  <1> QED BY <1>2, <1>3 DEF InOrder

\* The chains stand, too.
LEMMA ChainsKept ==
  ASSUME JournalAssumption, IInv, NEW t \in Txns, NEW to \in Steps \ {"new"},
         step[t] # "new", step' = [step EXCEPT ![t] = to], UNCHANGED <<chain, client>>
  PROVE  Chains'
  BY SameChains DEF IInv, TypeOK

\* A transaction is chained behind those before it (162-163).
LEMMA CallKeepsInv ==
  ASSUME JournalAssumption, IInv, NEW t \in Txns, Call(t)
  PROVE  IInv'
  <1> DEFINE p == OwnerOf[t]
  <1>1. p \in Coordinators /\ chain[p] \in Seq(Txns) /\ step[t] = "new"
    BY DEF IInv, TypeOK, JournalAssumption, Call
  <1>2. UNCHANGED <<committed, dirty, session, locked, committing, client, closing, done, answer>>
    BY DEF Call, server
  <1>3. \A x \in Txns : step'[x] = IF x = t THEN "chained" ELSE step[x]
    BY DEF IInv, TypeOK, Call
  <1>4. /\ chain'[p] = Append(chain[p], t)
        /\ \A q \in Coordinators : q # p => chain'[q] = chain[q]
    BY <1>1 DEF IInv, TypeOK, Call
  <1>5. /\ Len(chain[p]) \in Nat
        /\ DOMAIN chain[p] = 1..Len(chain[p]) /\ DOMAIN chain'[p] = 1..(Len(chain[p]) + 1)
        /\ \A i \in 1..Len(chain[p]) : chain'[p][i] = chain[p][i]
        /\ chain'[p][Len(chain[p]) + 1] = t
    BY <1>1, <1>4
  <1>6. \A i \in DOMAIN chain[p] : chain[p][i] # t
    BY <1>1 DEF IInv, Chains, Elements
  <1>7. TypeOK'
    BY <1>1, <1>2 DEF IInv, TypeOK, Call, Steps
  <1>8. Locking'
    BY <1>2 DEF IInv, Locking, Connected
  <1>9. Chains'
    <2>1. \A q \in Coordinators : \A i \in DOMAIN chain'[q] :
            /\ OwnerOf[chain'[q][i]] = q
            /\ \A j \in DOMAIN chain'[q] : chain'[q][i] = chain'[q][j] => i = j
      <3> SUFFICES ASSUME NEW q \in Coordinators, NEW i \in DOMAIN chain'[q]
                   PROVE  /\ OwnerOf[chain'[q][i]] = q
                          /\ \A j \in DOMAIN chain'[q] : chain'[q][i] = chain'[q][j] => i = j
        OBVIOUS
      <3>1. CASE q # p
        BY <1>4, <3>1 DEF IInv, Chains
      <3>2. CASE q = p
        <4>1. i \in 1..(Len(chain[p]) + 1)
          BY <1>5, <3>2
        <4>2. /\ \A k \in 1..Len(chain[p]) : chain[p][k] # t /\ OwnerOf[chain[p][k]] = p
              /\ \A k, l \in 1..Len(chain[p]) : chain[p][k] = chain[p][l] => k = l
          BY <1>1, <1>5, <1>6 DEF IInv, Chains
        <4>3. \A k \in 1..(Len(chain[p]) + 1) : k \in 1..Len(chain[p]) \/ k = Len(chain[p]) + 1
          BY <1>5
        <4> QED BY <1>5, <3>2, <4>1, <4>2, <4>3, ZenonT(40)
      <3> QED BY <3>1, <3>2
    <2>2. \A q \in Coordinators : client'[q] \in {"new", "refused"} => chain'[q] = <<>>
      BY <1>2, <1>4 DEF IInv, Chains, Call
    <2>3. \A x \in Txns : step'[x] = "new" <=> x \notin Elements(chain'[OwnerOf[x]])
      <3> SUFFICES ASSUME NEW x \in Txns
                   PROVE  step'[x] = "new" <=> x \notin Elements(chain'[OwnerOf[x]])
        OBVIOUS
      <3>1. Elements(chain'[p]) = Elements(chain[p]) \cup {t}
        BY <1>1, <1>4, AppendElements
      <3>2. OwnerOf[x] \in Coordinators
        BY DEF JournalAssumption
      <3>3. step[x] = "new" <=> x \notin Elements(chain[OwnerOf[x]])
        BY DEF IInv, Chains
      <3> QED BY <1>3, <1>4, <3>1, <3>2, <3>3
    <2> QED BY <2>1, <2>2, <2>3 DEF Chains, Elements
  <1>10. InOrder'
    <2>1. \A q \in Coordinators : \A j \in DOMAIN chain'[q] :
            step'[chain'[q][j]] # "chained" =>
              \A i \in 1..(j - 1) : step'[chain'[q][i]] = "settled"
      <3> SUFFICES ASSUME NEW q \in Coordinators, NEW j \in DOMAIN chain'[q],
                          step'[chain'[q][j]] # "chained", NEW i \in 1..(j - 1)
                   PROVE  step'[chain'[q][i]] = "settled"
        OBVIOUS
      <3>1. /\ chain[q] \in Seq(Txns) /\ j \in DOMAIN chain[q] /\ i \in DOMAIN chain[q]
            /\ chain'[q][j] = chain[q][j] /\ chain'[q][i] = chain[q][i]
        <4>0. chain[q] \in Seq(Txns)
          BY DEF IInv, TypeOK
        <4>1. CASE q # p
          BY <1>4, <4>1, <4>0
        <4>2. CASE q = p
          <5>1. j # Len(chain[p]) + 1
            BY <1>1, <1>3, <1>5, <4>2
          <5>2. j \in 1..Len(chain[p]) /\ i \in 1..Len(chain[p])
            BY <1>5, <4>2, <5>1
          <5> QED BY <1>5, <4>0, <4>2, <5>2
        <4> QED BY <4>1, <4>2
      <3>2. chain[q][j] \in Txns /\ chain[q][i] \in Txns
        BY <3>1
      <3>3. chain[q][j] # t
        BY <1>3, <3>1
      <3>4. step[chain[q][i]] = "settled"
        BY <1>3, <3>1, <3>2, <3>3 DEF IInv, InOrder
      <3> QED BY <1>1, <1>3, <3>1, <3>2, <3>4
    <2>2. \A x \in Txns : step'[x] \in {"new", "chained"} => done'[x] = 0
      BY <1>1, <1>2, <1>3 DEF IInv, InOrder
    <2>3. \A x \in Txns : answer'[x] = "none" <=> step'[x] # "settled"
      BY <1>1, <1>2, <1>3 DEF IInv, InOrder
    <2> QED BY <2>1, <2>2, <2>3 DEF InOrder
  <1>11. Working'
    BY <1>2, <1>3 DEF IInv, Working, Partial, Connected
  <1>12. Committing'
    <2> SUFFICES ASSUME NEW q \in Coordinators, NEW x \in Txns, committing[q] = x
                 PROVE  /\ x # t
                        /\ \A i, j \in DOMAIN chain'[q] :
                             chain'[q][i] = x /\ j > i => done[chain'[q][j]] = 0
      BY <1>2, <1>3, SameTable DEF IInv, Committing, Connected
    <2>1. x # t
      BY <1>1, CommitSent DEF IInv
    <2>2. \A i, j \in DOMAIN chain'[q] : chain'[q][i] = x /\ j > i => done[chain'[q][j]] = 0
      <3>1. CASE q # p
        <4>1. \A i, j \in DOMAIN chain[q] : chain[q][i] = x /\ j > i => done[chain[q][j]] = 0
          BY CommitSent DEF IInv
        <4> QED BY <1>4, <3>1, <4>1
      <3>2. CASE q = p
        <4>1. done[t] = 0
          BY <1>1 DEF IInv, InOrder
        <4>2. \A i, j \in DOMAIN chain[p] : chain[p][i] = x /\ j > i => done[chain[p][j]] = 0
          BY <3>2, CommitSent DEF IInv
        <4> SUFFICES ASSUME NEW i \in DOMAIN chain'[p], NEW j \in DOMAIN chain'[p],
                            chain'[p][i] = x, j > i
                     PROVE  done[chain'[p][j]] = 0
          BY <3>2
        <4>3. i \in 1..Len(chain[p])
          BY <1>5, <2>1
        <4>4. CASE j = Len(chain[p]) + 1
          BY <1>5, <4>1, <4>4
        <4>5. CASE j \in 1..Len(chain[p])
          BY <1>5, <4>2, <4>3, <4>5
        <4> QED BY <1>5, <4>4, <4>5
      <3> QED BY <3>1, <3>2
    <2> QED BY <2>1, <2>2
  <1>13. Tables'
    BY <1>1, <1>2, <1>3, SameTable DEF IInv, Tables
  <1> QED BY <1>7, <1>8, <1>9, <1>10, <1>11, <1>12, <1>13 DEF IInv

\* BEGIN takes the rows as they are (163-167).
LEMMA BeginKeepsInv ==
  ASSUME JournalAssumption, IInv, NEW t \in Txns, Begin(t)
  PROVE  IInv'
  <1> DEFINE p == OwnerOf[t]
  <1>1. /\ p \in Coordinators /\ step[t] = "chained" /\ FirstOf(t) /\ Connected(p)
        /\ \A o \in Coordinators : session[o] # "open"
    BY DEF JournalAssumption, Begin
  <1>2. UNCHANGED <<committed, locked, committing, client, chain, closing, done, answer>>
    BY DEF Begin, Go
  <1>3. /\ step' = [step EXCEPT ![t] = "body"]
        /\ session' = [session EXCEPT ![p] = "open"]
        /\ dirty' = [dirty EXCEPT ![p] = committed]
    BY DEF Begin, Go
  <1>4. TypeOK'
    BY <1>1, <1>2, <1>3 DEF IInv, TypeOK, Steps
  <1>5. Locking'
    BY <1>1, <1>2, <1>3 DEF IInv, TypeOK, Locking, Connected
  <1>6. Chains'
    BY <1>1, <1>2, <1>3, ChainsKept DEF Steps
  <1>7. InOrder'
    <2>1. \A x \in Txns : answer'[x] = "none" <=> step'[x] # "settled"
      BY <1>1, <1>2, <1>3 DEF IInv, TypeOK, InOrder
    <2> QED BY <1>1, <1>2, <1>3, <2>1, OrderKept DEF Steps
  <1>8. \A q \in Coordinators : committing[q] = None
    BY <1>1 DEF IInv, Locking
  <1>9. Working'
    <2> SUFFICES ASSUME NEW x \in Txns, Connected(OwnerOf[x])'
                 PROVE  /\ step'[x] = "body" =>
                             /\ session'[OwnerOf[x]] = "open" /\ committing[OwnerOf[x]] = None
                             /\ done[x] = 0 \/ done[x] \in Rows
                             /\ dirty'[OwnerOf[x]] = Partial(x, done[x])
                        /\ step'[x] = "commit" => committing[OwnerOf[x]] = x
                        /\ step'[x] \in {"rollback", "committed"} => committing[OwnerOf[x]] = None
      BY <1>2 DEF Working, Partial
    <2>1. OwnerOf[x] = p
      BY <1>1, <1>2, OneServed DEF IInv, Locking, Connected, JournalAssumption
    <2>2. CASE x = t
      <3>1. done[t] = 0
        BY <1>1 DEF IInv, InOrder
      <3>2. Partial(t, 0) = committed
        BY DEF Partial, IInv, TypeOK, Rows
      <3>3. session'[p] = "open" /\ dirty'[p] = committed /\ step'[t] = "body"
        BY <1>1, <1>3 DEF IInv, TypeOK
      <3> QED BY <1>1, <1>8, <2>1, <2>2, <3>1, <3>2, <3>3
    <2>3. CASE x # t
      <3>1. step[x] \in {"new", "chained", "settled"} /\ step'[x] = step[x]
        BY <1>1, <1>3, <2>1, <2>3, OnlyOne DEF IInv, TypeOK
      <3> QED BY <3>1
    <2> QED BY <2>2, <2>3
  <1>10. Committing'
    BY <1>2, <1>8 DEF Committing, JournalAssumption
  <1>11. Tables'
    <2>1. \A x \in Txns : step'[x] = IF x = t THEN "body" ELSE step[x]
      BY <1>3 DEF IInv, TypeOK
    <2> QED BY <1>1, <1>2, <2>1, SameTable DEF IInv, Tables
  <1> QED BY <1>4, <1>5, <1>6, <1>7, <1>9, <1>10, <1>11 DEF IInv

\* A statement writes a row (168).
LEMMA StatementKeepsInv ==
  ASSUME JournalAssumption, IInv, NEW t \in Txns, Statement(t)
  PROVE  IInv'
  <1> DEFINE p == OwnerOf[t]
             k == done[t] + 1
  <1>1. /\ p \in Coordinators /\ step[t] = "body" /\ k \in Rows /\ Connected(p)
        /\ committed \in [Rows -> Seq(Txns)] /\ done[t] \in Nat
    BY DEF JournalAssumption, Statement, IInv, TypeOK
  <1>2. UNCHANGED <<committed, session, locked, committing, client, chain, closing, step, answer>>
    BY DEF Statement
  <1>3. /\ session[p] = "open" /\ committing[p] = None /\ dirty[p] = Partial(t, done[t])
    BY <1>1 DEF IInv, Working
  <1>4. /\ dirty'[p] = [dirty[p] EXCEPT ![k] = Append(@, t)]
        /\ \A q \in Coordinators : q # p => dirty'[q] = dirty[q]
        /\ DOMAIN dirty' = Coordinators
        /\ dirty' = [q \in Coordinators |-> dirty'[q]]
    BY <1>1 DEF Statement, IInv, TypeOK
  <1>5. dirty'[p] = Partial(t, k)
    <2>1. \A r \in Rows : dirty'[p][r] = IF r <= k THEN Append(committed[r], t) ELSE committed[r]
      <3> SUFFICES ASSUME NEW r \in Rows
                   PROVE  dirty'[p][r] = IF r <= k THEN Append(committed[r], t) ELSE committed[r]
        OBVIOUS
      <3>1. /\ dirty[p][r] = IF r <= done[t] THEN Append(committed[r], t) ELSE committed[r]
            /\ DOMAIN dirty[p] = Rows
        BY <1>3 DEF Partial
      <3>2. dirty'[p][r] = IF r = k THEN Append(dirty[p][r], t) ELSE dirty[p][r]
        BY <1>1, <1>4, <3>1
      <3>3. /\ r = k => ~(r <= done[t]) /\ r <= k
            /\ r # k => (r <= k <=> r <= done[t])
        BY <1>1 DEF Rows
      <3> QED BY <3>1, <3>2, <3>3
    <2>2. dirty'[p] = [r \in Rows |-> dirty'[p][r]]
      BY <1>3, <1>4 DEF Partial
    <2> QED BY <2>1, <2>2 DEF Partial
  <1>6. /\ done' \in [Txns -> Nat] /\ done'[t] = k
        /\ \A x \in Txns : x # t => done'[x] = done[x]
    BY <1>1 DEF Statement, IInv, TypeOK
  <1>7. TypeOK'
    <2>1. Partial(t, k) \in [Rows -> Seq(Txns)]
      BY <1>1 DEF Partial
    <2>2. \A q \in Coordinators : dirty'[q] \in [Rows -> Seq(Txns)]
      <3>1. \A q \in Coordinators : dirty[q] \in [Rows -> Seq(Txns)]
        BY DEF IInv, TypeOK
      <3>2. \A q \in Coordinators : q # p => dirty'[q] = dirty[q]
        BY <1>4
      <3>3. dirty'[p] \in [Rows -> Seq(Txns)]
        BY <1>5, <2>1
      <3> QED BY <3>1, <3>2, <3>3
    <2>3. dirty' \in [Coordinators -> [Rows -> Seq(Txns)]]
      BY <1>4, <2>2
    <2> QED BY <1>2, <1>6, <2>3 DEF IInv, TypeOK
  <1>8. Locking' /\ Chains'
    BY <1>2, SameChains DEF IInv, Locking, Connected
  <1>9. InOrder'
    <2>1. \A x \in Txns : step'[x] \in {"new", "chained"} => done'[x] = 0
      BY <1>1, <1>2, <1>6 DEF IInv, InOrder
    <2> QED BY <1>2, <2>1 DEF IInv, InOrder
  <1>10. Working'
    <2> SUFFICES ASSUME NEW x \in Txns, Connected(OwnerOf[x])
                 PROVE  /\ step[x] = "body" =>
                             /\ session[OwnerOf[x]] = "open" /\ committing[OwnerOf[x]] = None
                             /\ done'[x] = 0 \/ done'[x] \in Rows
                             /\ dirty'[OwnerOf[x]] = Partial(x, done'[x])
                        /\ step[x] = "commit" => committing[OwnerOf[x]] = x
                        /\ step[x] \in {"rollback", "committed"} => committing[OwnerOf[x]] = None
      BY <1>2 DEF Working, Partial, Connected
    <2>1. OwnerOf[x] = p
      BY <1>1, <1>3, OneServed DEF JournalAssumption
    <2>2. CASE x = t
      BY <1>1, <1>3, <1>5, <1>6, <2>2
    <2>3. CASE x # t
      BY <1>1, <2>1, <2>3, OnlyOne
    <2> QED BY <2>2, <2>3
  <1>11. Committing'
    <2>1. \A q \in Coordinators : committing[q] = None
      BY <1>1, <1>3, OneServed
    <2> QED BY <1>2, <2>1 DEF Committing, JournalAssumption
  <1>12. Tables'
    <2>1. \A x \in Txns : done'[x] # done[x] => x = t
      BY <1>6
    <2> QED BY <1>1, <1>2, <2>1, SameTable DEF IInv, Tables
  <1> QED BY <1>7, <1>8, <1>9, <1>10, <1>11, <1>12 DEF IInv

\* A statement that fails, or fn, ends the body (171-172).
LEMMA ThrowKeepsInv ==
  ASSUME JournalAssumption, IInv, NEW t \in Txns, Throw(t)
  PROVE  IInv'
  <1> DEFINE p == OwnerOf[t]
  <1>1. p \in Coordinators /\ step[t] = "body" /\ Connected(p)
    BY DEF JournalAssumption, Throw
  <1>2. /\ UNCHANGED <<server, client, chain, closing, done, answer>>
        /\ step' = [step EXCEPT ![t] = "rollback"]
    BY DEF Throw, Go
  <1>3. \A x \in Txns : step'[x] = IF x = t THEN "rollback" ELSE step[x]
    BY <1>2 DEF IInv, TypeOK
  <1>4. session[p] = "open" /\ committing[p] = None
    BY <1>1 DEF IInv, Working
  <1>5. TypeOK' /\ Locking'
    BY <1>2 DEF IInv, TypeOK, Locking, Connected, server, Steps
  <1>6. Chains'
    BY <1>1, <1>2, ChainsKept DEF Steps
  <1>7. InOrder'
    <2>1. \A x \in Txns : answer'[x] = "none" <=> step'[x] # "settled"
      BY <1>1, <1>2, <1>3 DEF IInv, InOrder
    <2> QED BY <1>1, <1>2, <2>1, OrderKept DEF Steps
  <1>8. Working'
    BY <1>2, <1>3, <1>4 DEF IInv, Working, Partial, Connected, server
  <1>9. Committing'
    <2>1. \A q \in Coordinators : committing[q] = None
      BY <1>1, <1>4, OneServed
    <2> QED BY <1>2, <2>1 DEF Committing, JournalAssumption, server
  <1>10. Tables'
    BY <1>1, <1>2, <1>3, SameTable DEF IInv, Tables, server
  <1> QED BY <1>5, <1>6, <1>7, <1>8, <1>9, <1>10 DEF IInv

\* COMMIT goes out when all rows are written (169).
LEMMA SendKeepsInv ==
  ASSUME JournalAssumption, IInv, NEW t \in Txns, SendCommit(t)
  PROVE  IInv'
  <1> DEFINE p == OwnerOf[t]
  <1>1. p \in Coordinators /\ step[t] = "body" /\ Connected(p) /\ done[t] + 1 \notin Rows
    BY DEF JournalAssumption, SendCommit
  <1>2. /\ UNCHANGED <<committed, dirty, session, locked, client, chain, closing, done, answer>>
        /\ step' = [step EXCEPT ![t] = "commit"]
        /\ committing' = [committing EXCEPT ![p] = t]
    BY DEF SendCommit, Go
  <1>3. \A x \in Txns : step'[x] = IF x = t THEN "commit" ELSE step[x]
    BY <1>2 DEF IInv, TypeOK
  <1>4. /\ session[p] = "open" /\ committing[p] = None /\ dirty[p] = Partial(t, done[t])
        /\ done[t] = 0 \/ done[t] \in Rows
    BY <1>1 DEF IInv, Working
  <1>5. \A q \in Coordinators : q # p => committing'[q] = None /\ ~Connected(q)
    <2>1. \A q \in Coordinators : q # p => committing[q] = None /\ ~Connected(q)
      BY <1>1, <1>4, OneServed
    <2> QED BY <1>2, <2>1 DEF IInv, TypeOK
  <1>6. committing'[p] = t
    BY <1>1, <1>2 DEF IInv, TypeOK
  <1>7. TypeOK'
    BY <1>2 DEF IInv, TypeOK, Steps
  <1>8. Locking'
    BY <1>2, <1>4, <1>5 DEF IInv, Locking, Connected
  <1>9. Chains'
    BY <1>1, <1>2, ChainsKept DEF Steps
  <1>10. InOrder'
    <2>1. \A x \in Txns : answer'[x] = "none" <=> step'[x] # "settled"
      BY <1>1, <1>2, <1>3 DEF IInv, InOrder
    <2> QED BY <1>1, <1>2, <2>1, OrderKept DEF Steps
  <1>11. Working'
    <2> SUFFICES ASSUME NEW x \in Txns, Connected(OwnerOf[x])
                 PROVE  /\ step'[x] = "commit" => committing'[OwnerOf[x]] = x
                        /\ step'[x] \notin {"body", "rollback", "committed"}
      BY <1>2 DEF Working, Connected
    <2>1. OwnerOf[x] = p
      BY <1>5 DEF JournalAssumption
    <2>2. CASE x = t
      BY <1>3, <1>6, <2>1, <2>2
    <2>3. CASE x # t
      BY <1>1, <1>3, <2>1, <2>3, OnlyOne
    <2> QED BY <2>2, <2>3
  <1>12. Committing'
    <2>1. dirty[p] = [r \in Rows |-> Append(committed[r], t)] /\ done[t] # 0
      <3>1. RowCount \in Nat \ {0}
        BY DEF JournalAssumption
      <3>2. done[t] = RowCount
        BY <1>1, <1>4, <3>1 DEF Rows
      <3>3. \A r \in Rows : r <= done[t]
        BY <3>1, <3>2 DEF Rows
      <3> QED BY <1>4, <3>1, <3>2, <3>3 DEF Partial
    <2>2. ~A!InTable(t)
      BY <1>1 DEF IInv, Tables
    <2>3. \A i, j \in DOMAIN chain[p] : chain[p][i] = t /\ j > i => done[chain[p][j]] = 0
      <3> SUFFICES ASSUME NEW i \in DOMAIN chain[p], NEW j \in DOMAIN chain[p],
                          chain[p][i] = t, j > i
                   PROVE  done[chain[p][j]] = 0
        OBVIOUS
      <3>1. chain[p] \in Seq(Txns)
        BY <1>1 DEF IInv, TypeOK
      <3>2. i \in 1..(j - 1) /\ chain[p][j] \in Txns
        BY <3>1
      <3>3. step[chain[p][j]] = "chained"
        BY <1>1, <3>2 DEF IInv, InOrder
      <3> QED BY <3>2, <3>3 DEF IInv, InOrder
    <2>4. \A q \in Coordinators, x \in Txns : committing'[q] = x => q = p /\ x = t
      BY <1>5, <1>6 DEF JournalAssumption
    <2>5. step'[t] = "commit" /\ ~A!InTable(t)'
      BY <1>3, <2>2, <1>2, SameTable
    <2> SUFFICES ASSUME NEW q \in Coordinators, NEW x \in Txns, committing'[q] = x
                 PROVE  /\ OwnerOf[x] = q /\ done'[x] # 0
                        /\ dirty'[q] = [r \in Rows |-> Append(committed'[r], x)]
                        /\ step'[x] = "commit" /\ ~A!InTable(x)'
                        /\ \A i, j \in DOMAIN chain'[q] :
                             chain'[q][i] = x /\ j > i => done'[chain'[q][j]] = 0
      BY DEF Committing
    <2>6. q = p /\ x = t
      BY <2>4
    <2> QED BY <1>2, <2>1, <2>3, <2>5, <2>6
  <1>13. Tables'
    BY <1>1, <1>2, <1>3, SameTable DEF IInv, Tables
  <1> QED BY <1>7, <1>8, <1>9, <1>10, <1>11, <1>12, <1>13 DEF IInv

\* A transaction is told that it was committed, or rolls back (169-174).
LEMMA EndKeepsInv ==
  ASSUME JournalAssumption, IInv, NEW t \in Txns, Committed(t) \/ Rollback(t)
  PROVE  IInv'
  <1> DEFINE p == OwnerOf[t]
  <1>1. p \in Coordinators /\ step[t] \in {"committed", "rollback"} /\ Connected(p)
    BY DEF JournalAssumption, Committed, Rollback
  <1>2. /\ UNCHANGED <<committed, dirty, locked, committing, client, chain, closing, done>>
        /\ step' = [step EXCEPT ![t] = "settled"]
        /\ \E how \in {"ok", "failed"} : answer' = [answer EXCEPT ![t] = how]
        /\ session' = session \/ session' = [session EXCEPT ![p] = "idle"]
    BY DEF Committed, Rollback, Settle, server
  <1>3. \A x \in Txns : /\ step'[x] = IF x = t THEN "settled" ELSE step[x]
                        /\ IF x = t THEN answer'[x] # "none" ELSE answer'[x] = answer[x]
    BY <1>2 DEF IInv, TypeOK
  <1>4. committing[p] = None /\ session[p] # "none"
    BY <1>1 DEF IInv, Working, Locking
  <1>5. \A q \in Coordinators : committing[q] = None /\ (q # p => ~Connected(q))
    BY <1>1, <1>4, OneServed
  <1>6. TypeOK'
    <2>1. answer' \in [Txns -> {"none", "ok", "failed", "lost"}]
      BY <1>2 DEF IInv, TypeOK
    <2>2. step' \in [Txns -> Steps]
      BY <1>2 DEF IInv, TypeOK, Steps
    <2>3. session' \in [Coordinators -> {"none", "idle", "open"}]
      BY <1>2 DEF IInv, TypeOK
    <2> QED BY <1>2, <2>1, <2>2, <2>3 DEF IInv, TypeOK
  <1>7. Locking'
    BY <1>2, <1>4, <1>5 DEF IInv, TypeOK, Locking, Connected
  <1>8. Chains'
    BY <1>1, <1>2, ChainsKept DEF Steps
  <1>9. InOrder'
    <2>1. \A x \in Txns : answer'[x] = "none" <=> step'[x] # "settled"
      BY <1>3 DEF IInv, InOrder
    <2> QED BY <1>1, <1>2, <2>1, OrderKept DEF Steps
  <1>10. Working'
    <2> SUFFICES ASSUME NEW x \in Txns, Connected(OwnerOf[x])
                 PROVE  step'[x] \notin {"body", "commit", "rollback", "committed"}
      BY <1>2 DEF Working, Connected
    <2>1. OwnerOf[x] = p
      BY <1>5 DEF JournalAssumption
    <2>2. CASE x # t
      BY <1>1, <1>3, <2>1, <2>2, OnlyOne
    <2> QED BY <1>3, <2>2
  <1>11. Committing'
    BY <1>2, <1>5 DEF Committing, JournalAssumption
  <1>12. Tables'
    BY <1>1, <1>2, <1>3, SameTable DEF IInv, Tables
  <1> QED BY <1>6, <1>7, <1>8, <1>9, <1>10, <1>11, <1>12 DEF IInv

\* Without a connection a transaction is rejected, whatever the server does (163-176).
LEMMA RejectKeepsInv ==
  ASSUME JournalAssumption, IInv, NEW t \in Txns, Reject(t)
  PROVE  IInv'
  <1> DEFINE p == OwnerOf[t]
  <1>1. /\ p \in Coordinators /\ ~Connected(p)
        /\ step[t] \in {"chained", "body", "rollback", "commit", "committed"}
        /\ step[t] = "chained" => FirstOf(t)
    BY DEF JournalAssumption, Reject, Connected
  <1>2. /\ UNCHANGED <<server, client, chain, closing, done>>
        /\ step' = [step EXCEPT ![t] = "settled"]
        /\ answer' = [answer EXCEPT ![t] = IF step[t] \in {"commit", "committed"} THEN "lost"
                                           ELSE "failed"]
    BY DEF Reject, Settle
  <1>3. \A x \in Txns :
          /\ step'[x] = IF x = t THEN "settled" ELSE step[x]
          /\ answer'[x] = IF x = t THEN IF step[t] \in {"commit", "committed"} THEN "lost"
                                        ELSE "failed"
                          ELSE answer[x]
    BY <1>2 DEF IInv, TypeOK
  <1>4. TypeOK' /\ Locking'
    BY <1>2 DEF IInv, TypeOK, Locking, Connected, server, Steps
  <1>5. Chains'
    BY <1>1, <1>2, ChainsKept DEF Steps
  <1>6. InOrder'
    <2>1. \A x \in Txns : answer'[x] = "none" <=> step'[x] # "settled"
      BY <1>3 DEF IInv, InOrder
    <2> QED BY <1>1, <1>2, <2>1, OrderKept DEF Steps
  <1>7. Working'
    BY <1>1, <1>2, <1>3 DEF IInv, Working, Partial, Connected, server
  <1>8. Committing'
    <2>1. \A q \in Coordinators, x \in Txns : committing[q] = x =>
            \/ step'[x] = "commit"
            \/ step'[x] = "settled" /\ answer'[x] = "lost" /\ ~Connected(q)
      <3> SUFFICES ASSUME NEW q \in Coordinators, NEW x \in Txns, committing[q] = x
                   PROVE  \/ step'[x] = "commit"
                          \/ step'[x] = "settled" /\ answer'[x] = "lost" /\ ~Connected(q)
        OBVIOUS
      <3>1. OwnerOf[x] = q
        BY CommitSent DEF IInv
      <3>2. \/ step[x] = "commit"
            \/ step[x] = "settled" /\ answer[x] = "lost" /\ ~Connected(q)
        BY CommitSent DEF IInv
      <3>3. CASE x = t
        BY <1>1, <1>3, <3>1, <3>2, <3>3
      <3>4. CASE x # t
        BY <1>3, <3>2, <3>4
      <3> QED BY <3>3, <3>4
    <2>2. \A q \in Coordinators : Connected(q)' <=> Connected(q)
      BY <1>2 DEF Connected
    <2>3. UNCHANGED <<committing, dirty, committed, chain, done>>
      BY <1>2 DEF server
    <2> QED BY <2>1, <2>2, <2>3, SameTable DEF IInv, Committing
  <1>9. Tables'
    BY <1>1, <1>2, <1>3, SameTable DEF IInv, Tables, server
  <1> QED BY <1>4, <1>5, <1>6, <1>7, <1>8, <1>9 DEF IInv

-----------------------------------------------------------------------------
(* The COMMIT at the server *)

\* Of a COMMIT at the server: whose it is, that nobody else has a session, and who
\* else of its coordinator is at work.
LEMMA AtTheServer ==
  ASSUME JournalAssumption, IInv, NEW p \in Coordinators, RunCommit(p)
  PROVE  /\ committing[p] \in Txns /\ OwnerOf[committing[p]] = p /\ session[p] = "open"
         /\ locked = p
         /\ step[committing[p]] \in {"commit", "settled"}
         /\ step[committing[p]] = "settled" => ~Connected(p)
         /\ \A q \in Coordinators : q # p => committing[q] = None /\ ~Connected(q)
         /\ \A x \in Txns : OwnerOf[x] = p /\ x # committing[p] /\ Connected(p) =>
              step[x] \in {"new", "chained", "settled"}
  <1>1. committing[p] \in Txns /\ session[p] = "open"
    BY DEF RunCommit, IInv, TypeOK
  <1>2. /\ OwnerOf[committing[p]] = p
        /\ \/ step[committing[p]] = "commit"
           \/ step[committing[p]] = "settled" /\ ~Connected(p)
    BY <1>1, CommitSent DEF IInv
  <1>3. locked = p
    BY <1>1 DEF IInv, Locking
  <1>4. \A q \in Coordinators : q # p => committing[q] = None /\ ~Connected(q)
    BY <1>1, OneServed
  <1>5. \A x \in Txns : OwnerOf[x] = p /\ x # committing[p] /\ Connected(p) =>
          step[x] \in {"new", "chained", "settled"}
    BY <1>1, <1>2, OnlyOne
  <1> QED BY <1>1, <1>2, <1>3, <1>4, <1>5

\* What the server does for a COMMIT it runs: a row more of the transaction each.
LEMMA CommitWrites ==
  ASSUME JournalAssumption, IInv, NEW p \in Coordinators, RunCommit(p)
  PROVE  \/ UNCHANGED committed
         \/ /\ committed' = [r \in Rows |-> Append(committed[r], committing[p])]
            /\ \A x \in Txns : A!InTable(x)' <=> A!InTable(x) \/ x = committing[p]
  <1>1. committing[p] \in Txns
    BY AtTheServer
  <1>2. dirty[p] = [r \in Rows |-> Append(committed[r], committing[p])]
    BY <1>1 DEF IInv, Committing
  <1>3. committed' = committed \/ committed' = dirty[p]
    BY DEF RunCommit
  <1>4. CASE committed' = dirty[p]
    <2>1. \A r \in Rows : A!Elements(committed'[r]) = A!Elements(committed[r]) \cup {committing[p]}
      <3> SUFFICES ASSUME NEW r \in Rows
                   PROVE  A!Elements(committed'[r]) = A!Elements(committed[r]) \cup {committing[p]}
        OBVIOUS
      <3>1. committed[r] \in Seq(Txns)
        BY DEF IInv, TypeOK
      <3>2. committed'[r] = Append(committed[r], committing[p])
        BY <1>2, <1>4
      <3> QED BY <1>1, <3>1, <3>2, AppendElements
    <2>2. 1 \in Rows
      BY DEF Rows, JournalAssumption
    <2>3. \A x \in Txns : A!InTable(x)' <=> \E r \in Rows : x \in A!Elements(committed'[r])
      BY DEF A!InTable, A!Elements, Rows
    <2>4. \A x \in Txns : A!InTable(x) <=> \E r \in Rows : x \in A!Elements(committed[r])
      BY DEF A!InTable
    <2>5. \A x \in Txns : A!InTable(x)' <=> A!InTable(x) \/ x = committing[p]
      BY <2>1, <2>2, <2>3, <2>4
    <2> QED BY <1>2, <1>4, <2>5
  <1> QED BY <1>3, <1>4

\* The server runs a COMMIT or rolls it back, whoever still waits for it.
LEMMA RunKeepsInv ==
  ASSUME JournalAssumption, IInv, NEW p \in Coordinators, RunCommit(p)
  PROVE  IInv'
  <1> DEFINE t == committing[p]
  <1>1. /\ UNCHANGED <<dirty, locked, client, chain, closing, done, answer>>
        /\ session' = [session EXCEPT ![p] = "idle"]
        /\ committing' = [committing EXCEPT ![p] = None]
    BY DEF RunCommit, Go
  <1>2. PICK ok \in BOOLEAN :
          /\ committed' = IF ok THEN dirty[p] ELSE committed
          /\ step' = IF step[t] = "commit"
                     THEN [step EXCEPT ![t] = IF ok THEN "committed" ELSE "rollback"]
                     ELSE step
    BY DEF RunCommit, Go
  <1>3. \A x \in Txns : step'[x] = IF x = t /\ step[t] = "commit"
                                   THEN IF ok THEN "committed" ELSE "rollback"
                                   ELSE step[x]
    BY <1>2 DEF IInv, TypeOK
  <1>4. \A q \in Coordinators : committing'[q] = None
    BY <1>1, AtTheServer DEF IInv, TypeOK
  <1>5. TypeOK'
    <2>1. step' \in [Txns -> Steps]
      BY <1>2, AtTheServer DEF IInv, TypeOK, Steps
    <2>2. committed' \in [Rows -> Seq(Txns)]
      BY <1>2 DEF IInv, TypeOK
    <2> QED BY <1>1, <2>1, <2>2 DEF IInv, TypeOK
  <1>6. Locking'
    BY <1>1, <1>4, AtTheServer DEF IInv, TypeOK, Locking, Connected
  <1>7. Chains'
    <2>1. \A x \in Txns : step'[x] = "new" <=> step[x] = "new"
      BY <1>3, AtTheServer
    <2> QED BY <1>1, <2>1, SameChains DEF IInv
  <1>8. InOrder'
    <2>1. \A x \in Txns : answer'[x] = "none" <=> step'[x] # "settled"
      BY <1>1, <1>3, AtTheServer DEF IInv, InOrder
    <2>2. CASE step[t] = "commit"
      BY <1>1, <1>2, <2>1, <2>2, AtTheServer, OrderKept DEF Steps
    <2>3. CASE step[t] # "commit"
      BY <1>1, <1>2, <2>3 DEF IInv, InOrder
    <2> QED BY <2>2, <2>3
  <1>9. Working'
    <2> SUFFICES ASSUME NEW x \in Txns, Connected(OwnerOf[x])
                 PROVE  step'[x] \notin {"body", "commit"}
      BY <1>1, <1>4 DEF Working, Connected, JournalAssumption
    <2>1. OwnerOf[x] = p
      BY AtTheServer DEF JournalAssumption
    <2>2. CASE x = t
      BY <1>3, <2>1, <2>2, AtTheServer
    <2>3. CASE x # t
      BY <1>3, <2>1, <2>3, AtTheServer
    <2> QED BY <2>2, <2>3
  <1>10. Committing'
    BY <1>4 DEF Committing, JournalAssumption
  <1>11. Tables'
    <2>1. t \in Txns /\ step[t] \in {"commit", "settled"}
      BY AtTheServer
    <2>2. done[t] # 0
      BY <2>1, AtTheServer DEF IInv, Committing
    <2>3. CASE ok
      <3>1. \A x \in Txns : A!InTable(x)' <=> A!InTable(x) \/ x = t
        <4>1. ~A!InTable(t)
          BY <2>1, AtTheServer DEF IInv, Committing
        <4>2. dirty[p] = [r \in Rows |-> Append(committed[r], t)]
          BY <2>1 DEF IInv, Committing
        <4>3. committed' # committed
          <5>1. 1 \in Rows /\ committed[1] \in Seq(Txns)
            BY DEF IInv, TypeOK, Rows, JournalAssumption
          <5>2. committed'[1] = Append(committed[1], t)
            BY <1>2, <2>3, <4>2, <5>1
          <5>3. Len(Append(committed[1], t)) # Len(committed[1])
            BY <2>1, <5>1
          <5> QED BY <5>2, <5>3
        <4> QED BY <4>3, CommitWrites
      <3> QED BY <1>1, <1>3, <2>1, <2>2, <2>3, <3>1 DEF IInv, Tables
    <2>4. CASE ~ok
      <3>1. \A x \in Txns : A!InTable(x)' <=> A!InTable(x)
        BY <1>2, <2>4, SameTable
      <3> QED BY <1>1, <1>3, <2>1, <2>4, <3>1 DEF IInv, Tables
    <2> QED BY <2>3, <2>4
  <1> QED BY <1>5, <1>6, <1>7, <1>8, <1>9, <1>10, <1>11 DEF IInv

-----------------------------------------------------------------------------
(* Theorems *)

\* The journal begins with the invariant (86-93).
LEMMA InitInv == ASSUME JournalAssumption, Init PROVE IInv
  <1>1. TypeOK
    BY DEF Init, TypeOK, NoRows, Steps
  <1>2. Locking /\ Working /\ Committing
    BY DEF Init, Locking, Working, Committing, Connected, JournalAssumption
  <1>3. Chains /\ InOrder
    BY DEF Init, Chains, InOrder, Elements, JournalAssumption
  <1>4. Tables
    BY DEF Init, Tables, A!InTable, A!Elements, NoRows
  <1> QED BY <1>1, <1>2, <1>3, <1>4 DEF IInv

\* The invariant holds of every behaviour (journal.ts:94-182).
THEOREM Invariant == Spec => []IInv
<1>1. IInv /\ [Next]_vars => IInv'
  <2> SUFFICES ASSUME IInv, [Next]_vars PROVE IInv'
    OBVIOUS
  <2> USE JournalAssumption
  <2>1. CASE UNCHANGED vars
    <3>1. TypeOK' /\ Locking'
      BY <2>1 DEF IInv, TypeOK, Locking, Connected, vars, server
    <3>2. Chains'
      BY <2>1, SameChains DEF IInv, vars, server
    <3>3. InOrder' /\ Tables'
      BY <2>1, SameTable DEF IInv, InOrder, Tables, vars, server
    <3>4. Working'
      BY <2>1 DEF IInv, Working, Partial, Connected, vars, server
    <3>5. Committing'
      BY <2>1, SameTable DEF IInv, Committing, Connected, vars, server
    <3> QED BY <3>1, <3>2, <3>3, <3>4, <3>5 DEF IInv
  <2>2. ASSUME NEW p \in Coordinators,
               \/ Open(p) \/ Close(p) \/ CloseDb(p) \/ Break(p) \/ Stop(p)
               \/ SessionEnds(p) \/ RunCommit(p)
        PROVE  IInv'
    BY <2>2, OpenKeepsInv, ClientKeepsInv, StopKeepsInv, SessionEndKeepsInv, RunKeepsInv
  <2>3. ASSUME NEW t \in Txns, Call(t) \/ Throw(t) \/ Transaction(t)
        PROVE  IInv'
    BY <2>3, CallKeepsInv, ThrowKeepsInv, BeginKeepsInv, StatementKeepsInv, SendKeepsInv,
      EndKeepsInv, RejectKeepsInv DEF Transaction
  <2> QED BY <2>1, <2>2, <2>3 DEF Next
<1> QED BY <1>1, InitInv, JournalAssumption, PTL DEF Spec

\* Who owned the journal before: all that were let in, without the present owner.
Retired == {p \in Coordinators : client[p] \notin {"new", "refused"}} \ {locked}

\* The journal begins as an atomic one does (86-93).
LEMMA InitRefines == ASSUME JournalAssumption, Init PROVE A!JournalInit
  BY DEF Init, A!JournalInit, NoRows, JournalAssumption

\* A step of a coordinator or of its session takes the lock, leaves it, abandons
\* what was called, or is nothing to an atomic journal.
LEMMA CoordinatorRefines ==
  ASSUME JournalAssumption, IInv, NEW p \in Coordinators,
         \/ Open(p) \/ Close(p) \/ CloseDb(p) \/ Break(p) \/ Stop(p) \/ SessionEnds(p)
  PROVE  [A!JournalNext]_A!journalVars
  <1>1. CASE Open(p)
    <2>1. UNCHANGED <<chain, answer, committed>>
      BY <1>1 DEF Open
    <2>2. p # None /\ locked # p
      BY <1>1 DEF JournalAssumption, IInv, Locking, Open
    <2>3. CASE client' = [client EXCEPT ![p] = "refused"] /\ UNCHANGED locked
      <3>1. Retired' = Retired
        BY <1>1, <2>3 DEF Retired, Open, IInv, TypeOK
      <3> QED BY <2>1, <2>3, <3>1 DEF A!journalVars, Retired
    <2>4. CASE client' = [client EXCEPT ![p] = "open"] /\ locked = None /\ locked' = p
      <3>1. Retired' = Retired /\ p \notin Retired
        BY <1>1, <2>4 DEF Retired, Open, IInv, TypeOK, JournalAssumption
      <3>2. A!TakeOver(p)
        BY <2>1, <2>4, <3>1 DEF A!TakeOver, Retired
      <3> QED BY <3>2 DEF A!JournalNext
    <2> QED BY <1>1, <2>3, <2>4 DEF Open
  <1>2. CASE Close(p) \/ CloseDb(p) \/ Break(p)
    <2>1. UNCHANGED <<server, chain, answer>>
      BY <1>2 DEF Close, CloseDb, Break, Disconnect
    <2>2. \A q \in Coordinators : client'[q] \in {"new", "refused"} <=> client[q] \in {"new", "refused"}
      BY <1>2 DEF Close, CloseDb, Break, Disconnect, IInv, TypeOK
    <2>3. Retired' = Retired
      BY <2>1, <2>2 DEF Retired, server
    <2> QED BY <2>1, <2>3 DEF A!journalVars, Retired, server
  <1>3. CASE Stop(p)
    <2>1. UNCHANGED <<server, chain>>
      BY <1>3 DEF Stop
    <2>2. \A q \in Coordinators : client'[q] \in {"new", "refused"} <=> client[q] \in {"new", "refused"}
      BY <1>3 DEF Stop, IInv, TypeOK
    <2>3. Retired' = Retired
      BY <2>1, <2>2 DEF Retired, server
    <2>4. answer' = [t \in Txns |->
            IF t \in A!Elements(chain[p]) /\ answer[t] = "none" THEN "lost" ELSE answer[t]]
      BY <1>3 DEF Stop, Elements, A!Elements
    <2>5. A!Abandon(p)
      BY <2>1, <2>3, <2>4 DEF A!Abandon, Retired, server
    <2> QED BY <2>5 DEF A!JournalNext
  <1>4. CASE SessionEnds(p)
    <2>1. UNCHANGED <<chain, answer, committed, client>>
      BY <1>4 DEF SessionEnds
    <2>2. locked = p /\ locked' = None /\ p # None /\ client[p] \notin {"new", "refused"}
      BY <1>4 DEF SessionEnds, IInv, Locking, JournalAssumption
    <2>3. Retired' = Retired \cup {locked}
      BY <2>1, <2>2 DEF Retired, JournalAssumption
    <2>4. A!Leave
      BY <2>1, <2>2, <2>3 DEF A!Leave, Retired
    <2> QED BY <2>4 DEF A!JournalNext
  <1> QED BY <1>1, <1>2, <1>3, <1>4

\* The COMMIT that the server runs is when a transaction happens.
LEMMA RunRefines ==
  ASSUME JournalAssumption, IInv, NEW p \in Coordinators, RunCommit(p)
  PROVE  [A!JournalNext]_A!journalVars
  <1> DEFINE t == committing[p]
  <1>1. UNCHANGED <<locked, client, chain, answer>>
    BY DEF RunCommit, Go
  <1>2. Retired' = Retired
    BY <1>1 DEF Retired
  <1>3. t \in Txns /\ OwnerOf[t] = p /\ locked = p /\ step[t] \in {"commit", "settled"}
    BY AtTheServer
  <1>4. CASE UNCHANGED committed
    BY <1>1, <1>2, <1>4 DEF A!journalVars, Retired
  <1>5. CASE committed' = [r \in Rows |-> Append(committed[r], t)]
    <2>1. ~A!InTable(t) /\ answer[t] \in {"none", "lost"}
      BY <1>3, CommitSent DEF IInv, InOrder
    <2>2. A!Due(t)
      <3>1. chain[p] \in Seq(Txns) /\ step[t] \notin {"new", "chained"}
        BY <1>3 DEF IInv, TypeOK
      <3>2. PICK i \in DOMAIN chain[p] : chain[p][i] = t
        BY <1>3, <3>1, PlaceOf
      <3>3. \A j \in DOMAIN chain[p] : j < i => answer[chain[p][j]] # "none"
        <4> SUFFICES ASSUME NEW j \in DOMAIN chain[p], j < i PROVE answer[chain[p][j]] # "none"
          OBVIOUS
        <4>1. j \in 1..(i - 1) /\ chain[p][j] \in Txns
          BY <3>1
        <4>2. step[chain[p][j]] = "settled"
          BY <3>1, <3>2, <4>1 DEF IInv, InOrder
        <4> QED BY <4>1, <4>2 DEF IInv, InOrder
      <3>4. \A j \in DOMAIN chain[p] : j > i => ~A!InTable(chain[p][j])
        <4> SUFFICES ASSUME NEW j \in DOMAIN chain[p], j > i PROVE ~A!InTable(chain[p][j])
          OBVIOUS
        <4>1. done[chain[p][j]] = 0
          BY <1>3, <3>2, CommitSent DEF IInv
        <4>2. chain[p][j] \in Txns
          BY <3>1
        <4> QED BY <4>1, <4>2 DEF IInv, Tables
      <3> QED BY <1>3, <3>2, <3>3, <3>4 DEF A!Due
    <2>3. A!Happen(t)
      BY <1>1, <1>2, <1>3, <1>5, <2>1, <2>2 DEF A!Happen, Retired, Rows
    <2> QED BY <1>3, <2>3 DEF A!JournalNext
  <1> QED BY <1>4, <1>5, CommitWrites

\* A transaction that is called, or answered, is so for an atomic journal, and its
\* other steps are nothing to it (162-177).
LEMMA TransactionRefines ==
  ASSUME JournalAssumption, IInv, NEW t \in Txns, Call(t) \/ Throw(t) \/ Transaction(t)
  PROVE  [A!JournalNext]_A!journalVars
  <1>1. UNCHANGED <<committed, locked, client>>
    BY DEF Call, Throw, Transaction, Begin, Statement, SendCommit, Committed, Rollback, Reject,
      Go, Settle, server
  <1>2. Retired' = Retired
    BY <1>1 DEF Retired
  <1>3. CASE Call(t)
    <2>1. t \notin A!Elements(chain[OwnerOf[t]])
      BY <1>3 DEF Call, IInv, Chains, Elements, A!Elements
    <2>2. A!Call(t)
      BY <1>1, <1>2, <1>3, <2>1 DEF Call, A!Call, Retired
    <2> QED BY <2>2 DEF A!JournalNext
  <1>4. CASE Throw(t) \/ Begin(t) \/ Statement(t) \/ SendCommit(t)
    <2>1. UNCHANGED <<chain, answer>>
      BY <1>4 DEF Throw, Begin, Statement, SendCommit, Go
    <2> QED BY <1>1, <1>2, <2>1 DEF A!journalVars, Retired
  <1>5. ASSUME NEW how \in {"ok", "failed", "lost"}, Settle(t, how), A!Due(t), step[t] # "settled",
               how = "ok" => A!InTable(t), how = "failed" => ~A!InTable(t)
        PROVE  [A!JournalNext]_A!journalVars
    <2>1. answer[t] = "none"
      BY <1>5 DEF IInv, InOrder
    <2>2. A!Return(t, how)
      BY <1>1, <1>2, <1>5, <2>1 DEF Settle, A!Return, Retired
    <2> QED BY <2>2 DEF A!JournalNext
  <1>6. CASE Committed(t)
    BY <1>5, <1>6, IsDue DEF Committed, IInv, Tables
  <1>7. CASE Rollback(t)
    BY <1>5, <1>7, IsDue DEF Rollback, IInv, Tables
  <1>8. CASE Reject(t)
    <2>1. A!Due(t) /\ step[t] # "settled"
      BY <1>8, IsDue DEF Reject
    <2>2. CASE step[t] \in {"commit", "committed"}
      BY <1>5, <1>8, <2>1, <2>2 DEF Reject
    <2>3. CASE step[t] \notin {"commit", "committed"}
      BY <1>5, <1>8, <2>1, <2>3 DEF Reject, IInv, Tables
    <2> QED BY <2>2, <2>3
  <1> QED BY <1>3, <1>4, <1>6, <1>7, <1>8 DEF Transaction

\* Whatever fails, transactions are atomic, happen in the order of their calls and
\* are answered truly; and what a coordinator that is gone left on its way does not
\* happen once the next one was let in (journal.ts:94-182).
THEOREM JournalIsAtomic == Spec => A!JournalSafety
<1>1. IInv /\ [Next]_vars => [A!JournalNext]_A!journalVars
  <2> SUFFICES ASSUME IInv, [Next]_vars PROVE [A!JournalNext]_A!journalVars
    OBVIOUS
  <2> USE JournalAssumption
  <2>1. CASE UNCHANGED vars
    <3>1. UNCHANGED <<chain, answer, locked, committed, client>>
      BY <2>1 DEF vars, server
    <3>2. Retired' = Retired
      BY <3>1 DEF Retired
    <3> QED BY <3>1, <3>2 DEF A!journalVars, Retired
  <2>2. ASSUME NEW p \in Coordinators,
               \/ Open(p) \/ Close(p) \/ CloseDb(p) \/ Break(p) \/ Stop(p)
               \/ SessionEnds(p) \/ RunCommit(p)
        PROVE  [A!JournalNext]_A!journalVars
    BY <2>2, CoordinatorRefines, RunRefines
  <2>3. ASSUME NEW t \in Txns, Call(t) \/ Throw(t) \/ Transaction(t)
        PROVE  [A!JournalNext]_A!journalVars
    BY <2>3, TransactionRefines
  <2> QED BY <2>1, <2>2, <2>3 DEF Next
<1> QED BY <1>1, InitRefines, Invariant, JournalAssumption, PTL DEF Spec, A!JournalSafety
=============================================================================
