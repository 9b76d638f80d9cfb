--------------------------- MODULE AtomicJournal ---------------------------
(***************************************************************************)
(* What the other modules take a journal to be.  A transaction is called,  *)
(* happens as a whole or not at all, after those that its coordinator      *)
(* called before it, and is answered.  One coordinator owns the journal at *)
(* a time.  A transaction whose answer was lost may still happen, but not  *)
(* once another coordinator owns the journal: recover rests on that        *)
(* (src/src/platform.ts:1479).  Journal implements this.                   *)
(***************************************************************************)
EXTENDS Naturals, Sequences

CONSTANTS
  Txns, Coordinators, Rows,
  OwnerOf,   \* Txns -> Coordinators, the coordinator that calls it
  None       \* nobody

VARIABLES
  chain,     \* Coordinators -> the transactions it called, in order
  answer,    \* Txns -> "none", "ok", "failed" or "lost"
  owner,     \* the coordinator that owns the journal
  retired,   \* the coordinators that owned it before
  table      \* Rows -> the transactions that wrote the row, in order

journalVars == <<chain, answer, owner, retired, table>>

Elements(s) == {s[i] : i \in DOMAIN s}
InTable(t) == \E r \in Rows : t \in Elements(table[r])

\* Its coordinator was answered all that it called before, and nothing that it
\* called after happened.
Due(t) == \E i \in DOMAIN chain[OwnerOf[t]] :
  /\ chain[OwnerOf[t]][i] = t
  /\ \A j \in DOMAIN chain[OwnerOf[t]] :
       /\ j < i => answer[chain[OwnerOf[t]][j]] # "none"
       /\ j > i => ~InTable(chain[OwnerOf[t]][j])

JournalInit ==
  /\ chain = [p \in Coordinators |-> <<>>]
  /\ answer = [t \in Txns |-> "none"]
  /\ owner = None /\ retired = {}
  /\ table = [r \in Rows |-> <<>>]

TakeOver(p) ==
  /\ owner = None /\ p \notin retired
  /\ owner' = p
  /\ UNCHANGED <<chain, answer, retired, table>>

Leave ==
  /\ owner # None
  /\ owner' = None /\ retired' = retired \cup {owner}
  /\ UNCHANGED <<chain, answer, table>>

Call(t) ==
  /\ t \notin Elements(chain[OwnerOf[t]])
  /\ chain' = [chain EXCEPT ![OwnerOf[t]] = Append(@, t)]
  /\ UNCHANGED <<answer, owner, retired, table>>

Happen(t) ==
  /\ owner = OwnerOf[t] /\ ~InTable(t)
  /\ Due(t) /\ answer[t] \in {"none", "lost"}
  /\ table' = [r \in Rows |-> Append(table[r], t)]
  /\ UNCHANGED <<chain, answer, owner, retired>>

Return(t, how) ==
  /\ Due(t) /\ answer[t] = "none"
  /\ how = "ok" => InTable(t)
  /\ how = "failed" => ~InTable(t)
  /\ answer' = [answer EXCEPT ![t] = how]
  /\ UNCHANGED <<chain, owner, retired, table>>

\* A coordinator that stops is told nothing of what it called.
Abandon(p) ==
  /\ answer' = [t \in Txns |->
       IF t \in Elements(chain[p]) /\ answer[t] = "none" THEN "lost" ELSE answer[t]]
  /\ UNCHANGED <<chain, owner, retired, table>>

JournalNext ==
  \/ Leave
  \/ \E p \in Coordinators : TakeOver(p) \/ Abandon(p)
  \/ \E t \in Txns : \/ Call(t) \/ Happen(t)
                     \/ \E how \in {"ok", "failed", "lost"} : Return(t, how)

\* Every call is answered.
Answered == \A t \in Txns :
  t \in Elements(chain[OwnerOf[t]]) ~> answer[t] # "none"

JournalSafety == JournalInit /\ [][JournalNext]_journalVars
AtomicJournalSpec == JournalSafety /\ Answered
=============================================================================
