------------------------------- MODULE Ledger -------------------------------
(***************************************************************************)
(* What a request key promises to the clients of the platform              *)
(* (ARCHITECTURE.md:343: a duplicate key with the same payload returns the *)
(* existing Work, a different payload conflicts).  A slot is a key in the  *)
(* table it is looked up in.  It is written once, and every answer given   *)
(* for it is what was written.  A request that was sent when its slot held *)
(* what it asks for is never refused: it is answered, or the answer is     *)
(* lost on the way.  Admission implements this for submissions and for     *)
(* requests to bind a thread.                                              *)
(***************************************************************************)
CONSTANTS
  Requests,            \* the requests that clients send; a retry is another one
  Slots,               \* the request keys
  None, Refused, Lost  \* nothing, and the two answers without an outcome

VARIABLES
  slot,      \* Requests -> the slot the request names
  digest,    \* Requests -> its payload, as far as payloads are told apart
  state,     \* Requests -> "new", "open", "promised" or "done"
  entry,     \* Slots -> the payload recorded and what came of it, if there is one
  answer     \* Requests -> None, Refused, Lost, or what came of it

ledgerVars == <<slot, digest, state, entry, answer>>

Holds(s, d) == \E e \in entry[s] : e.digest = d

LedgerInit ==
  /\ slot = [r \in Requests |-> None] /\ digest = [r \in Requests |-> None]
  /\ state = [r \in Requests |-> "new"]
  /\ entry = [s \in Slots |-> {}]
  /\ answer = [r \in Requests |-> None]

Send(r) ==
  /\ state[r] = "new"
  /\ slot' = [slot EXCEPT ![r] = slot'[r]] /\ slot'[r] \in Slots
  /\ digest' = [digest EXCEPT ![r] = digest'[r]]
  /\ state' = [state EXCEPT ![r] =
       IF Holds(slot'[r], digest'[r]) THEN "promised" ELSE "open"]
  /\ UNCHANGED <<entry, answer>>

Conclude(r, outcome) ==
  /\ state[r] \in {"open", "promised"}
  /\ state' = [state EXCEPT ![r] = "done"]
  /\ answer' = [answer EXCEPT ![r] = outcome]
  /\ UNCHANGED <<slot, digest>>

\* The first request of a slot to get through writes it.
Record(r) ==
  /\ state[r] \in {"open", "promised"} /\ entry[slot[r]] = {}
  /\ \E e \in entry'[slot[r]] :
       /\ e.digest = digest[r]
       /\ entry' = [entry EXCEPT ![slot[r]] = {e}]
       /\ \E outcome \in {e.value, Lost} : Conclude(r, outcome)

Repeat(r) ==
  /\ state[r] \in {"open", "promised"}
  /\ \E e \in entry[slot[r]] : e.digest = digest[r] /\ Conclude(r, e.value)
  /\ UNCHANGED entry

Refuse(r) == state[r] = "open" /\ Conclude(r, Refused) /\ UNCHANGED entry

Lose(r) == Conclude(r, Lost) /\ UNCHANGED entry

\* A coordinator that stops answers none of the requests it was working on.
LoseAll ==
  /\ state' = [r \in Requests |-> IF state[r] \in {"open", "promised"}
                                  THEN "done" ELSE state[r]]
  /\ answer' = [r \in Requests |-> IF state[r] \in {"open", "promised"}
                                   THEN Lost ELSE answer[r]]
  /\ UNCHANGED <<slot, digest, entry>>

LedgerNext ==
  \/ \E r \in Requests : Send(r) \/ Record(r) \/ Repeat(r) \/ Refuse(r) \/ Lose(r)
  \/ LoseAll

LedgerSpec == LedgerInit /\ [][LedgerNext]_ledgerVars
=============================================================================
