-------------------------- MODULE AdmissionInvariant --------------------------
(***************************************************************************)
(* The inductive invariant of Admission.                                   *)
(***************************************************************************)
EXTENDS Admission

\* A key has one row in each table, and only what may be there.
WorkKeysInv ==
  /\ \A i, j \in DOMAIN works : works[i].ask.key = works[j].ask.key => i = j
  /\ \A i \in DOMAIN works : works[i].ask.op \in Submissions
BindingKeysInv ==
  /\ \A b, c \in bindings : b.ask.key = c.ask.key => b = c
  /\ \A b \in bindings : b.ask.op = "bind" /\ b.ask.op \in Grants[b.ask.by]

\* A request is where its operation may be.
PathInv == \A r \in Requests :
  /\ pc[r] \in {"defaults", "freeze"} => ask[r].op = "code"
  /\ pc[r] = "admit" => ask[r].op \in Submissions
  /\ pc[r] = "new" => answer[r] = None

\* What was on record when a request was sent still is, and the lookup finds it.
PromiseInv == \A r \in Requests :
  promised[r] /\ pc[r] \notin {"new", "done"} => pc[r] = "sent" /\ Recorded(ask[r])

\* FrozenAsConfigured, of the programs that are not admitted yet.
Configured(a, t) ==
  LET row == tools[ThreadOf[a.by]]
  IN IF a.explicit THEN t.connections = a.connections
     ELSE IF t.revision = 0 THEN t.connections = {}
     ELSE t.revision \in DOMAIN row /\ row[t.revision] = t.connections
FrozenInv == \A r \in Requests :
  pc[r] \in {"freeze", "admit"} /\ ask[r].op = "code" => Configured(ask[r], frozen[r])

\* Contexts have their names to themselves, and a Work that came to one asked for it.
NamesInv == \A c, d \in DOMAIN contexts :
  contexts[c].owner = contexts[d].owner /\ contexts[c].name = contexts[d].name => c = d
FoundInv == \A i \in DOMAIN works :
  works[i].ask.op = "ensure" /\ works[i].found # 0 =>
    works[i].found \in Named(works[i].ask) /\ SameSpec(works[i].found, works[i].ask)

IInv ==
  /\ TypeOK
  /\ CompareAndSet /\ FrozenAsConfigured
  /\ WorkKeysInv /\ BindingKeysInv /\ PathInv /\ PromiseInv
  /\ FrozenInv /\ NamesInv /\ FoundInv
=============================================================================
