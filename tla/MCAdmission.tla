---------------------------- MODULE MCAdmission ----------------------------
(***************************************************************************)
(* The instance of Admission for TLC: two threads, with a caller each, and *)
(* a second caller in the first thread that may not do much.               *)
(***************************************************************************)
EXTENDS Admission, TLC

CONSTANTS r1, r2, r3, r4, alice, carol, bob, t1, t2, k1, k2, red, n1, n2, n3, s1, s2

Threading == alice :> t1 @@ carol :> t1 @@ bob :> t2
Granting == alice :> Ops @@ carol :> {"code"} @@ bob :> Ops

Plain == [op |-> "code", by |-> alice, key |-> k1, explicit |-> FALSE, connections |-> {},
          context |-> 0, revision |-> 0, thread |-> t1, name |-> n1, spec |-> s1]
ToEnsure(key, spec) == [Plain EXCEPT !.op = "ensure", !.key = key, !.name = n3, !.spec = spec]
ToBind(key, context, revision) ==
  [Plain EXCEPT !.op = "bind", !.key = key, !.context = context, !.revision = revision]
ToConfigure(revision) ==
  [Plain EXCEPT !.op = "configure", !.connections = {red}, !.revision = revision]
Through(revision) ==
  [Plain EXCEPT !.op = "command", !.key = k2, !.context = 1, !.revision = revision]

TwoContexts == << [owner |-> t1, name |-> n1, spec |-> s1],
                  [owner |-> t1, name |-> n2, spec |-> s1] >>

\* A program with the defaults, again by another thread; one that names its
\* connections; two specs of one context; binding and rebinding, and an attempt
\* of one who may not; a command through the binding and one that goes to the
\* context directly.
Asking ==
  { Plain, [Plain EXCEPT !.by = bob],
    [Plain EXCEPT !.key = k2, !.explicit = TRUE, !.connections = {red}],
    ToConfigure(0), ToConfigure(1),
    ToEnsure(k1, s1), ToEnsure(k2, s1), ToEnsure(k2, s2),
    ToBind(k1, 1, 0), ToBind(k2, 2, 0), ToBind(k2, 2, 1),
    [ToBind(k1, 1, 0) EXCEPT !.by = carol],
    Through(0), Through(1), [Through(1) EXCEPT !.by = carol] }

Renaming == Permutations(Requests)
=============================================================================
