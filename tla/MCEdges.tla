------------------------------ MODULE MCEdges ------------------------------
(***************************************************************************)
(* Three small parts at the edge of the system, each by itself: the trees  *)
(* that are published, the idle contexts, and a connection to a server of  *)
(* somebody else.  A behaviour is one of one of them; the others stay as   *)
(* they began.                                                             *)
(***************************************************************************)
EXTENDS Resources, IdlePass, Connector, TLC

CONSTANTS u1, u2, u3, tenant1, tenant2, tree, c1, c2,
          m1, m2, key1, key2, t1, t2, t3, k1, k2

\* Two of one tenant and one of another publish the same tree.
TheTenants == u1 :> tenant1 @@ u2 :> tenant2 @@ u3 :> tenant1
TheTrees == u1 :> tree @@ u2 :> tree @@ u3 :> tree

TheRefs == <<m1, m2>>
PageOf(tools, next) == [tools |-> tools, next |-> next]
\* One page, pages with an empty one between, a tool twice, a circle of pages,
\* a tool too many, and a tool that is not taken.
TheListings == {
  None :> PageOf(<<t1>>, None),
  None :> PageOf(<<t1>>, k1) @@ k1 :> PageOf(<<>>, k2) @@ k2 :> PageOf(<<t2>>, None),
  None :> PageOf(<<t1>>, k1) @@ k1 :> PageOf(<<t1>>, None),
  None :> PageOf(<<>>, k1) @@ k1 :> PageOf(<<t2>>, k2) @@ k2 :> PageOf(<<>>, k1),
  None :> PageOf(<<t1, t2>>, k1) @@ k1 :> PageOf(<<t1>>, None),
  None :> PageOf(<<t1>>, k1) @@ k1 :> PageOf(<<t3>>, None)}

VARIABLE part

edges == <<part, publishVars, passVars, connectorVars>>

Init ==
  /\ part \in {"trees", "contexts", "calls"}
  /\ PublishInit /\ PassInit /\ ConnectorInit
  /\ part # "calls" => /\ secret = [m \in {m1, m2} |-> key1]
                       /\ listing = [m \in {m1, m2} |-> None :> PageOf(<<t1>>, None)]
  \* One context of somebody who may manage it, and another one of anybody.
  /\ actor[c1] = "granted"
  /\ part # "contexts" => actor[c2] = "granted" /\ order = <<c1, c2>>

Publishes == part = "trees" /\ PublishNext /\ UNCHANGED <<part, passVars, connectorVars>>
Idles(action) == part = "contexts" /\ action /\ UNCHANGED <<part, publishVars, connectorVars>>
Connects == part = "calls" /\ ConnectorNext /\ UNCHANGED <<part, publishVars, passVars>>

Next == Publishes \/ Idles(PassNext) \/ Connects

\* Nothing is due of a connection that stays as it began; of a pass there is.
Fairness ==
  /\ WF_edges(Idles(ReadContexts)) /\ WF_edges(Idles(PassEnds))
  /\ \A c \in Contexts : /\ SF_edges(Idles(Ask(c))) /\ SF_edges(Idles(Skip(c)))
                         /\ WF_edges(Idles(Refuse(c)))
  /\ ConnectorFairness

Spec == Init /\ [][Next]_edges /\ Fairness
=============================================================================
