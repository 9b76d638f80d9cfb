----------------------------- MODULE Connector -----------------------------
(***************************************************************************)
(* The MCP connections of a Work (src/src/mcp.ts): freeze lists the tools  *)
(* of the connections when the Work is admitted, and invoke calls one of   *)
(* them when it runs, which may be after a restart with other credentials  *)
(* and grants.  Each talks to the server through a session of its own.     *)
(*                                                                         *)
(* The server is whatever speaks the protocol.  A request that was sent    *)
(* may reach it after the client gave up, and any reply may be lost.       *)
(***************************************************************************)
EXTENDS Naturals, Sequences, FiniteSets

CONSTANTS
  Refs,          \* the connections that the thread selected, in order
  Secrets,       \* the values a credential may have
  Listings,      \* what a server may list: Cursors -> [tools, next]
  Unsupported,   \* the tools whose name or schema freeze does not take
  MaxTools,      \* 200 in the code
  MaxRestarts,   \* bound: how often the process restarts
  None           \* no credential, no cursor, and the cursor of the first page

VARIABLES
  secret,    \* Connections -> the credential in this process's environment
  grants,    \* the connections the caller may use
  listing,   \* Connections -> what its server lists
  freeze,    \* the discovery at admission
  frozen,    \* what is recorded with the Work: for each connection so far
  call,      \* the call of a tool
  server,    \* the server of that call
  restarts

connectorVars == <<secret, grants, listing, freeze, frozen, call, server, restarts>>

Connections == {Refs[i] : i \in DOMAIN Refs}
Cursors == UNION {DOMAIN l : l \in Listings}
Elements(s) == {s[i] : i \in DOMAIN s}
Tools == UNION {UNION {Elements(l[k].tools) : k \in DOMAIN l} : l \in Listings}

\* A server lists by its own cursors: an unknown one is an error (FailFreeze).
ASSUME ConnectorAssumption ==
  /\ Refs \in Seq(Connections) /\ Refs # <<>> /\ MaxRestarts \in Nat
  /\ \A l \in Listings :
       /\ None \in DOMAIN l
       /\ l \in [DOMAIN l -> [tools : Seq(Tools), next : DOMAIN l \cup {None}]]

NewFreeze == [step |-> "new", cursor |-> None, seen |-> {}, tools |-> <<>>]
NewCall == [step |-> "new", of |-> None, dispatched |-> FALSE, interaction |-> FALSE,
            error |-> "none", reply |-> "uncalled"]
NewServer == [request |-> "none", secret |-> None, effect |-> "none", reply |-> "none"]

Discovery == [step : {"new", "session", "listing", "done", "failed"},
              cursor : Cursors \cup {None}, seen : SUBSET Cursors, tools : Seq(Tools)]
Snapshot == [of : Connections, tools : Seq(Tools), secret : Secrets \cup {None}]
CallType == [step : {"new", "resolving", "connecting", "calling", "closing", "returned"},
             of : Connections \cup {None}, dispatched : BOOLEAN, interaction : BOOLEAN,
             error : {"none", "fault", "uncertain"},
             reply : {"uncalled", "pending", "refused", "answered", "unknown"}]
ServerType == [request : {"none", "sent", "received"}, secret : Secrets \cup {None},
               effect : {"none", "begun", "ended"}, reply : {"none", "fits", "does not fit"}]

ConnectorTypeOK ==
  /\ secret \in [Connections -> Secrets \cup {None}]
  /\ grants \subseteq Connections
  /\ listing \in [Connections -> Listings]
  /\ freeze \in Discovery /\ frozen \in Seq(Snapshot)
  /\ call \in CallType /\ server \in ServerType
  /\ restarts \in 0..MaxRestarts

\* The configuration names a credential for every connection; the environment
\* may lack it.
ConnectorInit ==
  /\ secret \in [Connections -> Secrets \cup {None}] /\ grants = Connections
  /\ listing \in [Connections -> Listings]
  /\ freeze = NewFreeze /\ frozen = <<>>
  /\ call = NewCall /\ server = NewServer /\ restarts = 0

-----------------------------------------------------------------------------
(* freeze *)

FreezeOnly == UNCHANGED <<secret, grants, listing, call, server, restarts>>

\* The connection whose turn it is.
Current == Refs[Len(frozen) + 1]
Discover(step) == freeze' = [NewFreeze EXCEPT !.step = step]

StartFreeze ==
  /\ freeze.step = "new"
  /\ Discover(IF Connections \subseteq grants THEN "session" ELSE "failed")
  /\ UNCHANGED frozen /\ FreezeOnly

OpenSession ==
  /\ freeze.step = "session"
  /\ Discover(IF secret[Current] = None THEN "failed" ELSE "listing")
  /\ UNCHANGED frozen /\ FreezeOnly

Page == listing[Current][freeze.cursor]
Listed == freeze.tools \o Page.tools
Unfit == Elements(Page.tools) \cap Unsupported # {}
Refused ==
  \/ Unfit
  \/ Len(Listed) > MaxTools
  \/ Page.next # None /\ Page.next \in freeze.seen

ListPage ==
  /\ freeze.step = "listing" /\ ~Refused /\ Page.next # None
  /\ freeze' = [freeze EXCEPT !.cursor = Page.next, !.seen = @ \cup {Page.next}, !.tools = Listed]
  /\ UNCHANGED frozen /\ FreezeOnly

\* Mutant: a page without tools is taken for the last.
LastPageIsEmpty == Page.next = None \/ Page.tools = <<>>
LastPage == Page.next = None
ListLastPage ==
  /\ freeze.step = "listing" /\ ~Refused /\ LastPage
  /\ Cardinality(Elements(Listed)) = Len(Listed)
  /\ frozen' = Append(frozen, [of |-> Current, tools |-> Listed, secret |-> secret[Current]])
  /\ Discover(IF Len(frozen) + 1 = Len(Refs) THEN "done" ELSE "session")
  /\ FreezeOnly

\* The session breaks, what is listed is refused, or ten seconds have passed.
FailFreeze ==
  /\ freeze.step \in {"session", "listing"}
  /\ Discover("failed")
  /\ UNCHANGED frozen /\ FreezeOnly

-----------------------------------------------------------------------------
(* invoke *)

CallOnly == UNCHANGED <<secret, grants, listing, freeze, frozen, restarts>>

\* Mutant: the credential of the process is taken as it is.
SecretStands(snapshot) == secret[snapshot.of] # None
SecretAsAdmitted(snapshot) == secret[snapshot.of] = snapshot.secret

\* Whether the input fits the schema is up to the program.
Invoke(snapshot) ==
  /\ call.step = "new" /\ freeze.step = "done"
  /\ \/ /\ snapshot.of \in grants /\ SecretAsAdmitted(snapshot)
        /\ call' = [call EXCEPT !.step = "resolving", !.of = snapshot.of, !.reply = "pending"]
     \/ call' = [call EXCEPT !.step = "closing", !.of = snapshot.of, !.reply = "pending",
                   !.error = "fault"]
  /\ UNCHANGED server /\ CallOnly

Resolve ==
  /\ call.step = "resolving"
  /\ call' = [call EXCEPT !.step = "connecting"]
  /\ UNCHANGED server /\ CallOnly

\* The session is open; run notes that it dispatches, and the request goes out
\* unless it was aborted before.
\* Mutant: the note comes with the response.
ConnectUnnoted ==
  /\ call.step = "connecting"
  /\ call' = [call EXCEPT !.step = "calling"]
  /\ server' \in {server, [server EXCEPT !.request = "sent", !.secret = secret[call.of]]}
  /\ CallOnly
Connect ==
  /\ call.step = "connecting"
  /\ call' = [call EXCEPT !.step = "calling", !.dispatched = TRUE]
  /\ server' \in {server, [server EXCEPT !.request = "sent", !.secret = secret[call.of]]}
  /\ CallOnly

\* A result or a tool error that fits the schema, one that does not or is too
\* large, or any reply after the server asked the user something.
Respond ==
  /\ call.step = "calling" /\ server.reply # "none"
  /\ call' = [call EXCEPT !.step = "closing",
                !.error = IF call.interaction \/ server.reply = "does not fit" THEN "uncertain"
                          ELSE "none"]
  /\ UNCHANGED server /\ CallOnly

\* The endpoint is denied, the connection breaks, a limit is passed, the Work is
\* cancelled, or the deadline is there.
FailCall ==
  /\ call.step \in {"resolving", "connecting", "calling"}
  /\ call' = [call EXCEPT !.step = "closing", !.error = "fault"]
  /\ UNCHANGED server /\ CallOnly

\* The session is closed, which may fail, too, after a result.
Told(error) ==
  IF error = "none" THEN "answered"
  ELSE IF error = "uncertain" \/ call.dispatched THEN "unknown"
  ELSE "refused"
CloseSession ==
  /\ call.step = "closing"
  /\ \E error \in {call.error, "fault"} :
       call' = [call EXCEPT !.step = "returned", !.reply = Told(error)]
  /\ UNCHANGED server /\ CallOnly

-----------------------------------------------------------------------------
(* The server, and the process *)

Serve(step) == server' = step /\ UNCHANGED <<call>> /\ CallOnly

Receive ==
  /\ server.request = "sent"
  /\ Serve([server EXCEPT !.request = "received", !.effect = "begun"])

\* It asks back; the handler refuses and notes it.
Elicit ==
  /\ server.effect = "begun" /\ call.step = "calling"
  /\ call' = [call EXCEPT !.interaction = TRUE]
  /\ UNCHANGED server /\ CallOnly

Perform ==
  /\ server.effect = "begun"
  /\ \E reply \in {"fits", "does not fit"} :
       Serve([server EXCEPT !.effect = "ended", !.reply = reply])

\* Another environment and another configuration; the Work is recovered.
Restart ==
  /\ restarts < MaxRestarts /\ restarts' = restarts + 1
  /\ secret' \in [Connections -> Secrets \cup {None}] /\ grants' \in SUBSET Connections
  /\ freeze' = IF freeze.step \in {"session", "listing"} THEN [freeze EXCEPT !.step = "failed"]
               ELSE freeze
  /\ call' = IF call.step \in {"new", "returned"} THEN call
             ELSE [call EXCEPT !.step = "returned", !.reply = "unknown"]
  /\ UNCHANGED <<listing, frozen, server>>

ConnectorNext ==
  \/ StartFreeze \/ OpenSession \/ ListPage \/ ListLastPage \/ FailFreeze
  \/ \E i \in DOMAIN frozen : Invoke(frozen[i])
  \/ Resolve \/ Connect \/ Respond \/ FailCall \/ CloseSession
  \/ Receive \/ Elicit \/ Perform \/ Restart

\* Names resolve, timers fire, and what is open is closed.
ConnectorFairness == WF_connectorVars(Resolve \/ FailCall \/ CloseSession)

ConnectorSpec == ConnectorInit /\ [][ConnectorNext]_connectorVars
ConnectorFairSpec == ConnectorSpec /\ ConnectorFairness

-----------------------------------------------------------------------------

\* The pages of a listing: the first, and what follows one of them.  The page after
\* the last one is the first.
FollowsLinks(l, ks) == None \in ks /\ \A k \in ks : l[k].next \in ks
Pages(l) == {k \in DOMAIN l : \A ks \in SUBSET DOMAIN l : FollowsLinks(l, ks) => k \in ks}

\* What a Work is admitted with is all that the server of each connection listed,
\* each tool once, however the server splits or links its pages (284-320).
FrozenIsWhole == freeze.step = "done" =>
  /\ [i \in DOMAIN frozen |-> frozen[i].of] = Refs
  /\ \A i \in DOMAIN frozen :
       LET l == listing[frozen[i].of]
       IN /\ Elements(frozen[i].tools) = UNION {Elements(l[k].tools) : k \in Pages(l)}
          /\ Cardinality(Elements(frozen[i].tools)) = Len(frozen[i].tools)

\* A tool is called with the credential under which it was discovered, or not at
\* all, although the process restarted in between (349-356).
CalledAsAdmitted == server.request # "none" =>
  \E i \in DOMAIN frozen : frozen[i].of = call.of /\ frozen[i].secret = server.secret

\* The server does nothing after a refusal and has done everything before an
\* answer, once; and a caller is told something, in the end (365-418).
Remote == INSTANCE RemoteCall WITH reply <- call.reply, effect <- server.effect
ImplementsRemoteCall == Remote!RemoteCallSpec
=============================================================================
