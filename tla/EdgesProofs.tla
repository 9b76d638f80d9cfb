----------------------------- MODULE EdgesProofs -----------------------------
(***************************************************************************)
(* The edges of the system, for all publishers, tenants, trees,            *)
(* connections, credentials and listings, and any number of outages.       *)
(*                                                                         *)
(* Published trees: once a publisher flushed the directory the name of its *)
(* tree is there after any outage (Named), perhaps for the file of another *)
(* publisher of the same tree; and no file gets the name before it is      *)
(* whole and flushed itself (Sound).                                       *)
(*                                                                         *)
(* Remote tools: discovery follows the links of a listing and has read     *)
(* what it passed (Follows), so that at a page without a link it has read  *)
(* all of them; the call bears the credential of the admission             *)
(* (Authorized), and the caller takes it for refused only if it did not    *)
(* happen (Accounted).                                                     *)
(***************************************************************************)
EXTENDS Resources, Connector, TLAPS

(* Published trees *)

\* A file under the name of a tree is one that survives.
Sound ==
  \A k \in Trees : \A w \in {blob[k], flushed[k]} \ {Nobody} : file[w].whole /\ file[w].safe

\* How far a file is when its publisher is at a step of put.
Advanced ==
  \A w \in Publishers :
    /\ pc[w] \in {"written", "synced"} => file[w].whole
    /\ pc[w] = "synced" => file[w].safe
    /\ file[w].safe => file[w].whole

\* A name that was flushed stays, also the one that the file system shows; it was
\* flushed before the record of the tree was made, and the record before the answer.
Named ==
  /\ \A k \in Trees : flushed[k] # Nobody => blob[k] # Nobody
  /\ \A w \in Publishers :
       /\ pc[w] = "renamed" => blob[TreeOf[w]] # Nobody
       /\ pc[w] = "stored" => flushed[TreeOf[w]] # Nobody
       /\ pc[w] = "published" => <<TenantOf[w], TreeOf[w]>> \in records
  /\ \A r \in records : flushed[r[2]] # Nobody

PublishInv == PublishTypeOK /\ Sound /\ Advanced /\ Named

-----------------------------------------------------------------------------

\* PublishInit establishes the invariant (resources.ts:66-70).
LEMMA PublishInitInv == ASSUME PublishInit PROVE PublishInv
  <1>1. PublishTypeOK
    BY ResourcesAssumption DEF PublishInit, PublishTypeOK, Steps, PutSteps, File, NoFile
  <1>2. Sound /\ Advanced /\ Named
    BY ResourcesAssumption DEF PublishInit, Sound, Advanced, Named, NoFile
  <1> QED BY <1>1, <1>2 DEF PublishInv

\* A call of put keeps it (14-36).
LEMMA PutKeepsInv ==
  ASSUME PublishInv, NEW w \in Publishers,
         OpenTemporary(w) \/ Write(w) \/ Sync(w) \/ Rename(w) \/ SyncDirectory(w)
  PROVE  PublishInv'
  <1> USE DEF PublishInv, PublishTypeOK, Step, Steps, PutSteps, File
  <1>1. CASE OpenTemporary(w)
    BY <1>1, ResourcesAssumption DEF OpenTemporary, Sound, Advanced, Named
  <1>2. CASE Write(w)
    BY <1>2, ResourcesAssumption DEF Write, Sound, Advanced, Named
  <1>3. CASE Sync(w)
    BY <1>3, ResourcesAssumption DEF Sync, Sound, Advanced, Named
  <1>4. CASE Rename(w)
    BY <1>4, ResourcesAssumption, ZenonT(40) DEF Rename, Sound, Advanced, Named
  <1>5. CASE SyncDirectory(w)
    BY <1>5, ResourcesAssumption DEF SyncDirectory, Sound, Advanced, Named
  <1> QED BY <1>1, <1>2, <1>3, <1>4, <1>5

\* So do the record of a tree and a call that fails (71-96, 24-36).
LEMMA RecordKeepsInv ==
  ASSUME PublishInv, NEW w \in Publishers, Record(w) \/ Fail(w)
  PROVE  PublishInv'
  <1> USE DEF PublishInv, PublishTypeOK, Step, Steps, PutSteps, File
  <1>1. CASE Record(w)
    <2>1. PublishTypeOK'
      <3>1. pc' \in [Publishers -> Steps]
        BY <1>1 DEF Record
      <3>2. <<TenantOf[w], TreeOf[w]>> \in Tenants \X Trees
        BY ResourcesAssumption
      <3>3. records' = records \cup {<<TenantOf[w], TreeOf[w]>>}
            /\ UNCHANGED <<file, blob, flushed, outages>>
        BY <1>1 DEF Record
      <3> QED BY <3>1, <3>2, <3>3
    <2>2. Sound' /\ Advanced'
      BY <1>1 DEF Record, Sound, Advanced
    <2>3. \A r \in records' : flushed[r[2]] # Nobody
      <3>1. flushed[TreeOf[w]] # Nobody
        BY <1>1 DEF Record, Named
      <3>2. \A r \in records' : r \in records \/ r[2] = TreeOf[w]
        BY <1>1 DEF Record
      <3> QED BY <3>1, <3>2 DEF Named
    <2>4. Named'
      BY <1>1, <2>3, ZenonT(40) DEF Record, Named
    <2> QED BY <2>1, <2>2, <2>4
  <1>2. CASE Fail(w)
    BY <1>2, ResourcesAssumption DEF Fail, Sound, Advanced, Named
  <1> QED BY <1>1, <1>2

\* So do an outage of the process and one of the machine.
LEMMA OutageKeepsInv ==
  ASSUME PublishInv, Crash \/ PowerFails
  PROVE  PublishInv'
  <1> USE DEF PublishInv, PublishTypeOK, Steps, PutSteps, File
  <1>1. CASE Crash
    BY <1>1, ResourcesAssumption DEF Crash, Sound, Advanced, Named
  <1>2. CASE PowerFails
    <2>1. \A k \in Trees : blob'[k] \in {blob[k], flushed[k]} /\ flushed'[k] = blob'[k]
      BY <1>2 DEF PowerFails
    <2>2. \A w \in Publishers :
            /\ file[w].safe => file'[w] = file[w]
            /\ file'[w] = file[w] \/ file'[w] = NoFile
            /\ pc'[w] = IF pc[w] \in {"new", "published"} THEN pc[w] ELSE "failed"
      BY <1>2 DEF PowerFails
    <2>3. PublishTypeOK'
      BY <1>2, <2>1, ResourcesAssumption DEF PowerFails, NoFile
    <2>4. Sound'
      BY <2>1, <2>2, <2>3 DEF Sound
    <2>5. Advanced'
      BY <2>2 DEF Advanced, NoFile
    <2>6. Named'
      BY <1>2, <2>1, <2>2, ResourcesAssumption DEF PowerFails, Named
    <2> QED BY <2>3, <2>4, <2>5, <2>6
  <1> QED BY <1>1, <1>2

\* The invariant holds of every behaviour (resources.ts:14-113).
THEOREM PublishInvariant == PublishSpec => []PublishInv
<1>1. PublishInit => PublishInv BY PublishInitInv
<1>2. PublishInv /\ [PublishNext]_publishVars => PublishInv'
  <2> SUFFICES ASSUME PublishInv, [PublishNext]_publishVars PROVE PublishInv'
    OBVIOUS
  <2>1. CASE UNCHANGED publishVars
    BY <2>1 DEF publishVars, PublishInv, PublishTypeOK, Sound, Advanced, Named
  <2>2. CASE PublishNext
    BY <2>2, PutKeepsInv, RecordKeepsInv, OutageKeepsInv DEF PublishNext
  <2> QED BY <2>1, <2>2
<1> QED BY <1>1, <1>2, PTL DEF PublishSpec

\* What a tenant was told is published it can read, whole, from then on, whoever
\* else publishes the same tree, fails at it, or stops with the machine
\* (resources.ts:79-80, 97-112).
THEOREM PublishedStaysReadable ==
  PublishSpec => []PublishedIsReadable
<1>1. PublishInv => PublishedIsReadable
  <2> SUFFICES ASSUME PublishInv PROVE PublishedIsReadable
    OBVIOUS
  <2>1. \A r \in records : Read(r[1], r[2]) = "files"
    <3> SUFFICES ASSUME NEW r \in records PROVE Read(r[1], r[2]) = "files"
      OBVIOUS
    <3>1. r = <<r[1], r[2]>> /\ r[2] \in Trees
      BY DEF PublishInv, PublishTypeOK
    <3>2. blob[r[2]] # Nobody /\ file[blob[r[2]]].whole
      BY <3>1 DEF PublishInv, Named, Sound
    <3> QED BY <3>1, <3>2 DEF Read
  <2>2. \A w \in Publishers :
          pc[w] = "published" => Read(TenantOf[w], TreeOf[w]) = "files"
    BY <2>1 DEF PublishInv, Named
  <2> QED BY <2>1, <2>2 DEF PublishedIsReadable
<1> QED BY <1>1, PublishInvariant, PTL

-----------------------------------------------------------------------------
(* Remote tools *)

\* The frozen connection whose credential is s; nothing is frozen once there is a call.
AdmittedWith(s) == \E i \in DOMAIN frozen : frozen[i].of = call.of /\ frozen[i].secret = s

\* Between the look at the credential and the request no restart comes.
Authorized ==
  /\ call.step # "new" => freeze.step = "done"
  /\ call.step \in {"resolving", "connecting"} =>
       call.of \in Connections /\ AdmittedWith(secret[call.of])
  /\ server.request # "none" => AdmittedWith(server.secret)

\* What the caller was told, by where the call is.
Pending ==
  /\ call.step = "new" <=> call.reply = "uncalled"
  /\ call.step \in {"resolving", "connecting", "calling", "closing"} <=> call.reply = "pending"

\* No request is sent before it is noted that it may be, and what came of it is
\* known from a response alone.
Accounted ==
  /\ call.step \in {"new", "resolving", "connecting"} \/ call.reply = "refused" =>
       ~call.dispatched
  /\ ~call.dispatched => server.request = "none"
  /\ server.request = "received" <=> server.effect # "none"
  /\ server.effect = "ended" <=> server.reply # "none"
  /\ call.step = "closing" /\ call.error = "none" => server.effect = "ended"
  /\ call.reply = "answered" => server.effect = "ended"

\* freeze has a page to read, of a connection that is not frozen yet.
Discovers ==
  /\ freeze.step \in {"new", "session", "listing"} => Len(frozen) < Len(Refs)
  /\ freeze.step = "listing" => freeze.cursor \in DOMAIN listing[Current]

\* These are all the tools of a listing, once.
Whole(l, tools) ==
  /\ Elements(tools) = UNION {Elements(l[k].tools) : k \in Pages(l)}
  /\ Cardinality(Elements(tools)) = Len(tools)

\* The pages that were asked for; all but the last of them have been read.
Passed == {None} \cup freeze.seen
PagesRead == Passed \ {freeze.cursor}

\* The pages asked for are pages of the listing, each next page among them, and the
\* tools so far are those of the pages read.
FollowsListing(l) ==
  /\ freeze.cursor \in Passed /\ Passed \subseteq DOMAIN l
  /\ \A k \in PagesRead : l[k].next \in Passed
  /\ \A ks \in SUBSET DOMAIN l : FollowsLinks(l, ks) => Passed \subseteq ks
  /\ Elements(freeze.tools) = UNION {Elements(l[k].tools) : k \in PagesRead}

\* The connections are discovered in order, each to its end.
Follows ==
  /\ \A i \in DOMAIN frozen : 
       frozen[i].of = Refs[i] /\ Whole(listing[frozen[i].of], frozen[i].tools)
  /\ freeze.step = "done" => Len(frozen) = Len(Refs)
  /\ freeze.step = "listing" => FollowsListing(listing[Current])

ConnectorInv ==
  ConnectorTypeOK /\ Discovers /\ Follows /\ Authorized /\ Pending /\ Accounted

-----------------------------------------------------------------------------
(* freeze *)

\* The connection that is next is one of the Work's (mcp.ts:284).
LEMMA CurrentIsOne ==
  ASSUME ConnectorTypeOK, Len(frozen) < Len(Refs)
  PROVE  Current \in Connections /\ listing[Current] \in Listings
  <1>1. Refs \in Seq(Connections) /\ Len(frozen) \in Nat
    BY ConnectorAssumption DEF ConnectorTypeOK
  <1>2. Len(frozen) + 1 \in 1..Len(Refs)
    BY <1>1
  <1>3. Refs[Len(frozen) + 1] \in Connections
    BY <1>1, <1>2
  <1> QED BY <1>3 DEF Current, ConnectorTypeOK

\* A page lists tools and names the next page (285-288).
LEMMA PageTyped ==
  ASSUME ConnectorTypeOK, Discovers, freeze.step = "listing"
  PROVE  /\ Page.tools \in Seq(Tools) /\ Page.next \in DOMAIN listing[Current] \cup {None}
         /\ DOMAIN listing[Current] \subseteq Cursors
         /\ Listed \in Seq(Tools)
  <1> DEFINE l == listing[Current]
  <1>1. l \in Listings /\ freeze.cursor \in DOMAIN l
    BY CurrentIsOne DEF Discovers
  <1>2. l \in [DOMAIN l -> [tools : Seq(Tools), next : DOMAIN l \cup {None}]]
    BY <1>1, ConnectorAssumption
  <1>3. Page \in [tools : Seq(Tools), next : DOMAIN l \cup {None}]
    BY <1>1, <1>2 DEF Page
  <1>4. freeze.tools \in Seq(Tools)
    BY DEF ConnectorTypeOK, Discovery
  <1>5. DOMAIN l \subseteq Cursors
    BY <1>1 DEF Cursors
  <1> QED BY <1>3, <1>4, <1>5 DEF Listed

\* Discovery goes on with the first page of a connection, or ends.
LEMMA DiscoverTyped ==
  ASSUME NEW step \in {"new", "session", "listing", "done", "failed"}, Discover(step)
  PROVE  freeze' \in Discovery /\ freeze'.step = step /\ freeze'.cursor = None
  <1>1. freeze' = [step |-> step, cursor |-> None, seen |-> {}, tools |-> <<>>]
    BY DEF Discover, NewFreeze
  <1>2. <<>> \in Seq(Tools)
    OBVIOUS
  <1> QED BY <1>1, <1>2 DEF Discovery

\* The tools of a page are added to those so far (297-312).
LEMMA ElementsListed ==
  ASSUME NEW T, NEW s \in Seq(T), NEW u \in Seq(T)
  PROVE  Elements(s \o u) = Elements(s) \cup Elements(u)
  <1>1. /\ DOMAIN s = 1..Len(s) /\ DOMAIN u = 1..Len(u)
        /\ DOMAIN (s \o u) = 1..(Len(s) + Len(u)) /\ Len(s) \in Nat /\ Len(u) \in Nat
    OBVIOUS
  <1>2. \A i \in 1..Len(s) : (s \o u)[i] = s[i]
    OBVIOUS
  <1>3. \A i \in 1..Len(u) : (s \o u)[Len(s) + i] = u[i]
    OBVIOUS
  <1>4. \A i \in 1..(Len(s) + Len(u)) :
          i \in 1..Len(s) \/ \E j \in 1..Len(u) : i = Len(s) + j
    <2> SUFFICES ASSUME NEW i \in 1..(Len(s) + Len(u)), i \notin 1..Len(s)
                 PROVE  \E j \in 1..Len(u) : i = Len(s) + j
      OBVIOUS
    <2>1. i - Len(s) \in 1..Len(u) /\ i = Len(s) + (i - Len(s))
      BY <1>1
    <2> QED BY <2>1
  <1>5. Elements(s \o u) \subseteq Elements(s) \cup Elements(u)
    <2> SUFFICES ASSUME NEW i \in 1..(Len(s) + Len(u))
                 PROVE  (s \o u)[i] \in Elements(s) \cup Elements(u)
      BY <1>1 DEF Elements
    <2>1. CASE i \in 1..Len(s)
      BY <2>1, <1>1, <1>2 DEF Elements
    <2>2. CASE \E j \in 1..Len(u) : i = Len(s) + j
      BY <2>2, <1>1, <1>3 DEF Elements
    <2> QED BY <2>1, <2>2, <1>4
  <1>6. Elements(s) \subseteq Elements(s \o u)
    BY <1>1, <1>2 DEF Elements
  <1>7. Elements(u) \subseteq Elements(s \o u)
    <2> SUFFICES ASSUME NEW j \in 1..Len(u) PROVE u[j] \in Elements(s \o u)
      BY <1>1 DEF Elements
    <2>1. Len(s) + j \in 1..(Len(s) + Len(u))
      BY <1>1
    <2> QED BY <2>1, <1>1, <1>3 DEF Elements
  <1> QED BY <1>5, <1>6, <1>7

\* What is read with the page at the cursor.
LEMMA PageRead ==
  ASSUME ConnectorTypeOK, Discovers, freeze.step = "listing",
         FollowsListing(listing[Current])
  PROVE  Elements(Listed) = UNION {Elements(listing[Current][k].tools) : k \in Passed}
  <1> DEFINE l == listing[Current]
  <1>1. freeze.tools \in Seq(Tools) /\ Page.tools \in Seq(Tools)
    BY PageTyped DEF ConnectorTypeOK, Discovery
  <1>2. Elements(Listed) = Elements(freeze.tools) \cup Elements(Page.tools)
    BY <1>1, ElementsListed DEF Listed
  <1>3. Page = l[freeze.cursor] /\ Passed = PagesRead \cup {freeze.cursor}
    BY DEF Page, FollowsListing, PagesRead
  <1> QED BY <1>2, <1>3 DEF FollowsListing

\* A page that links to another one is followed by it (313-317).
LEMMA ListPageFollows ==
  ASSUME ConnectorInv, ListPage
  PROVE  Follows'
  <1> DEFINE l == listing[Current]
  <1>1. /\ freeze.step = "listing" /\ UNCHANGED <<frozen, listing>> /\ FollowsListing(l)
        /\ Current' = Current
    BY DEF ListPage, FreezeOnly, ConnectorInv, Follows, Current
  <1>2. Page.next \in DOMAIN l /\ Page.next # None /\ Page.next \notin freeze.seen
    BY PageTyped DEF ConnectorInv, ListPage, Refused
  <1>3. /\ freeze' = [freeze EXCEPT !.cursor = Page.next, !.seen = @ \cup {Page.next},
                        !.tools = Listed]
        /\ freeze \in Discovery
    BY DEF ListPage, ConnectorInv, ConnectorTypeOK
  <1>4. /\ Passed' = Passed \cup {Page.next} /\ PagesRead' = Passed
        /\ freeze'.cursor = Page.next /\ freeze'.tools = Listed /\ freeze'.step = "listing"
    BY <1>1, <1>2, <1>3 DEF Discovery, Passed, PagesRead
  <1>5. Page = l[freeze.cursor] /\ Passed = PagesRead \cup {freeze.cursor}
    BY <1>1 DEF Page, FollowsListing, PagesRead
  <1>6. \A k \in Passed : l[k].next \in Passed'
    BY <1>1, <1>4, <1>5 DEF FollowsListing
  <1>7. \A ks \in SUBSET DOMAIN l : FollowsLinks(l, ks) => Passed' \subseteq ks
    <2> SUFFICES ASSUME NEW ks \in SUBSET DOMAIN l, FollowsLinks(l, ks)
                 PROVE  Passed' \subseteq ks
      OBVIOUS
    <2>1. Passed \subseteq ks
      BY <1>1 DEF FollowsListing
    <2>2. l[freeze.cursor].next \in ks
      BY <2>1, <1>5 DEF FollowsLinks
    <2> QED BY <2>1, <2>2, <1>4, <1>5
  <1>8. Elements(Listed) = UNION {Elements(l[k].tools) : k \in Passed}
    BY <1>1, PageRead DEF ConnectorInv
  <1>9. FollowsListing(l)'
    BY <1>1, <1>2, <1>4, <1>6, <1>7, <1>8 DEF FollowsListing
  <1> QED BY <1>1, <1>4, <1>9 DEF ConnectorInv, Follows

\* At a page without a link all pages are read, and nothing else is (318-331).
LEMMA LastPageIsReached ==
  ASSUME ConnectorInv, ListLastPage
  PROVE  Passed = Pages(listing[Current])
  <1> DEFINE l == listing[Current]
  <1>1. freeze.step = "listing" /\ FollowsListing(l) /\ Page.next = None
    BY DEF ListLastPage, LastPage, ConnectorInv, Follows
  <1>2. Page = l[freeze.cursor] /\ Passed = PagesRead \cup {freeze.cursor} /\ None \in Passed
    BY <1>1 DEF Page, FollowsListing, PagesRead, Passed
  <1>3. FollowsLinks(l, Passed) /\ Passed \in SUBSET DOMAIN l
    BY <1>1, <1>2 DEF FollowsListing, FollowsLinks
  <1>4. Pages(l) \subseteq Passed
    BY <1>3 DEF Pages
  <1>5. Passed \subseteq Pages(l)
    BY <1>1 DEF FollowsListing, Pages
  <1> QED BY <1>4, <1>5

\* Then the connection is recorded as a whole (318-331).
LEMMA ListLastPageFollows ==
  ASSUME ConnectorInv, ListLastPage
  PROVE  Follows'
  <1> DEFINE l == listing[Current]
             entry == [of |-> Current, tools |-> Listed, secret |-> secret[Current]]
  <1>1. /\ freeze.step = "listing" /\ Len(frozen) < Len(Refs)
        /\ UNCHANGED listing /\ FollowsListing(l)
        /\ frozen' = Append(frozen, entry)
        /\ Cardinality(Elements(Listed)) = Len(Listed)
    BY DEF ListLastPage, FreezeOnly, ConnectorInv, Follows, Discovers
  <1>2. Elements(Listed) = UNION {Elements(l[k].tools) : k \in Pages(l)}
    BY <1>1, PageRead, LastPageIsReached DEF ConnectorInv
  <1>3. /\ frozen \in Seq(Snapshot) /\ Len(frozen) \in Nat /\ Len(Refs) \in Nat
    BY ConnectorAssumption DEF ConnectorInv, ConnectorTypeOK
  <1>4. /\ DOMAIN frozen' = DOMAIN frozen \cup {Len(frozen) + 1}
        /\ Len(frozen') = Len(frozen) + 1
        /\ \A i \in DOMAIN frozen : frozen'[i] = frozen[i]
        /\ frozen'[Len(frozen) + 1] = entry
    <2> HIDE DEF entry
    <2> QED BY <1>1, <1>3
  <1>5. Whole(l, Listed)
    BY <1>1, <1>2 DEF Whole
  <1>6. \A i \in DOMAIN frozen' :
          frozen'[i].of = Refs[i] /\ Whole(listing'[frozen'[i].of], frozen'[i].tools)
    <2>1. \A i \in DOMAIN frozen :
            frozen'[i].of = Refs[i] /\ Whole(listing'[frozen'[i].of], frozen'[i].tools)
      BY <1>1, <1>4 DEF ConnectorInv, Follows
    <2>2. /\ frozen'[Len(frozen) + 1].of = Refs[Len(frozen) + 1]
          /\ listing'[frozen'[Len(frozen) + 1].of] = l
          /\ frozen'[Len(frozen) + 1].tools = Listed
      BY <1>1, <1>4 DEF Current
    <2> QED BY <1>4, <1>5, <2>1, <2>2
  <1>7. freeze'.step = IF Len(frozen) + 1 = Len(Refs) THEN "done" ELSE "session"
    BY DiscoverTyped DEF ListLastPage
  <1> QED BY <1>4, <1>6, <1>7 DEF Follows

\* A session that opens is at the first page; all else leaves what is recorded.
LEMMA OtherStepsFollow ==
  ASSUME ConnectorInv, StartFreeze \/ OpenSession \/ FailFreeze
  PROVE  Follows'
  <1>1. UNCHANGED <<frozen, listing>> /\ Current' = Current
    BY DEF StartFreeze, OpenSession, FailFreeze, FreezeOnly, Current
  <1>2. PICK step \in {"session", "listing", "failed"} :
          /\ Discover(step)
          /\ step = "listing" => Len(frozen) < Len(Refs)
    BY DEF StartFreeze, OpenSession, FailFreeze, ConnectorInv, Discovers
  <1>3. freeze' = [step |-> step, cursor |-> None, seen |-> {}, tools |-> <<>>]
    BY <1>2 DEF Discover, NewFreeze
  <1>4. step = "listing" => FollowsListing(listing[Current])'
    <2> SUFFICES ASSUME step = "listing" PROVE FollowsListing(listing[Current])'
      OBVIOUS
    <2>1. None \in DOMAIN listing[Current]
      BY <1>2, CurrentIsOne, ConnectorAssumption DEF ConnectorInv
    <2>2. Passed' = {None} /\ PagesRead' = {} /\ freeze'.cursor = None /\ freeze'.tools = <<>>
      BY <1>3 DEF Passed, PagesRead
    <2>3. Elements(<<>>) = {}
      BY DEF Elements
    <2> QED BY <1>1, <2>1, <2>2, <2>3 DEF FollowsListing, FollowsLinks
  <1> QED BY <1>1, <1>2, <1>3, <1>4 DEF ConnectorInv, Follows

\* A step of freeze leaves the call alone, and nothing is called before the end
\* of it (262-331).
LEMMA FreezeKeepsInv ==
  ASSUME ConnectorInv,
         StartFreeze \/ OpenSession \/ ListPage \/ ListLastPage \/ FailFreeze
  PROVE  ConnectorInv'
  <1>1. Authorized' /\ Pending' /\ Accounted'
    <2>1. UNCHANGED <<call, server, secret>>
      BY DEF StartFreeze, OpenSession, ListPage, ListLastPage, FailFreeze, FreezeOnly
    <2>2. call.step = "new" /\ server.request = "none"
      BY DEF ConnectorInv, ConnectorTypeOK, Authorized, Accounted, StartFreeze, OpenSession,
          ListPage,
        ListLastPage, FailFreeze
    <2> QED BY <2>1, <2>2 DEF ConnectorInv, Authorized, Pending, Accounted
  <1>2. ConnectorTypeOK' /\ Discovers'
    <2>1. CASE StartFreeze
      <3>1. freeze' \in Discovery /\ freeze'.step \in {"session", "failed"}
        BY <2>1, DiscoverTyped DEF StartFreeze
      <3>2. freeze.step = "new" /\ UNCHANGED <<frozen, secret, grants, listing, call, server, restarts>>
        BY <2>1 DEF StartFreeze, FreezeOnly
      <3> QED BY <3>1, <3>2 DEF ConnectorInv, ConnectorTypeOK, Discovers
    <2>2. CASE OpenSession
      <3>1. Len(frozen) < Len(Refs) /\ UNCHANGED <<frozen, listing>>
        BY <2>2 DEF ConnectorInv, Discovers, OpenSession, FreezeOnly
      <3>2. None \in DOMAIN listing[Current]
        BY <3>1, CurrentIsOne, ConnectorAssumption DEF ConnectorInv
      <3>3. /\ freeze' \in Discovery /\ freeze'.step \in {"listing", "failed"}
            /\ freeze'.cursor = None
        BY <2>2, DiscoverTyped DEF OpenSession
      <3> QED BY <2>2, <3>1, <3>2, <3>3 DEF ConnectorInv, ConnectorTypeOK, Discovers,
          OpenSession, FreezeOnly, Current
    <2>3. CASE ListPage
      <3>1. Len(frozen) < Len(Refs) /\ UNCHANGED <<frozen, listing>>
        BY <2>3 DEF ConnectorInv, Discovers, ListPage, FreezeOnly
      <3>2. /\ Page.next \in DOMAIN listing[Current] /\ Page.next \in Cursors
            /\ Listed \in Seq(Tools)
        BY <2>3, PageTyped DEF ConnectorInv, ListPage
      <3> QED BY <2>3, <3>1, <3>2 DEF ConnectorInv, ConnectorTypeOK, Discovery, Discovers,
          ListPage, FreezeOnly, Current
    <2>4. CASE ListLastPage
      <3> DEFINE entry == [of |-> Current, tools |-> Listed, secret |-> secret[Current]]
      <3>1. Len(frozen) < Len(Refs) /\ Current \in Connections /\ Listed \in Seq(Tools)
        BY <2>4, CurrentIsOne, PageTyped DEF ConnectorInv, Discovers, ListLastPage
      <3>2. entry \in Snapshot
        BY <3>1 DEF ConnectorInv, ConnectorTypeOK, Snapshot
      <3>3. /\ frozen' = Append(frozen, entry)
            /\ frozen' \in Seq(Snapshot)
            /\ Len(frozen') = Len(frozen) + 1
        <4>1. frozen' = Append(frozen, entry)
          BY <2>4 DEF ListLastPage
        <4> HIDE DEF entry
        <4> QED BY <4>1, <3>2 DEF ConnectorInv, ConnectorTypeOK
      <3>4. Len(Refs) \in Nat
        BY ConnectorAssumption
      <3>5. /\ freeze' \in Discovery
            /\ freeze'.step = IF Len(frozen) + 1 = Len(Refs) THEN "done" ELSE "session"
        BY <2>4, DiscoverTyped DEF ListLastPage
      <3>6. freeze'.step = "session" => Len(frozen') < Len(Refs)
        BY <3>1, <3>3, <3>4, <3>5 DEF ConnectorInv, ConnectorTypeOK
      <3> QED BY <2>4, <3>3, <3>5, <3>6 DEF ConnectorInv, ConnectorTypeOK, Discovers,
          ListLastPage, FreezeOnly
    <2>5. CASE FailFreeze
      <3>1. freeze' \in Discovery /\ freeze'.step = "failed"
        BY <2>5, DiscoverTyped DEF FailFreeze
      <3> QED BY <2>5, <3>1 DEF ConnectorInv, ConnectorTypeOK, Discovers, FailFreeze, FreezeOnly
    <2> QED BY <2>1, <2>2, <2>3, <2>4, <2>5
  <1>3. Follows'
    BY ListPageFollows, ListLastPageFollows, OtherStepsFollow
  <1> QED BY <1>1, <1>2, <1>3 DEF ConnectorInv

-----------------------------------------------------------------------------
(* invoke, the server and the process *)

\* What a call leaves alone.
LEMMA FreezeStays ==
  ASSUME ConnectorInv, UNCHANGED <<freeze, frozen, listing>> PROVE Discovers' /\ Follows'
  <1>1. Passed' = Passed /\ PagesRead' = PagesRead /\ Current' = Current
    BY DEF Passed, PagesRead, Current
  <1> QED BY <1>1 DEF ConnectorInv, Discovers, Follows, FollowsListing

\* The steps of a call leave what was discovered as it is.
LEMMA CallLeavesFreeze ==
  ASSUME ConnectorInv, CallOnly PROVE Discovers' /\ Follows'
  BY FreezeStays DEF CallOnly

\* The look at the credential lets through the one of the admission (349-366).
LEMMA InvokeKeepsInv ==
  ASSUME ConnectorInv, NEW i \in DOMAIN frozen, Invoke(frozen[i])
  PROVE  ConnectorInv'
  <1>1. frozen[i] \in Snapshot /\ frozen[i].of \in Connections
    <2>1. frozen[i] \in Snapshot
      BY DEF ConnectorInv, ConnectorTypeOK
    <2> QED BY <2>1 DEF Snapshot
  <1>2. ConnectorTypeOK'
    BY <1>1 DEF ConnectorInv, ConnectorTypeOK, CallType, Invoke, CallOnly
  <1>3. Authorized'
    <2>1. server.request = "none" /\ UNCHANGED <<freeze, frozen, secret, server>>
      BY DEF ConnectorInv, Accounted, Invoke, CallOnly
    <2>2. call'.step \in {"resolving", "connecting"} =>
            /\ call'.of = frozen[i].of /\ secret[frozen[i].of] = frozen[i].secret
      BY DEF ConnectorInv, ConnectorTypeOK, CallType, Invoke, SecretAsAdmitted
    <2>3. freeze.step = "done"
      BY DEF Invoke
    <2> QED BY <1>1, <2>1, <2>2, <2>3 DEF Authorized, AdmittedWith
  <1>4. Pending' /\ Accounted'
    BY ZenonT(40) DEF ConnectorInv, ConnectorTypeOK, CallType, ServerType, Pending, Accounted, Invoke,
        CallOnly
  <1> QED BY <1>2, <1>3, <1>4, CallLeavesFreeze DEF ConnectorInv, Invoke

\* The steps of an open call (367-418).
LEMMA CallKeepsInv ==
  ASSUME ConnectorInv, Resolve \/ Connect \/ Respond \/ FailCall \/ CloseSession
  PROVE  ConnectorInv'
  <1> USE DEF ConnectorInv, ConnectorTypeOK, CallType, ServerType, CallOnly
  <1>1. Discovers' /\ Follows'
    BY CallLeavesFreeze DEF Resolve, Connect, Respond, FailCall, CloseSession
  <1>2. CASE Resolve
    BY <1>1, <1>2 DEF Resolve, Authorized, AdmittedWith, Pending, Accounted
  <1>3. CASE Connect
    <2>1. CASE server' = server
      BY <1>1, <1>3, <2>1 DEF Connect, Authorized, AdmittedWith, Pending, Accounted
    <2>2. CASE server' = [server EXCEPT !.request = "sent", !.secret = secret[call.of]]
      <3>1. call.of \in Connections /\ AdmittedWith(secret[call.of]) /\ freeze.step = "done"
        BY <1>3 DEF Connect, Authorized
      <3>2. ConnectorTypeOK'
        BY <1>3, <2>2, <3>1 DEF Connect
      <3>3. Authorized'
        BY <1>3, <2>2, <3>1 DEF Connect, Authorized, AdmittedWith
      <3>4. Pending' /\ Accounted'
        BY <1>3, <2>2 DEF Connect, Pending, Accounted
      <3> QED BY <1>1, <3>2, <3>3, <3>4
    <2> QED BY <1>3, <2>1, <2>2 DEF Connect
  <1>4. CASE Respond
    BY <1>1, <1>4 DEF Respond, Authorized, AdmittedWith, Pending, Accounted
  <1>5. CASE FailCall
    BY <1>1, <1>5, ZenonT(40) DEF FailCall, Authorized, AdmittedWith, Pending, Accounted
  <1>6. CASE CloseSession
    <2>1. PICK error \in {call.error, "fault"} :
            call' = [call EXCEPT !.step = "returned", !.reply = Told(error)]
      BY <1>6 DEF CloseSession
    <2>2. /\ Told(error) \in {"answered", "unknown", "refused"}
          /\ Told(error) = "answered" => call.error = "none"
          /\ Told(error) = "refused" => ~call.dispatched
      BY DEF Told
    <2>3. ConnectorTypeOK'
      <3>1. call' \in CallType
        BY <2>1, <2>2
      <3> QED BY <1>6, <3>1 DEF CloseSession
    <2>4. Authorized'
      BY <1>6, <2>1 DEF CloseSession, Authorized, AdmittedWith
    <2>5. Pending' /\ Accounted'
      BY <1>6, <2>1, <2>2 DEF CloseSession, Pending, Accounted
    <2> QED BY <1>1, <2>3, <2>4, <2>5
  <1> QED BY <1>2, <1>3, <1>4, <1>5, <1>6

\* A restart counts (the bound).
LEMMA RestartsCounted ==
  ASSUME MaxRestarts \in Nat, restarts \in 0..MaxRestarts, Restart
  PROVE  restarts' \in 0..MaxRestarts
  BY DEF Restart

\* The steps of the server, which may come after the call was given up, and a
\* restart.
LEMMA RemoteKeepsInv ==
  ASSUME ConnectorInv, Receive \/ Elicit \/ Perform \/ Restart
  PROVE  ConnectorInv'
  <1> USE DEF ConnectorInv, ConnectorTypeOK, CallType, ServerType
  <1>1. CASE Receive
    BY <1>1, CallLeavesFreeze
      DEF Receive, Serve, CallOnly, Authorized, AdmittedWith, Pending, Accounted
  <1>2. CASE Elicit
    BY <1>2, CallLeavesFreeze DEF Elicit, CallOnly, Authorized, AdmittedWith, Pending, Accounted
  <1>3. CASE Perform
    <2>1. PICK reply \in {"fits", "does not fit"} :
            server' = [server EXCEPT !.effect = "ended", !.reply = reply]
      BY <1>3 DEF Perform, Serve
    <2>2. /\ server.effect = "begun" /\ CallOnly
          /\ UNCHANGED <<call, secret, grants, listing, freeze, frozen, restarts>>
      BY <1>3 DEF Perform, Serve, CallOnly
    <2>3. ConnectorTypeOK'
      <3>1. server' \in ServerType
        BY <2>1
      <3> QED BY <2>2, <3>1, ZenonT(40)
    <2>4. Authorized' /\ Pending' /\ Accounted'
      BY <2>1, <2>2 DEF Authorized, AdmittedWith, Pending, Accounted
    <2> QED BY <2>2, <2>3, <2>4, CallLeavesFreeze
  <1>4. CASE Restart
    <2>1. ConnectorTypeOK' /\ Discovers'
      <3>1. /\ freeze' \in Discovery
            /\ freeze' = freeze \/ freeze'.step = "failed"
        BY <1>4 DEF Restart, Discovery
      <3>2. call' \in CallType
        BY <1>4 DEF Restart
      <3>3. Discovers'
        BY <1>4, <3>1 DEF Restart, Discovers, Current
      <3>4. restarts' \in 0..MaxRestarts
        BY <1>4, RestartsCounted, ConnectorAssumption
      <3>5. /\ secret' \in [Connections -> Secrets \cup {None}] /\ grants' \subseteq Connections
            /\ UNCHANGED <<listing, frozen, server>>
        BY <1>4 DEF Restart
      <3> QED BY <3>1, <3>2, <3>3, <3>4, <3>5
    <2>2. Authorized' /\ Pending' /\ Accounted'
      BY <1>4, ZenonT(40) DEF Restart, Authorized, AdmittedWith, Pending, Accounted
    <2>3. Follows'
      <3>1. UNCHANGED <<listing, frozen>> /\ Current' = Current
        BY <1>4 DEF Restart, Current
      <3>2. CASE freeze' = freeze
        BY <3>1, <3>2, FreezeStays
      <3>3. CASE freeze'.step = "failed"
        BY <3>1, <3>3 DEF Follows
      <3>4. freeze' = freeze \/ freeze'.step = "failed"
        BY <1>4 DEF Restart, Discovery
      <3> QED BY <3>2, <3>3, <3>4
    <2> QED BY <2>1, <2>2, <2>3
  <1> QED BY <1>1, <1>2, <1>3, <1>4

\* The invariant holds of every behaviour (mcp.ts:262-418).
THEOREM ConnectorInvariant == ConnectorSpec => []ConnectorInv
<1>1. ConnectorInit => ConnectorInv
  BY ConnectorAssumption DEF ConnectorInit, ConnectorInv, ConnectorTypeOK, Discovery,
      CallType, ServerType,
    Discovers, Follows, Authorized, Pending, Accounted,
    NewFreeze, NewCall, NewServer
<1>2. ConnectorInv /\ [ConnectorNext]_connectorVars => ConnectorInv'
  <2> SUFFICES ASSUME ConnectorInv, [ConnectorNext]_connectorVars PROVE ConnectorInv'
    OBVIOUS
  <2>1. CASE UNCHANGED connectorVars
    <3> USE <2>1 DEF connectorVars
    <3>1. ConnectorTypeOK' /\ Discovers' /\ Follows'
      BY CallLeavesFreeze DEF CallOnly, ConnectorInv, ConnectorTypeOK
    <3>2. Authorized' /\ Pending' /\ Accounted'
      BY DEF ConnectorInv, Authorized, AdmittedWith, Pending, Accounted
    <3> QED BY <3>1, <3>2 DEF ConnectorInv
  <2>2. CASE ConnectorNext
    BY <2>2, FreezeKeepsInv, InvokeKeepsInv, CallKeepsInv, RemoteKeepsInv DEF ConnectorNext
  <2> QED BY <2>1, <2>2
<1> QED BY <1>1, <1>2, PTL DEF ConnectorSpec

\* What a Work is admitted with is all that the server of each connection listed,
\* each tool once, however the server splits or links its pages (mcp.ts:284-320).
THEOREM AdmittedWithAll == ConnectorSpec => []FrozenIsWhole
<1>1. ConnectorInv => FrozenIsWhole
  <2> SUFFICES ASSUME ConnectorInv, freeze.step = "done" PROVE FrozenIsWhole
    BY DEF FrozenIsWhole
  <2>1. Refs \in Seq(Connections) /\ frozen \in Seq(Snapshot) /\ Len(frozen) = Len(Refs)
    BY ConnectorAssumption DEF ConnectorInv, ConnectorTypeOK, Follows
  <2>2. [i \in DOMAIN frozen |-> frozen[i].of] = Refs
    BY <2>1 DEF ConnectorInv, Follows
  <2> QED BY <2>2 DEF ConnectorInv, Follows, Whole, FrozenIsWhole
<1> QED BY <1>1, ConnectorInvariant, PTL

\* A tool is called with the credential under which it was discovered, or not at
\* all, although the process restarts in between (mcp.ts:349-356).
THEOREM CredentialsStand == ConnectorSpec => []CalledAsAdmitted
<1>1. ConnectorInv => CalledAsAdmitted
  BY DEF ConnectorInv, Authorized, AdmittedWith, CalledAsAdmitted
<1> QED BY <1>1, ConnectorInvariant, PTL

\* A call that the caller takes for refused did not happen and never will; one that
\* it takes for answered happened, once (mcp.ts:365-418).
THEOREM CallsAreKnown == ConnectorSpec => Remote!CallSafety
<1>1. ConnectorInit => Remote!CallInit
  BY DEF ConnectorInit, NewCall, NewServer, Remote!CallInit
<1>2. ConnectorInv /\ [ConnectorNext]_connectorVars => [Remote!CallNext]_Remote!callVars
  <2> SUFFICES ASSUME ConnectorInv, [ConnectorNext]_connectorVars PROVE [Remote!CallNext]_Remote!callVars
    OBVIOUS
  <2> USE DEF ConnectorInv, ConnectorTypeOK, CallType, ServerType, Pending, Accounted, Remote!CallNext, Remote!callVars
  <2>1. CASE UNCHANGED connectorVars
    BY <2>1 DEF connectorVars
  <2>2. CASE StartFreeze \/ OpenSession \/ ListPage \/ ListLastPage \/ FailFreeze
    BY <2>2 DEF StartFreeze, OpenSession, ListPage, ListLastPage, FailFreeze, FreezeOnly
  <2>3. ASSUME NEW i \in DOMAIN frozen, Invoke(frozen[i])
        PROVE  [Remote!CallNext]_Remote!callVars
    BY <2>3 DEF Invoke, Remote!Call
  <2>4. CASE Resolve \/ Connect \/ Respond \/ FailCall
    BY <2>4 DEF Resolve, Connect, Respond, FailCall
  <2>5. CASE CloseSession
    BY <2>5 DEF CloseSession, Told, Remote!Refuse, Remote!Answer, Remote!GiveUp
  <2>6. CASE Receive
    BY <2>6 DEF Receive, Serve, Remote!Happens
  <2>7. CASE Perform
    BY <2>7 DEF Perform, Serve, Remote!Ends
  <2>8. CASE Elicit
    BY <2>8 DEF Elicit
  <2>9. CASE Restart
    BY <2>9 DEF Restart, Remote!GiveUp
  <2> QED BY <2>1, <2>2, <2>3, <2>4, <2>5, <2>6, <2>7, <2>8, <2>9 DEF ConnectorNext
<1> QED BY <1>1, <1>2, ConnectorInvariant, PTL DEF ConnectorSpec, Remote!CallSafety
=============================================================================
