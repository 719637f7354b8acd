------------------------------- MODULE HubToss -------------------------------
(***************************************************************************)
(* The hub side of echomail: messages that arrive from a peer or are       *)
(* written here are tossed into one hold queue per downstream node, and    *)
(* BinkP sessions drain the queues.  Several sessions run at once -- the   *)
(* listener's, which answers nodes that call in, and the poller's, which   *)
(* dials out -- and share nothing but the database, so every database      *)
(* transaction is one action here and everything a session keeps in memory *)
(* between two of them is its own.                                         *)
(*                                                                         *)
(* Sources: echomail/tosser.py, _do_poll and _do_poll_node of              *)
(* echomail/poller.py, _handle_connection and _import_pkt_payload of       *)
(* echomail/binkp_server.py, the hub routes of web/hub_admin.py and        *)
(* delete_message of web/echomail.py.                                      *)
(***************************************************************************)
EXTENDS Naturals

CONSTANTS
  Nodes,      \* downstream nodes (BinkPNode rows)
  Hub,        \* our upstream hub, a peer we poll and who may call in
  Local,      \* stands for no peer: mail written on this system
  Dialable,   \* the nodes with a binkp_host
  Addrs,      \* net/node addresses without their zone, as SEEN-BY has them
  BareAddr,   \* the zone-stripped address of every peer
  Areas,      \* echo areas
  SeenBys,    \* the SEEN-BY sets inbound mail may carry
  Workers,    \* threads that can hold a session, a web request or a composer
  MaxMsg,     \* bound: message ids
  MaxImport,  \* bound: messages one session brings in
  MaxEdits,   \* bound: operations of the sysop
  MaxFaults,  \* bound: processes that die or transactions that fail
  ReuseIds    \* the database hands out the id of a deleted newest row again

Ids == 1 .. MaxMsg
Peers == Nodes \union {Hub, Local}
Deliveries == Nodes \X Ids

ASSUME BoundsAssumption ==
  /\ MaxMsg \in Nat /\ MaxImport \in Nat /\ MaxEdits \in Nat /\ MaxFaults \in Nat
  /\ ReuseIds \in BOOLEAN

ASSUME PeersAssumption ==
  /\ Areas # {}
  /\ Hub # Local /\ Hub \notin Nodes /\ Local \notin Nodes
  /\ Dialable \subseteq Nodes
  /\ BareAddr \in [Nodes \union {Hub} -> Addrs]
  /\ SeenBys \subseteq SUBSET Addrs

VARIABLES
  stored,    \* ids of the EchomailMessage rows
  lastId,    \* the newest id the database has given out
  area,      \* area of every message
  seen,      \* SEEN-BY of every message
  subs,      \* <<node, area>>: the EchoAreaNode rows
  active,    \* nodes with is_active
  rows,      \* status of the BinkPHoldQueue row of every delivery
  ses,       \* what every worker is doing
  edits,     \* sysop operations so far
  faults     \* failures so far

(* Not in the program: what happened, for the properties to speak about.    *)
VARIABLES
  from,      \* the peer whose session brought a message in
  got,       \* deliveries whose node has received the message
  asked,     \* deliveries a catch-up or rescan asked for
  withdrawn, \* deliveries taken off the queue by the sysop
  expected,  \* deliveries due when their message was stored
  abandoned, \* messages whose session died or failed before it had tossed them
  cut,       \* messages whose session met a deleted one before it had tossed them
  overheard  \* messages collected by a session with another peer

dbVars == <<stored, lastId, area, seen, subs, active, rows>>
mailVars == <<stored, lastId, area, seen, from>>
boundVars == <<edits, faults>>
historyVars ==
  <<from, got, asked, withdrawn, expected, abandoned, cut, overheard>>
vars == <<dbVars, ses, boundVars, historyVars>>

-----------------------------------------------------------------------------
(* Sessions                                                                 *)

Session ==
  [pc    : {"idle", "open", "send", "mark", "recv", "import", "collect", "toss", "insert"},
   kind  : {"listen", "dial", "local", "admin"},
   peer  : Peers,
   batch : SUBSET Ids,           \* ids gathered for the outbound packet
   pkt   : SUBSET Ids,           \* those whose text the packet still carries
   acked : BOOLEAN,              \* the packet was acknowledged
   snap  : 0 .. MaxMsg,          \* newest inbound id before the import
   fresh : SUBSET Ids,           \* imported, still to be tossed
   cached : BOOLEAN,             \* no commit has expired them since they were read
   plan  : SUBSET Deliveries,    \* hold rows about to be inserted
   again : SUBSET Deliveries]    \* hold rows about to be made pending again

NoSession ==
  [pc |-> "idle", kind |-> "local", peer |-> Local, batch |-> {}, pkt |-> {},
   acked |-> FALSE, snap |-> 0, fresh |-> {}, cached |-> FALSE,
   plan |-> {}, again |-> {}]

Begin(w, kind, peer, pc) ==
  ses' = [ses EXCEPT ![w] = [NoSession EXCEPT !.pc = pc, !.kind = kind, !.peer = peer]]

Quit(w) == ses' = [ses EXCEPT ![w] = NoSession]

(* The session is done with its batch.                                      *)
EndSend(w, pc) ==
  ses' = [ses EXCEPT ![w].pc = pc, ![w].batch = {}, ![w].pkt = {}, ![w].acked = FALSE]

(* Mutant of Newest: the next id instead of the newest one.                 *)
NextFree(S) == 1 + CHOOSE m \in S \union {0} : \A k \in S : k <= m

Newest(S) == CHOOSE m \in S \union {0} : \A k \in S : k <= m

Inbound == {m \in stored : from[m] # Local}

(* Mutant of PendingFor: only areas the node is still subscribed to.        *)
PendingIfSubscribed(n) ==
  {m \in stored : n \in Nodes /\ rows[<<n, m>>] = "pending" /\ <<n, area[m]>> \in subs}

(* get_pending_for_node: rows whose message is gone are passed over.        *)
PendingFor(n) == {m \in stored : n \in Nodes /\ rows[<<n, m>>] = "pending"}

(* mark_sent_for_node: of the ids given, those still pending.               *)
MarkSent(n, batch) ==
  [d \in Deliveries |->
     IF d[1] = n /\ d[2] \in batch /\ rows[d] = "pending" THEN "sent" ELSE rows[d]]

(* Mutant of Exclude: SEEN-BY alone prevents loops.                         *)
ExcludeNobody(peer) == {}

(* exclude_peer_address: the zone-stripped address of the session's peer.   *)
Exclude(peer) == IF peer = Local THEN {} ELSE {BareAddr[peer]}

(* Mutant of Wanted: SEEN-BY entries never match.                           *)
WantedBlind(a, seenby, peer) ==
  {n \in active : <<n, a>> \in subs /\ BareAddr[n] \notin Exclude(peer)}

(* toss_message: the subscribers a message of area a goes to.               *)
Wanted(a, seenby, peer) ==
  {n \in active : /\ <<n, a>> \in subs
                  /\ BareAddr[n] \notin seenby
                  /\ BareAddr[n] \notin Exclude(peer)}

(* What the sender of a message expects of us, stated without addresses:    *)
(* every active subscriber but the peer it came from and those in SEEN-BY.  *)
Due(a, seenby, peer) ==
  {n \in active \ {peer} : <<n, a>> \in subs /\ BareAddr[n] \notin seenby}

(* With ReuseIds a new message can get the id of a deleted one; what is     *)
(* remembered of the old one is forgotten.                                  *)
Forget(D, new) == {d \in D : d[2] \notin new}

-----------------------------------------------------------------------------
Init ==
  /\ stored = {} /\ lastId = 0
  /\ area = [m \in Ids |-> CHOOSE a \in Areas : TRUE]
  /\ seen = [m \in Ids |-> {}]
  /\ subs \in SUBSET (Nodes \X Areas)
  /\ active \in SUBSET Nodes
  /\ rows = [d \in Deliveries |-> "none"]
  /\ ses = [w \in Workers |-> NoSession]
  /\ edits = 0 /\ faults = 0
  /\ from = [m \in Ids |-> Local]
  /\ got = {} /\ asked = {} /\ withdrawn = {} /\ expected = {}
  /\ abandoned = {} /\ cut = {} /\ overheard = {}

(* A peer calls in: only an active node gets past the handshake.            *)
Connect(w, p) ==
  /\ ses[w].pc = "idle"
  /\ p \in active \union {Hub}
  /\ Begin(w, "listen", p, "open")
  /\ UNCHANGED <<dbVars, boundVars, historyVars>>

(* The poller's timer or the Poll Now button dials out.                     *)
Dial(w, p) ==
  /\ ses[w].pc = "idle"
  /\ p \in Dialable \union {Hub}
  /\ Begin(w, "dial", p, "open")
  /\ UNCHANGED <<dbVars, boundVars, historyVars>>

(* Polling the hub takes up local messages; which of them it has not had is *)
(* its link's business, and only that they are held matters here.           *)
GatherForHub(w) ==
  /\ ses[w].pc = "open" /\ ses[w].kind = "dial" /\ ses[w].peer = Hub
  /\ \E batch \in SUBSET {m \in stored : from[m] = Local} :
       ses' = [ses EXCEPT ![w].pc = "recv", ![w].batch = batch]
  /\ UNCHANGED <<dbVars, boundVars, historyVars>>

(* Read the node's pending rows; dialling a node also notes which inbound   *)
(* messages there are.                                                      *)
Gather(w) ==
  /\ ses[w].pc = "open" /\ ~(ses[w].kind = "dial" /\ ses[w].peer = Hub)
  /\ LET p == ses[w].peer
         due == PendingFor(p)
     IN ses' = [ses EXCEPT ![w].pc = IF due = {} THEN "recv" ELSE "send",
                           ![w].batch = due,
                           ![w].pkt = due,
                           ![w].snap = IF ses[w].kind = "dial"
                                       THEN Newest(Inbound) ELSE 0]
  /\ UNCHANGED <<dbVars, boundVars, historyVars>>

(* The packet goes out as one file.  The listener stamps its rows at once,  *)
(* the poller when the whole session is over.                               *)
SendAccepted(w) ==
  /\ ses[w].pc = "send"
  /\ got' = got \union ({ses[w].peer} \X ses[w].pkt)
  /\ ses' = [ses EXCEPT ![w].acked = TRUE,
                        ![w].pc = IF ses[w].kind = "listen" THEN "mark" ELSE "recv"]
  /\ UNCHANGED <<dbVars, boundVars, from, asked, withdrawn, expected, abandoned, cut, overheard>>

(* The node keeps the file but its M_GOT does not arrive.                   *)
SendAckLost(w) ==
  /\ ses[w].pc = "send"
  /\ got' = got \union ({ses[w].peer} \X ses[w].pkt)
  /\ EndSend(w, "recv")
  /\ UNCHANGED <<dbVars, boundVars, from, asked, withdrawn, expected, abandoned, cut, overheard>>

(* Mutant of SendRefused: the batch is stamped whatever the node answered.  *)
SendRefusedStamps(w) ==
  /\ ses[w].pc = "send"
  /\ ses' = [ses EXCEPT ![w].pc = "mark"]
  /\ UNCHANGED <<dbVars, boundVars, historyVars>>

(* M_SKIP, M_ERR, or no answer in time.                                     *)
SendRefused(w) ==
  /\ ses[w].pc = "send"
  /\ EndSend(w, "recv")
  /\ UNCHANGED <<dbVars, boundVars, historyVars>>

(* The listener stamps before it reads the peer's files, the poller after   *)
(* it has imported them.                                                    *)
Mark(w) ==
  /\ ses[w].pc = "mark"
  /\ rows' = MarkSent(ses[w].peer, ses[w].batch)
  /\ EndSend(w, IF ses[w].kind = "listen" THEN "recv" ELSE "collect")
  /\ UNCHANGED <<stored, lastId, area, seen, subs, active, boundVars, historyVars>>

(* The peer's files are acknowledged and kept in memory; nothing is         *)
(* imported before the session has ended.  Polling the hub notes the        *)
(* inbound messages only now.                                               *)
Receive(w) ==
  /\ ses[w].pc = "recv"
  /\ ses' = [ses EXCEPT ![w].pc = "import",
                        ![w].snap = IF ses[w].kind = "dial" /\ ses[w].peer = Hub
                                    THEN Newest(Inbound) ELSE ses[w].snap]
  /\ UNCHANGED <<dbVars, boundVars, historyVars>>

(* The connection breaks: the session's result is thrown away.              *)
Drop(w) ==
  /\ ses[w].pc \in {"open", "send", "recv"}
  /\ Quit(w)
  /\ UNCHANGED <<dbVars, boundVars, historyVars>>

-----------------------------------------------------------------------------
(* Importing and tossing                                                    *)

(* The new rows of an import or of a composer, all of one commit.           *)
Store(new, sender, areaOf, seenOf) ==
  /\ lastId' = Newest({lastId} \union new)
  /\ stored' = stored \union new
  /\ area' = [m \in Ids |-> IF m \in new THEN areaOf[m] ELSE area[m]]
  /\ seen' = [m \in Ids |-> IF m \in new THEN seenOf[m] ELSE seen[m]]
  /\ from' = [m \in Ids |-> IF m \in new THEN sender ELSE from[m]]
  /\ got' = Forget(got, new)
  /\ asked' = Forget(asked, new)
  /\ withdrawn' = Forget(withdrawn, new)
  /\ abandoned' = abandoned \ new
  /\ cut' = cut \ new
  /\ overheard' = overheard \ new
  /\ expected' = Forget(expected, new) \union
                   {d \in Deliveries : /\ d[2] \in new
                                       /\ d[1] \in Due(areaOf[d[2]], seenOf[d[2]], sender)}

(* ses is the new value of ses but for packets that carry a deleted text.   *)
Repack(s, new) == [w \in Workers |-> [s[w] EXCEPT !.pkt = @ \ new]]

(* The listener's import commits on its own.  So does the poller's when a   *)
(* message names a local user, whose notification commits the session; when *)
(* none does its commit is the one of Mark or of the first Insert, which is *)
(* this behaviour with nothing in between.                                  *)
Import(w) ==
  /\ ses[w].pc = "import"
  /\ \E k \in 0 .. MaxImport :
       LET new == lastId + 1 .. lastId + k
       IN /\ lastId + k <= MaxMsg
          /\ \E areaOf \in [new -> Areas], seenOf \in [new -> SeenBys] :
               Store(new, ses[w].peer, areaOf, seenOf)
          /\ ses' = Repack([ses EXCEPT ![w].fresh = new,
                                       ![w].pc = IF ses[w].kind = "listen" THEN "toss"
                                                 ELSE IF ses[w].acked THEN "mark" ELSE "collect"],
                           new)
  /\ UNCHANGED <<subs, active, rows, boundVars>>

(* The poller reads the messages it is about to toss, whoever brought them. *)
TakeUp(w, found) ==
  /\ ses' = [ses EXCEPT ![w].pc = "toss", ![w].batch = {}, ![w].snap = 0,
                        ![w].fresh = found, ![w].cached = TRUE]
  /\ overheard' = overheard \union {m \in found : from[m] # ses[w].peer}

(* Mutant of Collect: the snapshot is taken after the import.               *)
CollectLate(w) ==
  /\ ses[w].pc = "collect"
  /\ TakeUp(w, {m \in Inbound : m > Newest(Inbound)})
  /\ UNCHANGED <<dbVars, boundVars, from, got, asked, withdrawn, expected, abandoned, cut>>

(* The poller tosses every inbound row newer than its snapshot, unless it   *)
(* imported nothing itself.                                                 *)
Collect(w) ==
  /\ ses[w].pc = "collect"
  /\ TakeUp(w, IF ses[w].fresh = {} THEN {} ELSE {m \in Inbound : m > ses[w].snap})
  /\ UNCHANGED <<dbVars, boundVars, from, got, asked, withdrawn, expected, abandoned, cut>>

(* toss_message up to its commit: read the message, its subscribers and the *)
(* rows there are; nothing is locked yet.                                   *)
Plan(m, peer) ==
  {d \in Deliveries : /\ d[2] = m
                      /\ d[1] \in Wanted(area[m], seen[m], peer)
                      /\ rows[d] = "none"}

FirstFresh(w, m) == m \in ses[w].fresh /\ \A k \in ses[w].fresh : m <= k

(* The messages are held as database objects.  A commit expires them, and   *)
(* the next look at one reads its row again; until then a message deleted   *)
(* in the meantime is tossed from memory.                                   *)
TossRead(w) ==
  /\ ses[w].pc = "toss"
  /\ \E m \in Ids :
       /\ FirstFresh(w, m)
       /\ m \in stored \/ ses[w].cached
       /\ LET plan == Plan(m, ses[w].peer)
          IN ses' = [ses EXCEPT ![w].fresh = @ \ {m},
                                ![w].plan = plan,
                                ![w].pc = IF plan = {} THEN "toss" ELSE "insert"]
  /\ UNCHANGED <<dbVars, boundVars, historyVars>>

(* The session meets a deleted message and tosses none of those it has left.*)
CutShort(w) ==
  /\ Quit(w)
  /\ cut' = cut \union ses[w].fresh
  /\ UNCHANGED <<dbVars, boundVars, from, got, asked, withdrawn, expected,
                 abandoned, overheard>>

(* Reading the id of a deleted message raises, out of the loop.             *)
TossRaises(w) ==
  /\ ses[w].pc = "toss" /\ ~ses[w].cached
  /\ \E m \in Ids : FirstFresh(w, m) /\ m \notin stored
  /\ CutShort(w)

(* So does stamping a batch with a deleted message in it, when a commit has *)
(* expired it or packing has given it a MSGID.                              *)
MarkRaises(w) ==
  /\ ses[w].pc = "mark" /\ ~(ses[w].batch \subseteq stored)
  /\ CutShort(w)

(* Polling the hub sets the stamps of what it has sent, and the query of    *)
(* Collect is the first to write them.                                      *)
CollectRaises(w) ==
  /\ ses[w].pc = "collect" /\ ~(ses[w].batch \subseteq stored)
  /\ CutShort(w)

(* The commit fails on the unique (node_id, message_id) when somebody else  *)
(* queued the delivery meanwhile, or on a row to update that is gone.       *)
Collides(w) ==
  \/ \E d \in ses[w].plan : rows[d] # "none"
  \/ \E d \in ses[w].again : rows[d] = "none"

Insert(w) ==
  /\ ses[w].pc = "insert"
  /\ ~Collides(w)
  /\ LET due == ses[w].plan \union ses[w].again
     IN /\ rows' = [d \in Deliveries |-> IF d \in due THEN "pending" ELSE rows[d]]
        /\ withdrawn' = withdrawn \ due
        /\ asked' = IF ses[w].kind = "admin" THEN asked \union due ELSE asked
  /\ ses' = [ses EXCEPT ![w].pc = "toss", ![w].plan = {}, ![w].again = {},
                        ![w].cached = FALSE]
  /\ UNCHANGED <<stored, lastId, area, seen, subs, active, boundVars,
                 from, got, expected, abandoned, cut, overheard>>

(* What a session has imported and not yet tossed is lost with it: a second *)
(* delivery of those messages would be dropped as a duplicate.              *)
Abandon(w) ==
  /\ Quit(w)
  /\ abandoned' = abandoned \union ses[w].fresh \union
                    {d[2] : d \in {e \in ses[w].plan : ses[w].kind # "admin"}}

(* The exception leaves the loop over the imported messages.                *)
InsertFails(w) ==
  /\ ses[w].pc = "insert"
  /\ Collides(w)
  /\ Abandon(w)
  /\ UNCHANGED <<dbVars, boundVars, from, got, asked, withdrawn, expected, cut, overheard>>

TossDone(w) ==
  /\ ses[w].pc = "toss" /\ ses[w].fresh = {}
  /\ Quit(w)
  /\ UNCHANGED <<dbVars, boundVars, historyVars>>

(* The process dies, or a commit fails for another reason.                  *)
Fail(w) ==
  /\ ses[w].pc # "idle" /\ faults < MaxFaults
  /\ faults' = faults + 1
  /\ Abandon(w)
  /\ UNCHANGED <<dbVars, edits, from, got, asked, withdrawn, expected, cut, overheard>>

(* A local user posts; the composer tosses the message itself.              *)
Compose(w, a) ==
  /\ ses[w].pc = "idle" /\ lastId < MaxMsg
  /\ LET new == {lastId + 1}
     IN /\ Store(new, Local, [m \in new |-> a], [m \in new |-> {}])
        /\ ses' = Repack([ses EXCEPT ![w] = [NoSession EXCEPT !.pc = "toss", !.fresh = new]],
                         new)
  /\ UNCHANGED <<subs, active, rows, boundVars>>

-----------------------------------------------------------------------------
(* The sysop                                                                *)

Edit == edits < MaxEdits /\ edits' = edits + 1

(* Mutant of CatchupRead: a rescan deletes the rows first and inserts them  *)
(* again in a second transaction.                                           *)
CatchupReadDeletes(w, n, a, force) ==
  /\ ses[w].pc = "idle" /\ Edit
  /\ <<n, a>> \in subs
  /\ LET here == {d \in {n} \X stored : area[d[2]] = a}
         plan == {d \in here : force \/ rows[d] = "none"}
     IN /\ plan # {}
        /\ rows' = [d \in Deliveries |-> IF d \in plan THEN "none" ELSE rows[d]]
        /\ ses' = [ses EXCEPT ![w] = [NoSession EXCEPT !.pc = "insert", !.kind = "admin",
                                                       !.plan = plan]]
  /\ UNCHANGED <<stored, lastId, area, seen, subs, active, faults, historyVars>>

(* toss_area_messages for one node: the web UI's catch-up, and with force   *)
(* AreaFix's %RESCAN, which makes rows already sent pending again.          *)
CatchupRead(w, n, a, force) ==
  /\ ses[w].pc = "idle" /\ Edit
  /\ <<n, a>> \in subs
  /\ LET here == {d \in {n} \X stored : area[d[2]] = a}
         plan == {d \in here : rows[d] = "none"}
         again == {d \in here : force /\ rows[d] = "sent"}
     IN /\ plan \union again # {}
        /\ ses' = [ses EXCEPT ![w] = [NoSession EXCEPT !.pc = "insert", !.kind = "admin",
                                                       !.plan = plan, !.again = again]]
  /\ UNCHANGED <<dbVars, faults, historyVars>>

Subscribe(n, a) ==
  /\ Edit /\ <<n, a>> \notin subs
  /\ subs' = subs \union {<<n, a>>}
  /\ UNCHANGED <<stored, lastId, area, seen, active, rows, ses, faults, historyVars>>

(* What is queued already stays queued.                                     *)
Unsubscribe(n, a) ==
  /\ Edit /\ <<n, a>> \in subs
  /\ subs' = subs \ {<<n, a>>}
  /\ expected' = {d \in expected : ~(d[1] = n /\ area[d[2]] = a)}
  /\ UNCHANGED <<stored, lastId, area, seen, active, rows, ses, faults,
                 from, got, asked, withdrawn, abandoned, cut, overheard>>

SetActive(n, on) ==
  /\ Edit /\ on # (n \in active)
  /\ active' = IF on THEN active \union {n} ELSE active \ {n}
  /\ expected' = IF on THEN expected ELSE {d \in expected : d[1] # n}
  /\ UNCHANGED <<stored, lastId, area, seen, subs, rows, ses, faults,
                 from, got, asked, withdrawn, abandoned, cut, overheard>>

Pending == {d \in Deliveries : rows[d] = "pending"}

FlushQueue(n) ==
  /\ Edit
  /\ LET gone == {d \in Pending : d[1] = n}
     IN /\ gone # {}
        /\ rows' = [d \in Deliveries |-> IF d \in gone THEN "none" ELSE rows[d]]
        /\ withdrawn' = withdrawn \union gone
  /\ UNCHANGED <<stored, lastId, area, seen, subs, active, ses, faults,
                 from, got, asked, expected, abandoned, cut, overheard>>

(* All hold rows of the message go with it, the sent ones too.              *)
DeleteMessage(m) ==
  /\ Edit /\ m \in stored
  /\ stored' = stored \ {m}
  /\ lastId' = IF ReuseIds THEN Newest(stored \ {m}) ELSE lastId
  /\ rows' = [d \in Deliveries |-> IF d[2] = m THEN "none" ELSE rows[d]]
  /\ withdrawn' = withdrawn \union {d \in Pending : d[2] = m}
  /\ UNCHANGED <<area, seen, subs, active, ses, faults, from, got, asked, expected,
                 abandoned, cut, overheard>>

-----------------------------------------------------------------------------
SessionStep(w) ==
  \/ Gather(w) \/ GatherForHub(w) \/ SendAccepted(w) \/ SendAckLost(w)
  \/ SendRefused(w) \/ Mark(w) \/ Receive(w) \/ Drop(w)
  \/ Import(w) \/ Collect(w) \/ TossRead(w) \/ Insert(w) \/ InsertFails(w) \/ TossDone(w)
  \/ MarkRaises(w) \/ CollectRaises(w) \/ TossRaises(w)

Sysop ==
  \/ \E n \in Nodes, a \in Areas : Subscribe(n, a) \/ Unsubscribe(n, a)
  \/ \E n \in Nodes, on \in BOOLEAN : SetActive(n, on)
  \/ \E n \in Nodes : FlushQueue(n)
  \/ \E m \in Ids : DeleteMessage(m)

Next ==
  \/ \E w \in Workers :
       \/ SessionStep(w) \/ Fail(w)
       \/ \E p \in Nodes \union {Hub} : Connect(w, p) \/ Dial(w, p)
       \/ \E a \in Areas : Compose(w, a)
       \/ \E n \in Nodes, a \in Areas, force \in BOOLEAN : CatchupRead(w, n, a, force)
  \/ Sysop

Spec == Init /\ [][Next]_vars

(* Fairness for runs without faults.  A session that has begun goes on: its *)
(* threads are scheduled and its waits have timeouts.  An active node keeps *)
(* calling in, and a node that keeps calling cannot be refused or cut off   *)
(* forever.                                                                 *)
Serving(w, n) == ses[w].peer = n /\ ses[w].kind = "listen"

Fairness ==
  /\ \A w \in Workers : WF_vars(SessionStep(w))
  /\ \A n \in Nodes :
       /\ SF_vars(\E w \in Workers : Connect(w, n))
       /\ SF_vars(\E w \in Workers : Serving(w, n) /\ Gather(w))
       /\ SF_vars(\E w \in Workers : Serving(w, n) /\ SendAccepted(w))

FairSpec == Spec /\ Fairness

-----------------------------------------------------------------------------
(* Properties                                                               *)

TypeOK ==
  /\ stored \subseteq Ids
  /\ lastId \in 0 .. MaxMsg
  /\ area \in [Ids -> Areas]
  /\ seen \in [Ids -> SUBSET Addrs]
  /\ subs \subseteq Nodes \X Areas
  /\ active \subseteq Nodes
  /\ rows \in [Deliveries -> {"none", "pending", "sent"}]
  /\ ses \in [Workers -> Session]
  /\ edits \in 0 .. MaxEdits
  /\ faults \in 0 .. MaxFaults
  /\ from \in [Ids -> Peers]
  /\ got \subseteq Deliveries
  /\ asked \subseteq Deliveries
  /\ withdrawn \subseteq Deliveries
  /\ expected \subseteq Deliveries
  /\ abandoned \subseteq Ids /\ cut \subseteq Ids /\ overheard \subseteq Ids

(* A hold row is stamped sent only when its node has received the message:  *)
(* no lost acknowledgement, refused packet, second session with the node,   *)
(* flush, rescan or crash makes the hub drop mail nobody got                *)
(* (mark_sent_for_node and the ack gating of its three callers).            *)
SentImpliesReceived == \A d \in Deliveries : rows[d] = "sent" => d \in got

(* No node is queued a message whose SEEN-BY lists it, whatever sessions    *)
(* toss the message, unless a catch-up or rescan, which do not look at      *)
(* SEEN-BY, asked for it (toss_message).                                    *)
LoopFree ==
  \A d \in Deliveries :
    rows[d] # "none" /\ BareAddr[d[1]] \in seen[d[2]] => d \in asked

(* No node is queued a message it brought in itself, even if it left its    *)
(* own address out of SEEN-BY, unless a catch-up or rescan asked for it, or *)
(* the poller, talking to another peer, collected what this one had brought *)
(* to the listener and excluded the wrong address (exclude_peer_address of  *)
(* toss_message, pre_import_max of the poller).                             *)
NoBounce ==
  \A d \in Deliveries :
    rows[d] # "none" /\ from[d[2]] = d[1] => d \in asked \/ d[2] \in overheard

InHand(d) == \E w \in Workers : d[2] \in ses[w].fresh \/ d \in ses[w].plan

Settled(d) == rows[d] # "none" \/ d \in withdrawn \/ d[2] \notin stored

(* Every stored message is queued for every subscriber it was due to, or a  *)
(* session still has it in hand; or the session that had it died or lost a  *)
(* race on the unique constraint, or met an older message that had been     *)
(* deleted: nothing else loses a delivery (_import_pkt_payload, _do_poll,   *)
(* _do_poll_node and toss_message).                                         *)
FanOutComplete ==
  \A d \in expected :
    \/ Settled(d) \/ InHand(d) \/ d[2] \in abandoned
    \/ d[2] \in cut /\ \E k \in 1 .. d[2] - 1 : k \notin stored

(* A delivery the hub has queued is never forgotten: it stays queued until  *)
(* its node has received it or a sysop withdrew it.                         *)
Promise == INSTANCE Forwarding WITH owed <- Pending, received <- got
ForwardingSpec == Promise!Spec

(* Every queued delivery is settled in the end, if its node stays active    *)
(* and keeps calling: no order of refusals, cut connections, imports and    *)
(* sysop edits leaves a row pending for ever.                               *)
PendingSettled ==
  \A d \in Deliveries :
    (rows[d] = "pending" /\ d[2] \in stored /\ d[1] \in active) ~>
      (rows[d] # "pending" \/ d[2] \notin stored \/ d[1] \notin active)
=============================================================================
