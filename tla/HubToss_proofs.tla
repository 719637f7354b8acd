--------------------------- MODULE HubToss_proofs ---------------------------
EXTENDS HubToss, WellFoundedInduction, TLAPS

(* Newest returns the largest element of a set of ids, and 0 of an empty    *)
(* one.                                                                     *)
LEMMA NewestIsLargest ==
  ASSUME NEW S \in SUBSET (0 .. MaxMsg)
  PROVE  /\ Newest(S) \in S \union {0}
         /\ \A k \in S : k <= Newest(S)
<1> DEFINE below == {MaxMsg - m : m \in S \union {0}}
           less == OpToRel(<, Nat)
<1>1. MaxMsg \in Nat
  BY BoundsAssumption
<1>2. below \subseteq Nat /\ below # {}
  BY <1>1, SMT
<1>3. PICK x \in below : \A y \in below : <<y, x>> \notin less
  <2> HIDE DEF below
  <2> QED BY <1>2, WFMin, NatLessThanWellFounded, Zenon
<1>4. \A y \in below : ~(y < x)
  BY <1>2, <1>3 DEF OpToRel
<1>5. PICK m \in S \union {0} : x = MaxMsg - m
  OBVIOUS
<1>6. \A k \in S \union {0} : k <= m
  <2> TAKE k \in S \union {0}
  <2>1. ~(MaxMsg - k < MaxMsg - m)
    BY <1>4, <1>5
  <2> QED BY <2>1, <1>1, SMT
<1>7. QED
  BY <1>6 DEF Newest

-----------------------------------------------------------------------------
(* Types                                                                    *)

(* Only a session with a node has a packet to send.                         *)
PacketForNode == \A w \in Workers : ses[w].pkt # {} => ses[w].peer \in Nodes

TypeInv == TypeOK /\ PacketForNode

LEMMA NoSessionType == NoSession \in Session
BY BoundsAssumption DEF NoSession, Session, Peers

LEMMA SessionOf == ASSUME TypeOK, NEW w \in Workers PROVE ses[w] \in Session
BY DEF TypeOK

LEMMA InitType == Init => TypeInv
<1> SUFFICES ASSUME Init PROVE TypeInv
  OBVIOUS
<1>1. area \in [Ids -> Areas]
  BY PeersAssumption DEF Init
<1>2. ses \in [Workers -> Session]
  BY NoSessionType DEF Init
<1>3. PacketForNode
  BY DEF Init, PacketForNode, NoSession
<1>4. from \in [Ids -> Peers] /\ seen \in [Ids -> SUBSET Addrs] /\ lastId \in 0 .. MaxMsg
  BY BoundsAssumption DEF Init, Peers
<1>5. rows \in [Deliveries -> {"none", "pending", "sent"}]
  BY DEF Init
<1>6. edits \in 0 .. MaxEdits /\ faults \in 0 .. MaxFaults
  BY BoundsAssumption DEF Init
<1>7. QED
  BY <1>1, <1>2, <1>3, <1>4, <1>5, <1>6 DEF Init, TypeInv, TypeOK

(* What every step that begins, changes or ends a session does to ses.      *)
LEMMA SessionStepType ==
  ASSUME TypeInv, NEW w \in Workers, NEW r \in Session,
         r.pkt # {} => r.peer \in Nodes,
         ses' = [ses EXCEPT ![w] = r]
  PROVE  ses' \in [Workers -> Session] /\ PacketForNode'
BY DEF TypeInv, TypeOK, PacketForNode

LEMMA QuitType ==
  ASSUME TypeInv, NEW w \in Workers, Quit(w)
  PROVE  ses' \in [Workers -> Session] /\ PacketForNode'
<1>1. NoSession.pkt = {}
  BY DEF NoSession
<1>2. QED
  BY <1>1, NoSessionType, SessionStepType DEF Quit

LEMMA BeginType ==
  ASSUME TypeInv, NEW w \in Workers, NEW kind \in {"listen", "dial"}, NEW p \in Peers,
         Begin(w, kind, p, "open")
  PROVE  ses' \in [Workers -> Session] /\ PacketForNode'
<1> DEFINE r == [NoSession EXCEPT !.pc = "open", !.kind = kind, !.peer = p]
<1>1. r \in Session /\ r.pkt = {}
  BY NoSessionType DEF NoSession, Session
<1>2. ses' = [ses EXCEPT ![w] = r]
  BY DEF Begin
<1> HIDE DEF r
<1>3. QED
  BY <1>1, <1>2, SessionStepType

LEMMA EndSendType ==
  ASSUME TypeInv, NEW w \in Workers, NEW pc \in {"recv", "collect"}, EndSend(w, pc)
  PROVE  ses' \in [Workers -> Session] /\ PacketForNode'
<1> DEFINE r == [ses[w] EXCEPT !.pc = pc, !.batch = {}, !.pkt = {}, !.acked = FALSE]
<1>1. r \in Session /\ r.pkt = {}
  BY SessionOf DEF TypeInv, Session
<1>2. ses' = [ses EXCEPT ![w] = r]
  BY DEF EndSend
<1> HIDE DEF r
<1>3. QED
  BY <1>1, <1>2, SessionStepType

(* What every commit of new messages does to the types.                     *)
LEMMA StoreType ==
  ASSUME TypeInv, NEW new \in SUBSET Ids, NEW sender \in Peers,
         NEW areaOf \in [new -> Areas], NEW seenOf \in [new -> SUBSET Addrs],
         Store(new, sender, areaOf, seenOf)
  PROVE  /\ stored' \subseteq Ids /\ lastId' \in 0 .. MaxMsg
         /\ area' \in [Ids -> Areas] /\ seen' \in [Ids -> SUBSET Addrs]
         /\ from' \in [Ids -> Peers]
         /\ got' \subseteq Deliveries /\ asked' \subseteq Deliveries
         /\ withdrawn' \subseteq Deliveries /\ expected' \subseteq Deliveries
         /\ abandoned' \subseteq Ids /\ cut' \subseteq Ids /\ overheard' \subseteq Ids
<1>1. {lastId} \union new \in SUBSET (0 .. MaxMsg)
  BY BoundsAssumption DEF TypeInv, TypeOK, Ids
<1>2. lastId' \in 0 .. MaxMsg
  BY <1>1, NewestIsLargest, BoundsAssumption DEF Store
<1>3. area' \in [Ids -> Areas] /\ seen' \in [Ids -> SUBSET Addrs] /\ from' \in [Ids -> Peers]
  BY DEF Store, TypeInv, TypeOK
<1>4. /\ stored' \subseteq Ids /\ abandoned' \subseteq Ids
      /\ cut' \subseteq Ids /\ overheard' \subseteq Ids
      /\ got' \subseteq Deliveries /\ asked' \subseteq Deliveries
      /\ withdrawn' \subseteq Deliveries /\ expected' \subseteq Deliveries
  BY DEF Store, TypeInv, TypeOK, Forget
<1>5. QED
  BY <1>2, <1>3, <1>4

(* Taking texts out of packets changes no type.                             *)
LEMMA RepackType ==
  ASSUME NEW s \in [Workers -> Session], NEW new,
         \A w \in Workers : s[w].pkt # {} => s[w].peer \in Nodes,
         ses' = Repack(s, new)
  PROVE  ses' \in [Workers -> Session] /\ PacketForNode'
<1>1. \A w \in Workers : /\ [s[w] EXCEPT !.pkt = @ \ new] \in Session
                        /\ [s[w] EXCEPT !.pkt = @ \ new].pkt \subseteq s[w].pkt
                        /\ [s[w] EXCEPT !.pkt = @ \ new].peer = s[w].peer
  BY DEF Session
<1>2. \A w \in Workers : ses'[w] = [s[w] EXCEPT !.pkt = @ \ new]
  BY DEF Repack
<1>3. ses' \in [Workers -> Session]
  BY <1>1, Zenon DEF Repack
<1>4. QED
  BY <1>1, <1>2, <1>3 DEF PacketForNode

LEMMA PendingForType ==
  ASSUME TypeInv, NEW p
  PROVE  PendingFor(p) \subseteq Ids /\ (PendingFor(p) # {} => p \in Nodes)
BY DEF PendingFor, TypeInv, TypeOK

LEMMA NewestInboundType ==
  ASSUME TypeInv
  PROVE  Newest(Inbound) \in 0 .. MaxMsg
<1>1. Inbound \subseteq Ids
  BY DEF Inbound, TypeInv, TypeOK
<1>2. Ids \subseteq 0 .. MaxMsg /\ 0 \in 0 .. MaxMsg
  BY BoundsAssumption DEF Ids
<1>3. Newest(Inbound) \in Inbound \union {0}
  BY <1>1, <1>2, NewestIsLargest
<1>4. QED
  BY <1>1, <1>2, <1>3

(* Sessions: the steps that send and receive.                               *)
LEMMA SendStepsType ==
  ASSUME TypeInv, NEW w \in Workers,
         \/ Gather(w) \/ GatherForHub(w) \/ SendAccepted(w) \/ SendAckLost(w)
         \/ SendRefused(w) \/ Mark(w) \/ Receive(w) \/ Drop(w)
  PROVE  TypeInv'
<1> USE DEF TypeInv, dbVars, boundVars, historyVars
<1>1. CASE Gather(w)
  <2> DEFINE due == PendingFor(ses[w].peer)
             snap == IF ses[w].kind = "dial" THEN Newest(Inbound) ELSE 0
             r == [ses[w] EXCEPT !.pc = IF due = {} THEN "recv" ELSE "send",
                                 !.batch = due, !.pkt = due, !.snap = snap]
  <2>1. snap \in 0 .. MaxMsg
    BY NewestInboundType, BoundsAssumption
  <2>2. due \subseteq Ids /\ (due # {} => ses[w].peer \in Nodes)
    BY PendingForType
  <2>3. ses' = [ses EXCEPT ![w] = r]
    BY <1>1 DEF Gather
  <2> HIDE DEF due, snap
  <2>4. r \in Session /\ r.pkt = due /\ r.peer = ses[w].peer
    BY <2>1, <2>2, SessionOf DEF Session
  <2> HIDE DEF r
  <2>5. ses' \in [Workers -> Session] /\ PacketForNode'
    BY <2>2, <2>3, <2>4, SessionStepType
  <2>6. QED
    BY <1>1, <2>5 DEF Gather, TypeOK
<1>2. CASE SendAccepted(w)
  <2> DEFINE r == [ses[w] EXCEPT !.acked = TRUE,
                                 !.pc = IF ses[w].kind = "listen" THEN "mark" ELSE "recv"]
  <2>1. ses' = [ses EXCEPT ![w] = r]
    BY <1>2 DEF SendAccepted
  <2>2. r \in Session /\ r.pkt = ses[w].pkt /\ r.peer = ses[w].peer
    BY SessionOf DEF Session
  <2> HIDE DEF r
  <2>3. ses' \in [Workers -> Session] /\ PacketForNode'
    BY <2>1, <2>2, SessionStepType DEF PacketForNode
  <2>4. {ses[w].peer} \X ses[w].pkt \subseteq Deliveries
    BY DEF PacketForNode, TypeOK, Session, Deliveries
  <2>5. QED
    BY <1>2, <2>3, <2>4 DEF SendAccepted, TypeOK
<1>3. CASE SendAckLost(w)
  <2>1. ses' \in [Workers -> Session] /\ PacketForNode'
    BY <1>3, EndSendType DEF SendAckLost
  <2>2. {ses[w].peer} \X ses[w].pkt \subseteq Deliveries
    BY DEF PacketForNode, TypeOK, Session, Deliveries
  <2>3. QED
    BY <1>3, <2>1, <2>2 DEF SendAckLost, TypeOK
<1>4. CASE SendRefused(w)
  <2>1. ses' \in [Workers -> Session] /\ PacketForNode'
    BY <1>4, EndSendType DEF SendRefused
  <2>2. QED
    BY <1>4, <2>1 DEF SendRefused, TypeOK
<1>5. CASE Mark(w)
  <2>1. ses' \in [Workers -> Session] /\ PacketForNode'
    BY <1>5, EndSendType DEF Mark
  <2>2. rows' \in [Deliveries -> {"none", "pending", "sent"}]
    BY <1>5 DEF Mark, MarkSent, TypeOK
  <2>3. QED
    BY <1>5, <2>1, <2>2 DEF Mark, TypeOK
<1>6. CASE Receive(w)
  <2> DEFINE snap == IF ses[w].kind = "dial" /\ ses[w].peer = Hub
                     THEN Newest(Inbound) ELSE ses[w].snap
             r == [ses[w] EXCEPT !.pc = "import", !.snap = snap]
  <2>1. snap \in 0 .. MaxMsg
    BY NewestInboundType DEF TypeOK, Session
  <2>2. ses' = [ses EXCEPT ![w] = r]
    BY <1>6 DEF Receive
  <2> HIDE DEF snap
  <2>3. r \in Session /\ r.pkt = ses[w].pkt /\ r.peer = ses[w].peer
    BY <2>1, SessionOf DEF Session
  <2> HIDE DEF r
  <2>4. ses' \in [Workers -> Session] /\ PacketForNode'
    BY <2>2, <2>3, SessionStepType DEF PacketForNode
  <2>5. QED
    BY <1>6, <2>4 DEF Receive, TypeOK
<1>7. CASE Drop(w)
  <2>1. ses' \in [Workers -> Session] /\ PacketForNode'
    BY <1>7, QuitType DEF Drop
  <2>2. QED
    BY <1>7, <2>1 DEF Drop, TypeOK
<1>8. CASE GatherForHub(w)
  <2>1. PICK batch \in SUBSET {m \in stored : from[m] = Local} :
          ses' = [ses EXCEPT ![w].pc = "recv", ![w].batch = batch]
    BY <1>8 DEF GatherForHub
  <2> DEFINE r == [ses[w] EXCEPT !.pc = "recv", !.batch = batch]
  <2>2. batch \subseteq Ids
    BY DEF TypeOK
  <2>3. ses' = [ses EXCEPT ![w] = r]
    BY <2>1
  <2>4. r \in Session /\ r.pkt = ses[w].pkt /\ r.peer = ses[w].peer
    BY <2>2, SessionOf DEF Session
  <2> HIDE DEF r
  <2>5. ses' \in [Workers -> Session] /\ PacketForNode'
    BY <2>3, <2>4, SessionStepType DEF PacketForNode
  <2>6. QED
    BY <1>8, <2>5 DEF GatherForHub, TypeOK
<1>9. QED
  BY <1>1, <1>2, <1>3, <1>4, <1>5, <1>6, <1>7, <1>8

LEMMA NewIdsType ==
  ASSUME TypeInv, NEW k \in Nat, lastId + k <= MaxMsg
  PROVE  lastId + 1 .. lastId + k \subseteq Ids
BY BoundsAssumption DEF TypeInv, TypeOK, Ids

(* Sessions: the steps that import and toss.                                *)
LEMMA ImportType ==
  ASSUME TypeInv, NEW w \in Workers, Import(w)
  PROVE  TypeInv'
<1> DEFINE pc == IF ses[w].kind = "listen" THEN "toss"
                 ELSE IF ses[w].acked THEN "mark" ELSE "collect"
           News(k) == lastId + 1 .. lastId + k
<1>1. PICK k \in 0 .. MaxImport :
        /\ lastId + k <= MaxMsg
        /\ \E areaOf \in [News(k) -> Areas], seenOf \in [News(k) -> SeenBys] :
             Store(News(k), ses[w].peer, areaOf, seenOf)
        /\ ses' = Repack([ses EXCEPT ![w].fresh = News(k), ![w].pc = pc], News(k))
  BY DEF Import
<1> DEFINE new == News(k)
           r == [ses[w] EXCEPT !.fresh = new, !.pc = pc]
           s == [ses EXCEPT ![w] = r]
<1>2. new \in SUBSET Ids
  BY <1>1, NewIdsType, BoundsAssumption
<1> HIDE DEF News
<1>3. PICK areaOf \in [new -> Areas], seenOf \in [new -> SUBSET Addrs] :
        Store(new, ses[w].peer, areaOf, seenOf)
  BY <1>1, PeersAssumption
<1>4. ses[w].peer \in Peers
  BY DEF TypeInv, TypeOK, Session
<1>5. pc \in {"toss", "mark", "collect"}
  OBVIOUS
<1> HIDE DEF pc, new
<1>6. ses' = Repack(s, new)
  <2>1. s = [ses EXCEPT ![w].fresh = new, ![w].pc = pc]
    BY DEF TypeInv, TypeOK
  <2>2. QED
    BY <1>1, <2>1, Zenon DEF new
<1>7. r \in Session /\ r.pkt = ses[w].pkt /\ r.peer = ses[w].peer
  BY <1>2, <1>5, SessionOf DEF TypeInv, Session
<1> HIDE DEF r
<1>8. s \in [Workers -> Session] /\ \A v \in Workers : s[v].pkt # {} => s[v].peer \in Nodes
  BY <1>7 DEF TypeInv, TypeOK, PacketForNode
<1> HIDE DEF s
<1>9. ses' \in [Workers -> Session] /\ PacketForNode'
  BY <1>6, <1>8, RepackType
<1>10. UNCHANGED <<subs, active, rows, boundVars>>
  BY DEF Import
<1>11. QED
  BY <1>2, <1>3, <1>4, <1>9, <1>10, StoreType DEF TypeInv, TypeOK, boundVars

LEMMA PlanType == \A m, p : Plan(m, p) \subseteq Deliveries
BY DEF Plan

LEMMA TossStepsType ==
  ASSUME TypeInv, NEW w \in Workers,
         \/ Collect(w) \/ TossRead(w) \/ Insert(w) \/ InsertFails(w) \/ TossDone(w)
         \/ MarkRaises(w) \/ CollectRaises(w) \/ TossRaises(w) \/ Fail(w)
  PROVE  TypeInv'
<1> USE DEF TypeInv, dbVars, boundVars, historyVars
<1>1. CASE Collect(w)
  <2> DEFINE fresh == IF ses[w].fresh = {} THEN {} ELSE {m \in Inbound : m > ses[w].snap}
             r == [ses[w] EXCEPT !.pc = "toss", !.batch = {}, !.snap = 0, !.fresh = fresh,
                                 !.cached = TRUE]
  <2>1. fresh \subseteq Ids /\ 0 \in 0 .. MaxMsg
    BY BoundsAssumption DEF Inbound, TypeOK
  <2>2. /\ ses' = [ses EXCEPT ![w] = r]
        /\ overheard' = overheard \union {m \in fresh : from[m] # ses[w].peer}
    BY <1>1 DEF Collect, TakeUp
  <2> HIDE DEF fresh
  <2>3. r \in Session /\ r.pkt = ses[w].pkt /\ r.peer = ses[w].peer
    BY <2>1, SessionOf DEF Session
  <2> HIDE DEF r
  <2>4. ses' \in [Workers -> Session] /\ PacketForNode'
    BY <2>2, <2>3, SessionStepType DEF PacketForNode
  <2>5. QED
    BY <1>1, <2>1, <2>2, <2>4 DEF Collect, TypeOK
<1>2. CASE TossRead(w)
  <2>1. PICK m \in Ids :
          ses' = [ses EXCEPT ![w].fresh = @ \ {m}, ![w].plan = Plan(m, ses[w].peer),
                             ![w].pc = IF Plan(m, ses[w].peer) = {} THEN "toss" ELSE "insert"]
    BY <1>2 DEF TossRead
  <2> DEFINE plan == Plan(m, ses[w].peer)
             r == [ses[w] EXCEPT !.fresh = @ \ {m}, !.plan = plan,
                                 !.pc = IF plan = {} THEN "toss" ELSE "insert"]
  <2>2. plan \subseteq Deliveries
    BY PlanType
  <2>3. ses' = [ses EXCEPT ![w] = r]
    BY <2>1
  <2> HIDE DEF plan
  <2>4. r \in Session /\ r.pkt = ses[w].pkt /\ r.peer = ses[w].peer
    BY <2>2, SessionOf DEF Session
  <2> HIDE DEF r
  <2>5. ses' \in [Workers -> Session] /\ PacketForNode'
    BY <2>3, <2>4, SessionStepType DEF PacketForNode
  <2>6. QED
    BY <1>2, <2>5 DEF TossRead, TypeOK
<1>3. CASE Insert(w)
  <2> DEFINE r == [ses[w] EXCEPT !.pc = "toss", !.plan = {}, !.again = {}, !.cached = FALSE]
             due == ses[w].plan \union ses[w].again
  <2>1. ses' = [ses EXCEPT ![w] = r]
    BY <1>3 DEF Insert
  <2>2. r \in Session /\ r.pkt = ses[w].pkt /\ r.peer = ses[w].peer
    BY SessionOf DEF Session
  <2> HIDE DEF r
  <2>3. ses' \in [Workers -> Session] /\ PacketForNode'
    BY <2>1, <2>2, SessionStepType DEF PacketForNode
  <2>4. due \subseteq Deliveries
    BY SessionOf DEF Session
  <2>5. /\ rows' = [d \in Deliveries |-> IF d \in due THEN "pending" ELSE rows[d]]
        /\ withdrawn' = withdrawn \ due
        /\ asked' = IF ses[w].kind = "admin" THEN asked \union due ELSE asked
    BY <1>3 DEF Insert
  <2> HIDE DEF due
  <2>6. /\ rows' \in [Deliveries -> {"none", "pending", "sent"}]
        /\ withdrawn' \subseteq Deliveries /\ asked' \subseteq Deliveries
    BY <2>4, <2>5 DEF TypeOK
  <2>7. QED
    BY <1>3, <2>3, <2>6 DEF Insert, TypeOK
<1>4. ASSUME Abandon(w)
      PROVE  ses' \in [Workers -> Session] /\ PacketForNode' /\ abandoned' \subseteq Ids
  <2>1. ses' \in [Workers -> Session] /\ PacketForNode'
    BY <1>4, QuitType DEF Abandon
  <2>2. ses[w].fresh \subseteq Ids /\ ses[w].plan \subseteq Deliveries
    BY SessionOf DEF Session
  <2>3. \A d \in ses[w].plan : d[2] \in Ids
    BY <2>2 DEF Deliveries
  <2>4. QED
    BY <1>4, <2>1, <2>2, <2>3 DEF Abandon, TypeOK
<1>5. CASE InsertFails(w)
  BY <1>4, <1>5 DEF InsertFails, TypeOK
<1>6. CASE TossDone(w)
  <2>1. ses' \in [Workers -> Session] /\ PacketForNode'
    BY <1>6, QuitType DEF TossDone
  <2>2. QED
    BY <1>6, <2>1 DEF TossDone, TypeOK
<1>7. CASE Fail(w)
  <2>1. faults' \in 0 .. MaxFaults
    BY <1>7, BoundsAssumption DEF Fail, TypeOK
  <2>2. QED
    BY <1>4, <1>7, <2>1 DEF Fail, TypeOK
<1>8. CASE MarkRaises(w) \/ CollectRaises(w) \/ TossRaises(w)
  <2>1. CutShort(w)
    BY <1>8 DEF MarkRaises, CollectRaises, TossRaises
  <2>2. ses' \in [Workers -> Session] /\ PacketForNode'
    BY <2>1, QuitType DEF CutShort
  <2>3. ses[w].fresh \subseteq Ids
    BY SessionOf DEF Session
  <2>4. QED
    BY <2>1, <2>2, <2>3 DEF CutShort, TypeOK
<1>9. QED
  BY <1>1, <1>2, <1>3, <1>5, <1>6, <1>7, <1>8

(* What takes up an idle worker.                                            *)
LEMMA StartStepsType ==
  ASSUME TypeInv, NEW w \in Workers,
         \/ \E p \in Nodes \union {Hub} : Connect(w, p) \/ Dial(w, p)
         \/ \E a \in Areas : Compose(w, a)
         \/ \E n \in Nodes, a \in Areas, force \in BOOLEAN : CatchupRead(w, n, a, force)
  PROVE  TypeInv'
<1> USE DEF TypeInv, dbVars, boundVars, historyVars
<1>1. ASSUME NEW p \in Nodes \union {Hub}, Connect(w, p) \/ Dial(w, p)
      PROVE  TypeInv'
  <2>1. ses' \in [Workers -> Session] /\ PacketForNode'
    BY <1>1, BeginType DEF Connect, Dial, Peers
  <2>2. QED
    BY <1>1, <2>1 DEF Connect, Dial, TypeOK
<1>2. ASSUME NEW a \in Areas, Compose(w, a)
      PROVE  TypeInv'
  <2> DEFINE new == {lastId + 1}
             r == [NoSession EXCEPT !.pc = "toss", !.fresh = new]
             s == [ses EXCEPT ![w] = r]
  <2>1. new \in SUBSET Ids
    BY <1>2, BoundsAssumption DEF Compose, TypeOK, Ids
  <2>2. Store(new, Local, [m \in new |-> a], [m \in new |-> {}])
    BY <1>2 DEF Compose
  <2>3. ses' = Repack(s, new)
    BY <1>2 DEF Compose
  <2> HIDE DEF new
  <2>4. r \in Session /\ r.pkt = {}
    BY <2>1, NoSessionType DEF NoSession, Session
  <2> HIDE DEF r
  <2>5. s \in [Workers -> Session] /\ \A v \in Workers : s[v].pkt # {} => s[v].peer \in Nodes
    BY <2>4 DEF TypeOK, PacketForNode
  <2> HIDE DEF s
  <2>6. ses' \in [Workers -> Session] /\ PacketForNode'
    BY <2>3, <2>5, RepackType
  <2>7. /\ [m \in new |-> a] \in [new -> Areas]
        /\ [m \in new |-> {}] \in [new -> SUBSET Addrs]
        /\ Local \in Peers
    BY DEF Peers
  <2>8. /\ stored' \subseteq Ids /\ lastId' \in 0 .. MaxMsg
        /\ area' \in [Ids -> Areas] /\ seen' \in [Ids -> SUBSET Addrs]
        /\ from' \in [Ids -> Peers]
        /\ got' \subseteq Deliveries /\ asked' \subseteq Deliveries
        /\ withdrawn' \subseteq Deliveries /\ expected' \subseteq Deliveries
        /\ abandoned' \subseteq Ids /\ cut' \subseteq Ids /\ overheard' \subseteq Ids
    BY <2>1, <2>2, <2>7, StoreType
  <2>9. QED
    BY <1>2, <2>6, <2>8 DEF Compose, TypeOK
<1>3. ASSUME NEW n \in Nodes, NEW a \in Areas, NEW force \in BOOLEAN,
             CatchupRead(w, n, a, force)
      PROVE  TypeInv'
  <2> DEFINE here == {d \in {n} \X stored : area[d[2]] = a}
             plan == {d \in here : rows[d] = "none"}
             again == {d \in here : force /\ rows[d] = "sent"}
             r == [NoSession EXCEPT !.pc = "insert", !.kind = "admin",
                                    !.plan = plan, !.again = again]
  <2>1. plan \subseteq Deliveries /\ again \subseteq Deliveries
    BY DEF TypeOK, Deliveries
  <2>2. ses' = [ses EXCEPT ![w] = r]
    BY <1>3 DEF CatchupRead
  <2> HIDE DEF plan, again
  <2>3. r \in Session /\ r.pkt = {}
    BY <2>1, NoSessionType DEF NoSession, Session
  <2> HIDE DEF r
  <2>4. ses' \in [Workers -> Session] /\ PacketForNode'
    BY <2>2, <2>3, SessionStepType
  <2>5. edits' \in 0 .. MaxEdits
    <3>1. Edit
      BY <1>3 DEF CatchupRead
    <3>2. QED
      BY <3>1, BoundsAssumption DEF Edit, TypeOK
  <2>6. QED
    BY <1>3, <2>4, <2>5 DEF CatchupRead, TypeOK
<1>4. QED
  BY <1>1, <1>2, <1>3

LEMMA SysopType ==
  ASSUME TypeInv, Sysop
  PROVE  TypeInv'
<1> USE DEF TypeInv, historyVars
<1>1. ASSUME Edit PROVE edits' \in 0 .. MaxEdits
  BY <1>1, BoundsAssumption DEF Edit, TypeOK
<1>2. ASSUME UNCHANGED ses PROVE ses' \in [Workers -> Session] /\ PacketForNode'
  BY <1>2 DEF TypeOK, PacketForNode
<1>3. ASSUME NEW n \in Nodes, NEW a \in Areas, Subscribe(n, a) \/ Unsubscribe(n, a)
      PROVE  TypeInv'
  BY <1>1, <1>2, <1>3 DEF Subscribe, Unsubscribe, TypeOK
<1>4. ASSUME NEW n \in Nodes, NEW on \in BOOLEAN, SetActive(n, on)
      PROVE  TypeInv'
  BY <1>1, <1>2, <1>4 DEF SetActive, TypeOK
<1>5. ASSUME NEW n \in Nodes, FlushQueue(n)
      PROVE  TypeInv'
  BY <1>1, <1>2, <1>5 DEF FlushQueue, Pending, TypeOK
<1>6. ASSUME NEW m \in Ids, DeleteMessage(m)
      PROVE  TypeInv'
  <2>1. stored \ {m} \in SUBSET (0 .. MaxMsg) /\ 0 \in 0 .. MaxMsg
    BY BoundsAssumption DEF TypeOK, Ids
  <2>2. lastId' \in 0 .. MaxMsg
    BY <1>6, <2>1, NewestIsLargest DEF DeleteMessage, TypeOK
  <2>3. /\ rows' \in [Deliveries -> {"none", "pending", "sent"}]
        /\ stored' \subseteq Ids /\ withdrawn' \subseteq Deliveries
    BY <1>6 DEF DeleteMessage, Pending, TypeOK
  <2>4. QED
    BY <1>1, <1>2, <1>6, <2>2, <2>3 DEF DeleteMessage, TypeOK
<1>7. QED
  BY <1>3, <1>4, <1>5, <1>6 DEF Sysop

LEMMA StepType == TypeInv /\ [Next]_vars => TypeInv'
<1> SUFFICES ASSUME TypeInv, [Next]_vars PROVE TypeInv'
  OBVIOUS
<1>1. CASE \E w \in Workers : SessionStep(w) \/ Fail(w)
  BY <1>1, SendStepsType, ImportType, TossStepsType DEF SessionStep
<1>2. CASE \E w \in Workers :
             \/ \E p \in Nodes \union {Hub} : Connect(w, p) \/ Dial(w, p)
             \/ \E a \in Areas : Compose(w, a)
             \/ \E n \in Nodes, a \in Areas, force \in BOOLEAN : CatchupRead(w, n, a, force)
  BY <1>2, StartStepsType
<1>3. CASE Sysop
  BY <1>3, SysopType
<1>4. CASE UNCHANGED vars
  BY <1>4 DEF vars, dbVars, boundVars, historyVars, TypeInv, TypeOK, PacketForNode
<1>5. QED
  BY <1>1, <1>2, <1>3, <1>4 DEF Next

(* Every variable keeps its type, whatever the numbers of nodes, areas,     *)
(* messages and sessions (HubToss!TypeOK).                                  *)
THEOREM TypeCorrect == Spec => []TypeOK
<1>1. Spec => []TypeInv
  BY InitType, StepType, PTL DEF Spec
<1>2. TypeInv => TypeOK
  BY DEF TypeInv
<1>3. QED
  BY <1>1, <1>2, PTL

-----------------------------------------------------------------------------
(* A row is stamped sent only when its node has received the message.  Mark *)
(* stamps a batch gathered some steps ago, so the invariant has to follow   *)
(* the batch through the session: the packet carries all of it until it is  *)
(* sent, and an acknowledged batch has been received.  A message stored     *)
(* meanwhile is not in it, for no id comes back: what a session, a row or   *)
(* the table of messages names was given out before.                        *)

Honest(s, received, last) ==
  /\ s.pc = "open" => ~s.acked
  /\ s.pc = "send" => s.batch = s.pkt
  /\ s.pc = "mark" => s.acked
  /\ s.acked => \A m \in s.batch : <<s.peer, m>> \in received
  /\ \A m \in s.batch \union s.fresh : m <= last
  /\ \A d \in s.plan \union s.again : d[2] <= last

IdsKnown ==
  /\ \A m \in stored : m <= lastId
  /\ \A d \in Deliveries : rows[d] # "none" => d[2] <= lastId

SessionsHonest == \A w \in Workers : Honest(ses[w], got, lastId)

SentInv == TypeInv /\ IdsKnown /\ SessionsHonest /\ SentImpliesReceived

LEMMA HonestMonotone ==
  ASSUME NEW s \in Session, NEW g, NEW h, NEW last \in Nat, NEW next \in Nat,
         Honest(s, g, last), last <= next,
         \A n \in Peers, m \in Ids : <<n, m>> \in g /\ m <= last => <<n, m>> \in h
  PROVE  Honest(s, h, next)
<1>1. /\ s.batch \subseteq Ids /\ s.fresh \subseteq Ids
      /\ s.peer \in Peers /\ Ids \subseteq Nat
  BY BoundsAssumption DEF Session, Ids
<1>2. \A d \in s.plan \union s.again : d[2] \in Nat
  BY BoundsAssumption DEF Session, Deliveries, Ids
<1>3. \A m \in s.batch \union s.fresh : m <= next
  <2>1. \A m \in s.batch \union s.fresh : m \in Nat /\ m <= last
    BY <1>1, Zenon DEF Honest
  <2>2. QED
    BY <2>1
<1>4. \A d \in s.plan \union s.again : d[2] <= next
  <2>1. \A d \in s.plan \union s.again : d[2] \in Nat /\ d[2] <= last
    BY <1>2, Zenon DEF Honest
  <2>2. QED
    BY <2>1
<1>5. s.acked => \A m \in s.batch : <<s.peer, m>> \in h
  BY <1>1 DEF Honest
<1>6. QED
  BY <1>3, <1>4, <1>5 DEF Honest

LEMMA NoSessionHonest == \A g, last : Honest(NoSession, g, last)
BY DEF Honest, NoSession

LEMMA InitSent == Init => SentInv
<1> SUFFICES ASSUME Init PROVE SentInv
  OBVIOUS
<1>1. \A w \in Workers : ses[w] = NoSession
  BY DEF Init
<1>2. \A d \in Deliveries : rows[d] = "none"
  BY DEF Init
<1>3. stored = {}
  BY DEF Init
<1>4. QED
  BY <1>1, <1>2, <1>3, InitType, NoSessionHonest
     DEF SentInv, IdsKnown, SessionsHonest, SentImpliesReceived

(* One session takes a step, and nothing it relied on is taken away.        *)
LEMMA SessionStepHonest ==
  ASSUME SentInv, TypeInv', NEW w \in Workers, NEW r,
         ses' = [ses EXCEPT ![w] = r], Honest(r, got', lastId'),
         lastId <= lastId',
         \A n \in Peers, m \in Ids : <<n, m>> \in got /\ m <= lastId => <<n, m>> \in got'
  PROVE  SessionsHonest'
<1>1. lastId \in Nat /\ lastId' \in Nat
  BY BoundsAssumption DEF SentInv, TypeInv, TypeOK
<1>2. \A v \in Workers : ses[v] \in Session /\ Honest(ses[v], got, lastId)
  BY DEF SentInv, TypeInv, TypeOK, SessionsHonest
<1>3. \A v \in Workers : Honest(ses[v], got', lastId')
  BY <1>1, <1>2, HonestMonotone
<1>4. \A v \in Workers : ses'[v] = IF v = w THEN r ELSE ses[v]
  BY DEF SentInv, TypeInv, TypeOK
<1>5. QED
  BY <1>3, <1>4 DEF SessionsHonest

LEMMA PendingForKnown ==
  ASSUME SentInv, NEW p
  PROVE  \A m \in PendingFor(p) : m <= lastId
BY DEF PendingFor, SentInv, IdsKnown

LEMMA SendStepsSent ==
  ASSUME SentInv, NEW w \in Workers,
         \/ Gather(w) \/ GatherForHub(w) \/ SendAccepted(w) \/ SendAckLost(w)
         \/ SendRefused(w) \/ Mark(w) \/ Receive(w) \/ Drop(w)
  PROVE  SentInv'
<1> USE DEF dbVars, boundVars, historyVars
<1>1. TypeInv /\ TypeInv' /\ lastId \in Nat
  BY SendStepsType, BoundsAssumption DEF SentInv, TypeInv, TypeOK
<1>2. Honest(ses[w], got, lastId) /\ ses[w] \in Session
  BY <1>1 DEF SentInv, SessionsHonest, TypeInv, TypeOK
<1>3. UNCHANGED <<stored, lastId>> /\ got \subseteq got'
  BY DEF Gather, GatherForHub, SendAccepted, SendAckLost, SendRefused, Mark, Receive, Drop
<1>4. ASSUME NEW r, ses' = [ses EXCEPT ![w] = r], Honest(r, got', lastId')
      PROVE  SessionsHonest'
  <2>1. lastId <= lastId'
    BY <1>1, <1>3
  <2>2. \A n \in Peers, m \in Ids : <<n, m>> \in got /\ m <= lastId => <<n, m>> \in got'
    BY <1>3
  <2>3. QED
    BY <1>1, <1>4, <2>1, <2>2, SessionStepHonest, Zenon
<1>5. ASSUME UNCHANGED rows
      PROVE  IdsKnown' /\ SentImpliesReceived'
  BY <1>3, <1>5 DEF SentInv, IdsKnown, SentImpliesReceived
<1>6. ASSUME NEW pc \in {"recv", "collect"}, EndSend(w, pc)
      PROVE  SessionsHonest'
  <2> DEFINE r == [ses[w] EXCEPT !.pc = pc, !.batch = {}, !.pkt = {}, !.acked = FALSE]
  <2>1. ses' = [ses EXCEPT ![w] = r]
    BY <1>6 DEF EndSend
  <2>2. Honest(r, got', lastId')
    BY <1>2, <1>3 DEF Honest, Session
  <2>3. QED
    BY <1>4, <2>1, <2>2
<1>7. CASE Gather(w)
  <2> DEFINE due == PendingFor(ses[w].peer)
             snap == IF ses[w].kind = "dial" THEN Newest(Inbound) ELSE 0
             r == [ses[w] EXCEPT !.pc = IF due = {} THEN "recv" ELSE "send",
                                 !.batch = due, !.pkt = due, !.snap = snap]
  <2>1. ses' = [ses EXCEPT ![w] = r] /\ ses[w].pc = "open" /\ UNCHANGED <<rows, got>>
    BY <1>7 DEF Gather
  <2>2. \A m \in due : m <= lastId
    BY PendingForKnown
  <2> HIDE DEF due, snap
  <2>3. Honest(r, got', lastId')
    BY <1>2, <1>3, <2>1, <2>2 DEF Honest, Session
  <2>4. QED
    BY <1>1, <1>4, <1>5, <2>1, <2>3 DEF SentInv
<1>8. CASE SendAccepted(w)
  <2> DEFINE r == [ses[w] EXCEPT !.acked = TRUE,
                                 !.pc = IF ses[w].kind = "listen" THEN "mark" ELSE "recv"]
  <2>1. /\ ses' = [ses EXCEPT ![w] = r] /\ ses[w].pc = "send"
        /\ got' = got \union ({ses[w].peer} \X ses[w].pkt) /\ UNCHANGED rows
    BY <1>8 DEF SendAccepted
  <2>2. \A m \in ses[w].batch : <<ses[w].peer, m>> \in got'
    BY <1>2, <2>1 DEF Honest
  <2>3. Honest(r, got', lastId')
    BY <1>2, <1>3, <2>2 DEF Honest, Session
  <2>4. QED
    BY <1>1, <1>4, <1>5, <2>1, <2>3 DEF SentInv
<1>9. CASE SendAckLost(w)
  BY <1>1, <1>5, <1>6, <1>9 DEF SendAckLost, SentInv
<1>10. CASE SendRefused(w)
  BY <1>1, <1>5, <1>6, <1>10 DEF SendRefused, SentInv
<1>11. CASE Mark(w)
  <2>1. /\ rows' = MarkSent(ses[w].peer, ses[w].batch) /\ UNCHANGED got
        /\ \E pc \in {"recv", "collect"} : EndSend(w, pc)
    BY <1>11 DEF Mark
  <2>2. \A m \in ses[w].batch : <<ses[w].peer, m>> \in got
    BY <1>2, <1>11 DEF Mark, Honest
  <2>3. \A d \in Deliveries : d = <<d[1], d[2]>>
    BY DEF Deliveries
  <2>4. \A d \in Deliveries : rows'[d] = "sent" => d \in got'
    BY <2>1, <2>2, <2>3 DEF MarkSent, SentInv, SentImpliesReceived
  <2>5. \A d \in Deliveries : rows'[d] # "none" => rows[d] # "none"
    BY <2>1 DEF MarkSent
  <2>6. QED
    BY <1>1, <1>3, <1>6, <2>1, <2>4, <2>5 DEF SentInv, IdsKnown, SentImpliesReceived
<1>12. CASE Receive(w)
  <2> DEFINE snap == IF ses[w].kind = "dial" /\ ses[w].peer = Hub
                     THEN Newest(Inbound) ELSE ses[w].snap
             r == [ses[w] EXCEPT !.pc = "import", !.snap = snap]
  <2>1. ses' = [ses EXCEPT ![w] = r] /\ UNCHANGED <<rows, got>>
    BY <1>12 DEF Receive
  <2> HIDE DEF snap
  <2>2. Honest(r, got', lastId')
    BY <1>2, <1>3, <2>1 DEF Honest, Session
  <2>3. QED
    BY <1>1, <1>4, <1>5, <2>1, <2>2 DEF SentInv
<1>13. CASE Drop(w)
  BY <1>1, <1>4, <1>5, <1>13, NoSessionHonest DEF Drop, Quit, SentInv
<1>14. CASE GatherForHub(w)
  <2>1. PICK batch \in SUBSET stored :
          ses' = [ses EXCEPT ![w].pc = "recv", ![w].batch = batch]
    BY <1>14 DEF GatherForHub
  <2> DEFINE r == [ses[w] EXCEPT !.pc = "recv", !.batch = batch]
  <2>2. ses' = [ses EXCEPT ![w] = r] /\ ses[w].pc = "open" /\ UNCHANGED <<rows, got>>
    BY <1>14, <2>1 DEF GatherForHub
  <2>3. \A m \in batch : m <= lastId
    BY DEF SentInv, IdsKnown
  <2>4. Honest(r, got', lastId')
    BY <1>2, <1>3, <2>2, <2>3 DEF Honest, Session
  <2>5. QED
    BY <1>1, <1>4, <1>5, <2>2, <2>4 DEF SentInv
<1>15. QED
  BY <1>7, <1>8, <1>9, <1>10, <1>11, <1>12, <1>13, <1>14

(* New messages have new ids, so nothing known of the old ones changes.     *)
LEMMA StoreSent ==
  ASSUME SentInv, TypeInv', NEW new \in SUBSET Ids, \A m \in new : m > lastId,
         NEW sender \in Peers, NEW areaOf, NEW seenOf,
         Store(new, sender, areaOf, seenOf), UNCHANGED rows
  PROVE  /\ IdsKnown' /\ SentImpliesReceived' /\ lastId <= lastId'
         /\ \A m \in new : m <= lastId'
         /\ \A n \in Peers, m \in Ids : <<n, m>> \in got /\ m <= lastId => <<n, m>> \in got'
<1>1. {lastId} \union new \in SUBSET (0 .. MaxMsg) /\ lastId \in Nat /\ lastId' \in Nat
  BY BoundsAssumption DEF SentInv, TypeInv, TypeOK, Ids
<1>2. \A m \in {lastId} \union new : m <= lastId'
  BY <1>1, NewestIsLargest DEF Store
<1>3. \A m \in Ids : m <= lastId => m <= lastId' /\ m \notin new
  BY <1>1, <1>2, BoundsAssumption DEF Ids
<1>4. \A n \in Peers, m \in Ids : <<n, m>> \in got /\ m <= lastId => <<n, m>> \in got'
  BY <1>3 DEF Store, Forget
<1>5. stored \subseteq Ids /\ stored' = stored \union new
  BY DEF SentInv, TypeInv, TypeOK, Store
<1>6. \A m \in stored' : m <= lastId'
  BY <1>2, <1>3, <1>5 DEF SentInv, IdsKnown
<1>7. \A d \in Deliveries : /\ d[1] \in Peers /\ d[2] \in Ids /\ d = <<d[1], d[2]>>
  BY DEF Deliveries, Peers
<1>8. \A d \in Deliveries : rows'[d] # "none" => d[2] <= lastId /\ d[2] <= lastId'
  BY <1>3, <1>7 DEF SentInv, IdsKnown
<1>9. \A d \in Deliveries : rows'[d] = "sent" => d \in got'
  BY <1>4, <1>7, <1>8 DEF SentInv, SentImpliesReceived
<1>10. QED
  BY <1>1, <1>2, <1>4, <1>6, <1>8, <1>9 DEF IdsKnown, SentImpliesReceived

LEMMA RepackHonest ==
  ASSUME NEW s \in [Workers -> Session], NEW new, ses' = Repack(s, new),
         \A v \in Workers : Honest(s[v], got', lastId') /\ s[v].batch \intersect new = {}
  PROVE  SessionsHonest'
<1>1. \A v \in Workers : ses'[v] = [s[v] EXCEPT !.pkt = @ \ new]
  BY DEF Repack
<1>2. ASSUME NEW v \in Workers PROVE Honest([s[v] EXCEPT !.pkt = @ \ new], got', lastId')
  BY DEF Honest, Session
<1>3. QED
  BY <1>1, <1>2 DEF SessionsHonest

(* A session stores new messages: it keeps or has no batch.                 *)
LEMMA StoreStepHonest ==
  ASSUME SentInv, TypeInv', NEW w \in Workers, NEW new \in SUBSET Ids,
         \A m \in new : m > lastId,
         NEW r \in Session, r.batch \subseteq ses[w].batch, Honest(r, got', lastId'),
         ses' = Repack([ses EXCEPT ![w] = r], new), lastId <= lastId',
         \A n \in Peers, m \in Ids : <<n, m>> \in got /\ m <= lastId => <<n, m>> \in got'
  PROVE  SessionsHonest'
<1> DEFINE s == [ses EXCEPT ![w] = r]
<1>1. lastId \in Nat /\ lastId' \in Nat /\ Ids \subseteq Nat
  BY BoundsAssumption DEF SentInv, TypeInv, TypeOK, Ids
<1>2. s \in [Workers -> Session] /\ \A v \in Workers : s[v] = IF v = w THEN r ELSE ses[v]
  BY DEF SentInv, TypeInv, TypeOK
<1>3. \A v \in Workers : ses[v] \in Session /\ Honest(ses[v], got, lastId)
  BY DEF SentInv, TypeInv, TypeOK, SessionsHonest
<1> HIDE DEF s
<1>4. \A v \in Workers : Honest(s[v], got', lastId')
  <2>1. \A v \in Workers : Honest(ses[v], got', lastId')
    BY <1>1, <1>3, HonestMonotone
  <2>2. QED
    BY <1>2, <2>1
<1>5. \A v \in Workers : s[v].batch \subseteq Ids /\ \A m \in s[v].batch : m <= lastId
  <2>1. \A v \in Workers : /\ ses[v].batch \subseteq Ids
                            /\ \A m \in ses[v].batch : m <= lastId
    BY <1>3 DEF Honest, Session
  <2>2. QED
    BY <1>2, <2>1
<1>6. \A v \in Workers : s[v].batch \intersect new = {}
  <2>1. \A m \in new : m \in Nat /\ ~(m <= lastId)
    BY <1>1
  <2>2. QED
    BY <1>5, <2>1, Zenon
<1>7. QED
  BY <1>2, <1>4, <1>6, RepackHonest DEF s

LEMMA ImportSent ==
  ASSUME SentInv, NEW w \in Workers, Import(w)
  PROVE  SentInv'
<1> DEFINE pc == IF ses[w].kind = "listen" THEN "toss"
                 ELSE IF ses[w].acked THEN "mark" ELSE "collect"
           News(k) == lastId + 1 .. lastId + k
<1>1. PICK k \in 0 .. MaxImport :
        /\ lastId + k <= MaxMsg
        /\ \E areaOf \in [News(k) -> Areas], seenOf \in [News(k) -> SeenBys] :
             Store(News(k), ses[w].peer, areaOf, seenOf)
        /\ ses' = Repack([ses EXCEPT ![w].fresh = News(k), ![w].pc = pc], News(k))
  BY DEF Import
<1> DEFINE new == News(k)
           r == [ses[w] EXCEPT !.fresh = new, !.pc = pc]
<1>2. TypeInv' /\ TypeInv
  BY ImportType DEF SentInv
<1>3. new \in SUBSET Ids /\ \A m \in new : m > lastId
  BY <1>1, <1>2, NewIdsType, BoundsAssumption DEF TypeInv, TypeOK
<1> HIDE DEF News
<1>4. PICK areaOf, seenOf : Store(new, ses[w].peer, areaOf, seenOf)
  BY <1>1
<1>5. pc \in {"toss", "mark", "collect"} /\ (pc = "mark" => ses[w].acked)
  OBVIOUS
<1> HIDE DEF pc, new
<1>6. ses' = Repack([ses EXCEPT ![w] = r], new)
  <2>1. [ses EXCEPT ![w] = r] = [ses EXCEPT ![w].fresh = new, ![w].pc = pc]
    BY <1>2 DEF TypeInv, TypeOK
  <2>2. QED
    BY <1>1, <2>1, Zenon DEF new
<1>7. ses[w] \in Session /\ ses[w].peer \in Peers /\ Honest(ses[w], got, lastId)
  BY <1>2 DEF SentInv, SessionsHonest, TypeInv, TypeOK, Session
<1>8. UNCHANGED rows
  BY DEF Import
<1>9. /\ IdsKnown' /\ SentImpliesReceived' /\ lastId <= lastId'
      /\ \A m \in new : m <= lastId'
      /\ \A n \in Peers, m \in Ids : <<n, m>> \in got /\ m <= lastId => <<n, m>> \in got'
  BY <1>2, <1>3, <1>4, <1>7, <1>8, StoreSent
<1>10. r \in Session /\ r.batch = ses[w].batch /\ Honest(r, got', lastId')
  <2>1. lastId \in Nat /\ lastId' \in Nat
    BY <1>2, BoundsAssumption DEF TypeInv, TypeOK
  <2>2. Honest(ses[w], got', lastId')
    BY <1>7, <1>9, <2>1, HonestMonotone
  <2>3. QED
    BY <1>3, <1>5, <1>7, <1>9, <2>2 DEF Session, Honest
<1> HIDE DEF r
<1>11. SessionsHonest'
  BY <1>2, <1>3, <1>6, <1>9, <1>10, StoreStepHonest
<1>12. QED
  BY <1>2, <1>9, <1>11 DEF SentInv

LEMMA ComposeSent ==
  ASSUME SentInv, NEW w \in Workers, NEW a \in Areas, Compose(w, a)
  PROVE  SentInv'
<1> DEFINE new == {lastId + 1}
           r == [NoSession EXCEPT !.pc = "toss", !.fresh = new]
<1>1. TypeInv /\ TypeInv'
  BY StartStepsType DEF SentInv
<1>2. new \in SUBSET Ids /\ \A m \in new : m > lastId
  BY <1>1, BoundsAssumption DEF Compose, TypeInv, TypeOK, Ids
<1>3. /\ Store(new, Local, [m \in new |-> a], [m \in new |-> {}])
      /\ ses' = Repack([ses EXCEPT ![w] = r], new) /\ UNCHANGED rows
  BY DEF Compose
<1> HIDE DEF new
<1>4. Local \in Peers
  BY DEF Peers
<1>5. /\ IdsKnown' /\ SentImpliesReceived' /\ lastId <= lastId'
      /\ \A m \in new : m <= lastId'
      /\ \A n \in Peers, m \in Ids : <<n, m>> \in got /\ m <= lastId => <<n, m>> \in got'
  BY <1>1, <1>2, <1>3, <1>4, StoreSent
<1>6. r \in Session /\ r.batch = {} /\ Honest(r, got', lastId')
  BY <1>2, <1>5, NoSessionType DEF NoSession, Session, Honest
<1> HIDE DEF r
<1>7. r.batch \subseteq ses[w].batch
  BY <1>6
<1>8. SessionsHonest'
  BY <1>1, <1>2, <1>3, <1>5, <1>6, <1>7, StoreStepHonest
<1>9. QED
  BY <1>1, <1>5, <1>8 DEF SentInv

(* The other steps leave got and lastId alone.                              *)
LEMMA QuietStepHonest ==
  ASSUME SentInv, TypeInv', UNCHANGED <<got, lastId>>, NEW w \in Workers, NEW r,
         ses' = [ses EXCEPT ![w] = r], Honest(r, got, lastId)
  PROVE  SessionsHonest'
<1>1. lastId \in Nat
  BY BoundsAssumption DEF SentInv, TypeInv, TypeOK
<1>2. Honest(r, got', lastId') /\ lastId <= lastId'
  <2>1. got' = got /\ lastId' = lastId
    OBVIOUS
  <2>2. Honest(r, got', lastId')
    BY <2>1, Zenon
  <2>3. QED
    BY <1>1, <2>1, <2>2
<1>3. \A n \in Peers, m \in Ids : <<n, m>> \in got /\ m <= lastId => <<n, m>> \in got'
  OBVIOUS
<1>4. QED
  BY <1>2, <1>3, SessionStepHonest, Zenon

LEMMA QuietStepSent ==
  ASSUME SentInv, TypeInv', UNCHANGED <<got, lastId, stored, rows>>
  PROVE  IdsKnown' /\ SentImpliesReceived'
BY DEF SentInv, IdsKnown, SentImpliesReceived

LEMMA TossStepsSent ==
  ASSUME SentInv, NEW w \in Workers,
         \/ Collect(w) \/ TossRead(w) \/ Insert(w) \/ InsertFails(w) \/ TossDone(w)
         \/ MarkRaises(w) \/ CollectRaises(w) \/ TossRaises(w) \/ Fail(w)
  PROVE  SentInv'
<1> USE DEF dbVars, boundVars, historyVars
<1>1. TypeInv /\ TypeInv'
  BY TossStepsType DEF SentInv
<1>2. Honest(ses[w], got, lastId) /\ ses[w] \in Session
  BY <1>1 DEF SentInv, SessionsHonest, TypeInv, TypeOK
<1>3. CASE Collect(w)
  <2> DEFINE fresh == IF ses[w].fresh = {} THEN {} ELSE {m \in Inbound : m > ses[w].snap}
             r == [ses[w] EXCEPT !.pc = "toss", !.batch = {}, !.snap = 0, !.fresh = fresh,
                                 !.cached = TRUE]
  <2>1. ses' = [ses EXCEPT ![w] = r] /\ UNCHANGED <<got, lastId, stored, rows>>
    BY <1>3 DEF Collect, TakeUp
  <2>2. \A m \in fresh : m <= lastId
    BY DEF Inbound, SentInv, IdsKnown
  <2> HIDE DEF fresh
  <2>3. Honest(r, got, lastId)
    BY <1>2, <2>2 DEF Honest, Session
  <2>4. QED
    BY <1>1, <2>1, <2>3, QuietStepHonest, QuietStepSent DEF SentInv
<1>4. CASE TossRead(w)
  <2>1. PICK m \in ses[w].fresh :
          ses' = [ses EXCEPT ![w].fresh = @ \ {m}, ![w].plan = Plan(m, ses[w].peer),
                             ![w].pc = IF Plan(m, ses[w].peer) = {} THEN "toss" ELSE "insert"]
    BY <1>4 DEF TossRead, FirstFresh
  <2> DEFINE plan == Plan(m, ses[w].peer)
             r == [ses[w] EXCEPT !.fresh = @ \ {m}, !.plan = plan,
                                 !.pc = IF plan = {} THEN "toss" ELSE "insert"]
  <2>2. \A d \in plan : d[2] <= lastId
    BY <1>2 DEF Plan, Honest
  <2>3. ses' = [ses EXCEPT ![w] = r] /\ UNCHANGED <<got, lastId, stored, rows>>
    BY <1>4, <2>1 DEF TossRead
  <2> HIDE DEF plan
  <2>4. Honest(r, got, lastId)
    BY <1>2, <2>2 DEF Honest, Session
  <2>5. QED
    BY <1>1, <2>3, <2>4, QuietStepHonest, QuietStepSent DEF SentInv
<1>5. CASE Insert(w)
  <2> DEFINE r == [ses[w] EXCEPT !.pc = "toss", !.plan = {}, !.again = {}, !.cached = FALSE]
             due == ses[w].plan \union ses[w].again
  <2>1. /\ ses' = [ses EXCEPT ![w] = r] /\ UNCHANGED <<got, lastId, stored>>
        /\ rows' = [d \in Deliveries |-> IF d \in due THEN "pending" ELSE rows[d]]
    BY <1>5 DEF Insert
  <2>2. \A d \in due : d[2] <= lastId
    BY <1>2 DEF Honest
  <2>3. Honest(r, got, lastId)
    BY <1>2 DEF Honest, Session
  <2> HIDE DEF r, due
  <2>4. IdsKnown' /\ SentImpliesReceived'
    BY <2>1, <2>2 DEF SentInv, IdsKnown, SentImpliesReceived
  <2>5. QED
    BY <1>1, <2>1, <2>3, <2>4, QuietStepHonest DEF SentInv
<1>6. ASSUME Quit(w), UNCHANGED <<got, lastId, stored, rows>>
      PROVE  SentInv'
  BY <1>1, <1>6, NoSessionHonest, QuietStepHonest, QuietStepSent DEF Quit, SentInv
<1>7. CASE InsertFails(w)
  BY <1>6, <1>7 DEF InsertFails, Abandon
<1>8. CASE TossDone(w)
  BY <1>6, <1>8 DEF TossDone
<1>9. CASE Fail(w)
  BY <1>6, <1>9 DEF Fail, Abandon
<1>10. CASE MarkRaises(w) \/ CollectRaises(w) \/ TossRaises(w)
  BY <1>6, <1>10 DEF MarkRaises, CollectRaises, TossRaises, CutShort
<1>11. QED
  BY <1>3, <1>4, <1>5, <1>7, <1>8, <1>9, <1>10

LEMMA ConnectSent ==
  ASSUME SentInv, NEW w \in Workers, NEW p \in Nodes \union {Hub}, Connect(w, p) \/ Dial(w, p)
  PROVE  SentInv'
<1>1. TypeInv'
  BY StartStepsType DEF SentInv
<1>2. PICK kind \in {"listen", "dial"} : Begin(w, kind, p, "open")
  BY DEF Connect, Dial
<1> DEFINE r == [NoSession EXCEPT !.pc = "open", !.kind = kind, !.peer = p]
<1>3. ses' = [ses EXCEPT ![w] = r]
  BY <1>2 DEF Begin
<1>4. Honest(r, got, lastId)
  BY DEF Honest, NoSession
<1>5. UNCHANGED <<got, lastId, stored, rows>>
  BY DEF Connect, Dial, dbVars, historyVars
<1>6. QED
  BY <1>1, <1>3, <1>4, <1>5, QuietStepHonest, QuietStepSent DEF SentInv

LEMMA CatchupSent ==
  ASSUME SentInv, NEW w \in Workers, NEW n \in Nodes, NEW a \in Areas, NEW force \in BOOLEAN,
         CatchupRead(w, n, a, force)
  PROVE  SentInv'
<1>1. TypeInv'
  BY StartStepsType DEF SentInv
<1> DEFINE here == {d \in {n} \X stored : area[d[2]] = a}
           plan == {d \in here : rows[d] = "none"}
           again == {d \in here : force /\ rows[d] = "sent"}
           r == [NoSession EXCEPT !.pc = "insert", !.kind = "admin",
                                  !.plan = plan, !.again = again]
<1>2. ses' = [ses EXCEPT ![w] = r] /\ UNCHANGED <<got, lastId, stored, rows>>
  BY DEF CatchupRead, dbVars, historyVars
<1>3. \A d \in here : d[2] <= lastId
  BY DEF SentInv, IdsKnown
<1>4. \A d \in plan \union again : d[2] <= lastId
  BY <1>3
<1> HIDE DEF plan, again
<1>5. Honest(r, got, lastId)
  BY <1>4 DEF Honest, NoSession
<1>6. QED
  BY <1>1, <1>2, <1>5, QuietStepHonest, QuietStepSent DEF SentInv

LEMMA SysopSent ==
  ASSUME ~ReuseIds, SentInv, Sysop
  PROVE  SentInv'
<1>1. TypeInv'
  BY SysopType DEF SentInv
<1>2. UNCHANGED <<ses, got, lastId>>
  BY DEF Sysop, Subscribe, Unsubscribe, SetActive, FlushQueue, DeleteMessage, historyVars
<1>3. SessionsHonest'
  BY <1>2 DEF SentInv, SessionsHonest
<1>4. stored' \subseteq stored /\ \A d \in Deliveries : rows'[d] \in {"none", rows[d]}
  BY DEF Sysop, Subscribe, Unsubscribe, SetActive, FlushQueue, DeleteMessage
<1>5. QED
  BY <1>1, <1>2, <1>3, <1>4 DEF SentInv, IdsKnown, SentImpliesReceived

LEMMA StepSent == ~ReuseIds => (SentInv /\ [Next]_vars => SentInv')
<1> SUFFICES ASSUME ~ReuseIds, SentInv, [Next]_vars PROVE SentInv'
  OBVIOUS
<1>1. CASE \E w \in Workers : SessionStep(w) \/ Fail(w)
  BY <1>1, SendStepsSent, ImportSent, TossStepsSent DEF SessionStep
<1>2. CASE \E w \in Workers :
             \/ \E p \in Nodes \union {Hub} : Connect(w, p) \/ Dial(w, p)
             \/ \E a \in Areas : Compose(w, a)
             \/ \E n \in Nodes, a \in Areas, force \in BOOLEAN : CatchupRead(w, n, a, force)
  BY <1>2, ConnectSent, ComposeSent, CatchupSent
<1>3. CASE Sysop
  BY <1>3, SysopSent
<1>4. CASE UNCHANGED vars
  <2>1. TypeInv'
    BY <1>4, StepType DEF SentInv
  <2>2. UNCHANGED <<ses, got, lastId, stored, rows>>
    BY <1>4 DEF vars, dbVars, historyVars
  <2>3. SessionsHonest'
    BY <2>2 DEF SentInv, SessionsHonest
  <2>4. QED
    BY <2>1, <2>2, <2>3, QuietStepSent DEF SentInv
<1>5. QED
  BY <1>1, <1>2, <1>3, <1>4 DEF Next

(* A hold row is stamped sent only when its node has received the message,  *)
(* for any number of nodes, messages and concurrent sessions, on a database *)
(* that does not hand out a deleted message's id again                      *)
(* (HubToss!SentImpliesReceived).                                           *)
THEOREM SentSafe == ~ReuseIds => (Spec => []SentImpliesReceived)
<1> SUFFICES ASSUME ~ReuseIds PROVE Spec => []SentImpliesReceived
  OBVIOUS
<1>1. SentInv /\ [Next]_vars => SentInv'
  BY StepSent
<1>2. SentInv => SentImpliesReceived
  BY DEF SentInv
<1>3. QED
  BY <1>1, <1>2, InitSent, PTL DEF Spec

-----------------------------------------------------------------------------
(* HubToss implements Forwarding: every step maps to a step of it or leaves *)
(* its variables alone.  The mapping forgets what was received of a deleted *)
(* message when its id comes back, which with ids that do not come back is  *)
(* nothing.                                                                 *)

HistoryKnown == \A d \in got \union withdrawn : d[2] <= lastId

PromiseInv == SentInv /\ HistoryKnown

(* Storing messages changes nothing Forwarding speaks of.                   *)
LEMMA StorePromise ==
  ASSUME PromiseInv, SentInv', NEW new \in SUBSET Ids, \A m \in new : m > lastId,
         NEW sender, NEW areaOf, NEW seenOf, Store(new, sender, areaOf, seenOf),
         lastId <= lastId'
  PROVE  UNCHANGED <<got, withdrawn>> /\ HistoryKnown'
<1>1. lastId \in Nat /\ lastId' \in Nat /\ Ids \subseteq Nat
  BY BoundsAssumption DEF PromiseInv, SentInv, TypeInv, TypeOK, Ids
<1>2. \A d \in got \union withdrawn : d[2] \in Ids
  BY DEF PromiseInv, SentInv, TypeInv, TypeOK, Deliveries
<1>3. \A m \in new : m \in Nat /\ ~(m <= lastId)
  BY <1>1
<1>4. \A d \in got \union withdrawn : d[2] \notin new
  BY <1>3, Zenon DEF PromiseInv, HistoryKnown
<1>5. got' = got /\ withdrawn' = withdrawn
  BY <1>4 DEF Store, Forget
<1>6. \A d \in got \union withdrawn : d[2] \in Nat /\ d[2] <= lastId
  BY <1>1, <1>2, Zenon DEF PromiseInv, HistoryKnown
<1>7. QED
  BY <1>1, <1>5, <1>6 DEF HistoryKnown

LEMMA InitPromise == Init => PromiseInv /\ Promise!Init
<1> SUFFICES ASSUME Init PROVE HistoryKnown /\ Promise!Init
  BY InitSent DEF PromiseInv
<1>1. Pending = {}
  BY DEF Init, Pending
<1>2. QED
  BY <1>1 DEF Init, HistoryKnown, Promise!Init

LEMMA PendingSameRows == UNCHANGED rows => UNCHANGED Pending
BY DEF Pending

PromiseStep == HistoryKnown' /\ (Promise!Next \/ UNCHANGED <<Pending, got, withdrawn>>)

LEMMA QuietPromise ==
  ASSUME PromiseInv, UNCHANGED <<rows, got, withdrawn, lastId>>
  PROVE  PromiseStep
BY PendingSameRows DEF PromiseStep, PromiseInv, HistoryKnown

LEMMA ReceivePromise ==
  ASSUME PromiseInv, NEW w \in Workers, SendAccepted(w) \/ SendAckLost(w)
  PROVE  PromiseStep
<1> DEFINE D == {ses[w].peer} \X ses[w].pkt
<1>1. /\ got' = got \union D /\ UNCHANGED <<rows, withdrawn, lastId>> /\ ses[w].pc = "send"
  BY DEF SendAccepted, SendAckLost, dbVars
<1>2. /\ ses[w] \in Session /\ (ses[w].pkt # {} => ses[w].peer \in Nodes)
      /\ Honest(ses[w], got, lastId)
  BY DEF PromiseInv, SentInv, TypeInv, TypeOK, PacketForNode, SessionsHonest
<1>3. D \subseteq Deliveries /\ \A d \in D : d[2] <= lastId
  BY <1>1, <1>2 DEF Session, Deliveries, Honest
<1> HIDE DEF D
<1>4. HistoryKnown'
  BY <1>1, <1>3 DEF PromiseInv, HistoryKnown
<1>5. Promise!Receive(D)
  BY <1>1, PendingSameRows DEF Promise!Receive
<1>6. QED
  BY <1>3, <1>4, <1>5 DEF PromiseStep, Promise!Next

LEMMA MarkPromise ==
  ASSUME PromiseInv, NEW w \in Workers, Mark(w)
  PROVE  PromiseStep
<1> DEFINE D == Pending \ Pending'
<1>1. /\ rows' = MarkSent(ses[w].peer, ses[w].batch)
      /\ UNCHANGED <<got, withdrawn, lastId>> /\ ses[w].pc = "mark"
  BY DEF Mark, historyVars
<1>2. \A m \in ses[w].batch : <<ses[w].peer, m>> \in got
  BY <1>1 DEF PromiseInv, SentInv, SessionsHonest, Honest
<1>3. \A d \in Deliveries : d = <<d[1], d[2]>>
  BY DEF Deliveries
<1>4. D \subseteq got /\ D \subseteq Deliveries
  BY <1>1, <1>2, <1>3 DEF MarkSent, Pending
<1>5. Pending' = Pending \ D
  BY <1>1 DEF MarkSent, Pending
<1> HIDE DEF D
<1>6. Promise!Settle(D)
  BY <1>1, <1>4, <1>5 DEF Promise!Settle
<1>7. HistoryKnown'
  BY <1>1 DEF PromiseInv, HistoryKnown
<1>8. QED
  BY <1>4, <1>6, <1>7 DEF PromiseStep, Promise!Next

LEMMA InsertPromise ==
  ASSUME PromiseInv, NEW w \in Workers, Insert(w)
  PROVE  PromiseStep
<1> DEFINE D == ses[w].plan \union ses[w].again
<1>1. /\ rows' = [d \in Deliveries |-> IF d \in D THEN "pending" ELSE rows[d]]
      /\ withdrawn' = withdrawn \ D /\ UNCHANGED <<got, lastId>>
  BY DEF Insert
<1>2. D \subseteq Deliveries
  BY DEF PromiseInv, SentInv, TypeInv, TypeOK, Session
<1> HIDE DEF D
<1>3. Pending' = Pending \union D
  BY <1>1, <1>2 DEF Pending
<1>4. Promise!Owe(D)
  BY <1>1, <1>3 DEF Promise!Owe
<1>5. HistoryKnown'
  BY <1>1 DEF PromiseInv, HistoryKnown
<1>6. QED
  BY <1>2, <1>4, <1>5 DEF PromiseStep, Promise!Next

LEMMA SysopPromise ==
  ASSUME ~ReuseIds, PromiseInv, Sysop
  PROVE  PromiseStep
<1>1. \A d \in Pending : d \in Deliveries /\ d[2] <= lastId
  BY DEF Pending, PromiseInv, SentInv, IdsKnown
<1>2. ASSUME NEW D \in SUBSET Pending, UNCHANGED <<got, lastId>>,
             Pending' = Pending \ D, withdrawn' = withdrawn \union D
      PROVE  PromiseStep
  <2>1. Promise!Withdraw(D) /\ D \in SUBSET Deliveries
    BY <1>1, <1>2 DEF Promise!Withdraw
  <2>2. HistoryKnown'
    BY <1>1, <1>2 DEF PromiseInv, HistoryKnown
  <2>3. QED
    BY <2>1, <2>2 DEF PromiseStep, Promise!Next
<1>3. ASSUME NEW n \in Nodes, FlushQueue(n)
      PROVE  PromiseStep
  <2> DEFINE D == {d \in Pending : d[1] = n}
  <2>1. /\ UNCHANGED <<got, lastId>> /\ withdrawn' = withdrawn \union D
        /\ rows' = [d \in Deliveries |-> IF d \in D THEN "none" ELSE rows[d]]
    BY <1>3 DEF FlushQueue
  <2>2. Pending' = Pending \ D
    BY <2>1 DEF Pending
  <2>3. QED
    BY <1>2, <2>1, <2>2
<1>4. ASSUME NEW m \in Ids, DeleteMessage(m)
      PROVE  PromiseStep
  <2> DEFINE D == {d \in Pending : d[2] = m}
  <2>1. /\ UNCHANGED <<got, lastId>> /\ withdrawn' = withdrawn \union D
        /\ rows' = [d \in Deliveries |-> IF d[2] = m THEN "none" ELSE rows[d]]
    BY <1>4 DEF DeleteMessage
  <2>2. Pending' = Pending \ D
    BY <2>1 DEF Pending
  <2>3. QED
    BY <1>2, <2>1, <2>2
<1>5. CASE \/ \E n \in Nodes, a \in Areas : Subscribe(n, a) \/ Unsubscribe(n, a)
           \/ \E n \in Nodes, on \in BOOLEAN : SetActive(n, on)
  BY <1>5, QuietPromise DEF Subscribe, Unsubscribe, SetActive, historyVars
<1>6. QED
  BY <1>3, <1>4, <1>5 DEF Sysop

LEMMA ImportPromise ==
  ASSUME PromiseInv, SentInv', NEW w \in Workers,
         Import(w) \/ \E a \in Areas : Compose(w, a)
  PROVE  PromiseStep
<1>1. lastId \in Nat /\ lastId' \in Nat
  BY BoundsAssumption DEF PromiseInv, SentInv, TypeInv, TypeOK
<1>2. PICK new, sender, areaOf, seenOf :
        Store(new, sender, areaOf, seenOf) /\ new \in SUBSET Ids /\ \A m \in new : m > lastId
  <2>1. CASE Import(w)
    <3>1. PICK k \in 0 .. MaxImport :
            /\ lastId + k <= MaxMsg
            /\ \E areaOf, seenOf : Store(lastId + 1 .. lastId + k, ses[w].peer, areaOf, seenOf)
      BY <2>1, Zenon DEF Import
    <3>2. TypeInv /\ k \in Nat
      BY <3>1, BoundsAssumption DEF PromiseInv, SentInv
    <3>3. lastId + 1 .. lastId + k \in SUBSET Ids
      BY <3>1, <3>2, NewIdsType
    <3>4. \A m \in lastId + 1 .. lastId + k : m > lastId
      BY <1>1, <3>2
    <3>5. QED
      BY <3>1, <3>3, <3>4
  <2>2. CASE \E a \in Areas : Compose(w, a)
    <3>1. {lastId + 1} \in SUBSET Ids /\ \A m \in {lastId + 1} : m > lastId
      BY <1>1, <2>2, BoundsAssumption DEF Compose, Ids
    <3>2. \E sender, areaOf, seenOf : Store({lastId + 1}, sender, areaOf, seenOf)
      BY <2>2, Zenon DEF Compose
    <3>3. QED
      BY <3>1, <3>2
  <2>3. QED
    BY <2>1, <2>2
<1>3. lastId <= lastId'
  <2>1. {lastId} \union new \in SUBSET (0 .. MaxMsg)
    BY <1>2, BoundsAssumption DEF PromiseInv, SentInv, TypeInv, TypeOK, Ids
  <2>2. QED
    BY <1>2, <2>1, NewestIsLargest DEF Store
<1>4. UNCHANGED <<got, withdrawn>> /\ HistoryKnown'
  BY <1>2, <1>3, StorePromise
<1>5. UNCHANGED rows
  BY DEF Import, Compose
<1>6. QED
  BY <1>4, <1>5, PendingSameRows DEF PromiseStep

LEMMA StepPromise ==
  ~ReuseIds => (PromiseInv /\ [Next]_vars => PromiseInv' /\ [Promise!Next]_(Promise!vars))
<1> SUFFICES ASSUME ~ReuseIds, PromiseInv, [Next]_vars
             PROVE  PromiseInv' /\ [Promise!Next]_(Promise!vars)
  OBVIOUS
<1> USE DEF dbVars, boundVars, historyVars
<1>1. SentInv'
  BY StepSent DEF PromiseInv
<1>2. ASSUME NEW w \in Workers, SessionStep(w) \/ Fail(w)
      PROVE  PromiseStep
  <2>1. CASE \/ Gather(w) \/ GatherForHub(w) \/ SendRefused(w) \/ Receive(w) \/ Drop(w)
             \/ Collect(w) \/ TossRead(w) \/ InsertFails(w) \/ TossDone(w) \/ Fail(w)
    BY <2>1, QuietPromise
       DEF Gather, GatherForHub, SendRefused, Receive, Drop, Collect, TossRead, InsertFails,
           TossDone, Fail
  <2>2. CASE MarkRaises(w) \/ CollectRaises(w) \/ TossRaises(w)
    BY <2>2, QuietPromise DEF MarkRaises, CollectRaises, TossRaises, CutShort
  <2>3. QED
    BY <1>1, <1>2, <2>1, <2>2, ReceivePromise, MarkPromise, InsertPromise, ImportPromise
       DEF SessionStep
<1>3. ASSUME NEW w \in Workers,
             \/ \E p \in Nodes \union {Hub} : Connect(w, p) \/ Dial(w, p)
             \/ \E a \in Areas : Compose(w, a)
             \/ \E n \in Nodes, a \in Areas, force \in BOOLEAN : CatchupRead(w, n, a, force)
      PROVE  PromiseStep
  <2>1. CASE \E p \in Nodes \union {Hub} : Connect(w, p) \/ Dial(w, p)
    BY <2>1, QuietPromise DEF Connect, Dial
  <2>2. CASE \E n \in Nodes, a \in Areas, force \in BOOLEAN : CatchupRead(w, n, a, force)
    BY <2>2, QuietPromise DEF CatchupRead
  <2>3. QED
    BY <1>1, <1>3, <2>1, <2>2, ImportPromise
<1>4. ASSUME UNCHANGED vars PROVE PromiseStep
  BY <1>4, QuietPromise DEF vars
<1>5. PromiseStep
  BY <1>2, <1>3, <1>4, SysopPromise DEF Next
<1>6. QED
  BY <1>1, <1>5 DEF PromiseStep, PromiseInv, Promise!vars

(* A queued delivery is never forgotten: every behaviour of the hub, with   *)
(* its sessions, lost acknowledgements, crashes and sysop edits, is one of  *)
(* Forwarding (HubToss!ForwardingSpec).                                     *)
THEOREM ImplementsForwarding == ~ReuseIds => (Spec => ForwardingSpec)
<1> SUFFICES ASSUME ~ReuseIds PROVE Spec => ForwardingSpec
  OBVIOUS
<1>1. PromiseInv /\ [Next]_vars => PromiseInv' /\ [Promise!Next]_(Promise!vars)
  BY StepPromise
<1>2. QED
  BY <1>1, InitPromise, PTL DEF Spec, ForwardingSpec, Promise!Spec

-----------------------------------------------------------------------------
(* No loops.  A session inserts a plan made some steps before from what it  *)
(* read of SEEN-BY then.  Only a catch-up or rescan plans without looking,  *)
(* and only it makes rows pending again; nothing changes the SEEN-BY of a   *)
(* message that is in somebody's plan.                                      *)

Innocent(s, seenby) ==
  s.kind # "admin" =>
    s.again = {} /\ \A d \in s.plan : BareAddr[d[1]] \notin seenby[d[2]]

SessionsInnocent == \A w \in Workers : Innocent(ses[w], seen)

LoopInv == SentInv /\ SessionsInnocent /\ LoopFree

LEMMA InitLoop == Init => LoopInv
<1> SUFFICES ASSUME Init PROVE LoopInv
  OBVIOUS
<1>1. SessionsInnocent /\ LoopFree
  BY DEF Init, SessionsInnocent, Innocent, NoSession, LoopFree
<1>2. QED
  BY <1>1, InitSent DEF LoopInv

(* A step that plans nothing and queues nothing.                            *)
LEMMA IdleLoop ==
  ASSUME LoopInv, UNCHANGED <<seen, asked>>,
         \A d \in Deliveries : rows'[d] # "none" => rows[d] # "none",
         \A w \in Workers :
           \/ /\ ses'[w].kind = ses[w].kind /\ ses'[w].plan = ses[w].plan
              /\ ses'[w].again = ses[w].again
           \/ ses'[w].plan = {} /\ ses'[w].again = {}
  PROVE  SessionsInnocent' /\ LoopFree'
BY DEF LoopInv, SessionsInnocent, Innocent, LoopFree

(* One session goes on and keeps what it has planned, or ends.              *)
LEMMA SendStepsLoop ==
  ASSUME LoopInv, NEW w \in Workers,
         \/ Gather(w) \/ GatherForHub(w) \/ SendAccepted(w) \/ SendAckLost(w)
         \/ SendRefused(w) \/ Mark(w) \/ Receive(w) \/ Drop(w) \/ Collect(w)
         \/ MarkRaises(w) \/ CollectRaises(w) \/ TossRaises(w)
         \/ InsertFails(w) \/ TossDone(w) \/ Fail(w)
  PROVE  SessionsInnocent' /\ LoopFree'
<1> USE DEF dbVars, boundVars, historyVars
<1>1. ses \in [Workers -> Session]
  BY DEF LoopInv, SentInv, TypeInv, TypeOK
<1>2. UNCHANGED <<seen, asked>>
  BY DEF Gather, GatherForHub, SendAccepted, SendAckLost, SendRefused, Mark, Receive, Drop,
         Collect, InsertFails, TossDone, Fail, MarkRaises, CollectRaises, TossRaises, CutShort
<1>3. \A d \in Deliveries : rows'[d] # "none" => rows[d] # "none"
  BY DEF Gather, GatherForHub, SendAccepted, SendAckLost, SendRefused, Mark, MarkSent,
         Receive, Drop, Collect, InsertFails, TossDone, Fail, MarkRaises, CollectRaises,
         TossRaises, CutShort
<1>4. ASSUME NEW v \in Workers
      PROVE  \/ /\ ses'[v].kind = ses[v].kind /\ ses'[v].plan = ses[v].plan
                /\ ses'[v].again = ses[v].again
             \/ ses'[v].plan = {} /\ ses'[v].again = {}
  <2>1. ses[w] \in Session
    BY <1>1
  <2>2. CASE Quit(w)
    BY <1>1, <2>2 DEF Quit, NoSession
  <2>3. CASE \E pc \in {"recv", "collect"} : EndSend(w, pc)
    BY <1>1, <2>1, <2>3 DEF EndSend, Session
  <2>4. CASE Gather(w) \/ GatherForHub(w) \/ SendAccepted(w) \/ Receive(w) \/ Collect(w)
    <3>1. CASE Gather(w)
      BY <1>1, <2>1, <3>1 DEF Gather, Session
    <3>2. CASE SendAccepted(w)
      BY <1>1, <2>1, <3>2 DEF SendAccepted, Session
    <3>3. CASE Receive(w)
      BY <1>1, <2>1, <3>3 DEF Receive, Session
    <3>4. CASE Collect(w)
      BY <1>1, <2>1, <3>4 DEF Collect, TakeUp, Session
    <3>5. CASE GatherForHub(w)
      <4>1. PICK batch : ses' = [ses EXCEPT ![w].pc = "recv", ![w].batch = batch]
        BY <3>5, Zenon DEF GatherForHub
      <4>2. QED
        BY <1>1, <2>1, <4>1 DEF Session
    <3>6. QED
      BY <2>4, <3>1, <3>2, <3>3, <3>4, <3>5
  <2>5. QED
    BY <2>2, <2>3, <2>4
       DEF SendAckLost, SendRefused, Mark, Drop, InsertFails, TossDone, Fail, Abandon,
           MarkRaises, CollectRaises, TossRaises, CutShort
<1>5. QED
  BY <1>2, <1>3, <1>4, IdleLoop

LEMMA TossReadLoop ==
  ASSUME LoopInv, NEW w \in Workers, TossRead(w)
  PROVE  SessionsInnocent' /\ LoopFree'
<1> USE DEF dbVars, boundVars, historyVars
<1>1. PICK m \in Ids :
        ses' = [ses EXCEPT ![w].fresh = @ \ {m}, ![w].plan = Plan(m, ses[w].peer),
                           ![w].pc = IF Plan(m, ses[w].peer) = {} THEN "toss" ELSE "insert"]
  BY DEF TossRead
<1> DEFINE plan == Plan(m, ses[w].peer)
<1>2. \A d \in plan : BareAddr[d[1]] \notin seen[d[2]]
  BY DEF Plan, Wanted
<1>3. ses \in [Workers -> Session] /\ ses[w] \in Session
  BY DEF LoopInv, SentInv, TypeInv, TypeOK
<1> HIDE DEF plan
<1>4. /\ ses'[w].kind = ses[w].kind /\ ses'[w].again = ses[w].again /\ ses'[w].plan = plan
      /\ \A v \in Workers \ {w} : ses'[v] = ses[v]
  BY <1>1, <1>3 DEF Session, plan
<1>5. UNCHANGED <<seen, asked, rows>>
  BY DEF TossRead
<1>6. QED
  BY <1>2, <1>4, <1>5 DEF LoopInv, SessionsInnocent, Innocent, LoopFree

LEMMA InsertLoop ==
  ASSUME LoopInv, NEW w \in Workers, Insert(w)
  PROVE  SessionsInnocent' /\ LoopFree'
<1> DEFINE due == ses[w].plan \union ses[w].again
<1>1. /\ rows' = [d \in Deliveries |-> IF d \in due THEN "pending" ELSE rows[d]]
      /\ asked' = IF ses[w].kind = "admin" THEN asked \union due ELSE asked
      /\ ses' = [ses EXCEPT ![w].pc = "toss", ![w].plan = {}, ![w].again = {},
                            ![w].cached = FALSE]
      /\ seen' = seen
  BY DEF Insert
<1>2. ses \in [Workers -> Session] /\ ses[w] \in Session
  BY DEF LoopInv, SentInv, TypeInv, TypeOK
<1>3. /\ ses'[w].plan = {} /\ ses'[w].again = {}
      /\ \A v \in Workers \ {w} : ses'[v] = ses[v]
  BY <1>1, <1>2 DEF Session
<1>4. \A d \in due : BareAddr[d[1]] \in seen[d[2]] => d \in asked'
  BY <1>1 DEF LoopInv, SessionsInnocent, Innocent
<1> HIDE DEF due
<1>5. QED
  BY <1>1, <1>3, <1>4 DEF LoopInv, SessionsInnocent, Innocent, LoopFree

(* New messages are in nobody's plan and in no row.                         *)
LEMMA StoreLoop ==
  ASSUME LoopInv, NEW new \in SUBSET Ids, \A m \in new : m > lastId,
         NEW sender, NEW areaOf, NEW seenOf, Store(new, sender, areaOf, seenOf), UNCHANGED rows,
         \A w \in Workers :
           \/ /\ ses'[w].kind = ses[w].kind /\ ses'[w].plan = ses[w].plan
              /\ ses'[w].again = ses[w].again
           \/ ses'[w].plan = {} /\ ses'[w].again = {}
  PROVE  SessionsInnocent' /\ LoopFree'
<1>1. lastId \in Nat /\ Ids \subseteq Nat /\ \A d \in Deliveries : d[2] \in Ids
  BY BoundsAssumption DEF LoopInv, SentInv, TypeInv, TypeOK, Ids, Deliveries
<1>2. \A m \in Ids : m <= lastId => m \notin new /\ seen'[m] = seen[m]
  BY <1>1 DEF Store
<1>3. \A w \in Workers : ses[w].plan \subseteq Deliveries /\ \A d \in ses[w].plan : d[2] <= lastId
  BY DEF LoopInv, SentInv, TypeInv, TypeOK, Session, SessionsHonest, Honest
<1>4. SessionsInnocent'
  <2> SUFFICES ASSUME NEW w \in Workers PROVE Innocent(ses'[w], seen')
    BY DEF SessionsInnocent
  <2>1. \A d \in ses[w].plan : seen'[d[2]] = seen[d[2]]
    BY <1>1, <1>2, <1>3
  <2>2. Innocent(ses[w], seen)
    BY DEF LoopInv, SessionsInnocent
  <2>3. QED
    BY <2>1, <2>2 DEF Innocent
<1>5. LoopFree'
  <2> SUFFICES ASSUME NEW d \in Deliveries, rows[d] # "none", BareAddr[d[1]] \in seen'[d[2]]
               PROVE  d \in asked'
    BY DEF LoopFree
  <2>1. d[2] \in Ids /\ d[2] <= lastId
    BY <1>1 DEF LoopInv, SentInv, IdsKnown
  <2>2. d[2] \notin new /\ seen'[d[2]] = seen[d[2]]
    BY <1>2, <2>1
  <2>3. d \in asked
    BY <2>2 DEF LoopInv, LoopFree
  <2>4. QED
    BY <2>2, <2>3 DEF Store, Forget
<1>6. QED
  BY <1>4, <1>5

LEMMA ImportLoop ==
  ASSUME LoopInv, NEW w \in Workers, Import(w)
  PROVE  SessionsInnocent' /\ LoopFree'
<1> DEFINE pc == IF ses[w].kind = "listen" THEN "toss"
                 ELSE IF ses[w].acked THEN "mark" ELSE "collect"
           News(k) == lastId + 1 .. lastId + k
<1>1. PICK k \in 0 .. MaxImport :
        /\ lastId + k <= MaxMsg
        /\ \E areaOf, seenOf : Store(News(k), ses[w].peer, areaOf, seenOf)
        /\ ses' = Repack([ses EXCEPT ![w].fresh = News(k), ![w].pc = pc], News(k))
  <2>1. \E k \in 0 .. MaxImport :
          /\ lastId + k <= MaxMsg
          /\ \E areaOf \in [News(k) -> Areas], seenOf \in [News(k) -> SeenBys] :
               Store(News(k), ses[w].peer, areaOf, seenOf)
          /\ ses' = Repack([ses EXCEPT ![w].fresh = News(k), ![w].pc = pc], News(k))
    BY DEF Import
  <2> HIDE DEF News, pc
  <2>2. QED
    BY <2>1, Zenon
<1> DEFINE new == News(k)
<1>2. TypeInv /\ ses \in [Workers -> Session] /\ ses[w] \in Session
  BY DEF LoopInv, SentInv, TypeInv, TypeOK
<1>3. new \in SUBSET Ids /\ \A m \in new : m > lastId
  BY <1>1, <1>2, NewIdsType, BoundsAssumption DEF TypeInv, TypeOK
<1> HIDE DEF News, pc
<1>4. \A v \in Workers : /\ ses'[v].kind = ses[v].kind /\ ses'[v].plan = ses[v].plan
                         /\ ses'[v].again = ses[v].again
  BY <1>1, <1>2 DEF Repack, Session
<1>5. PICK areaOf, seenOf : Store(new, ses[w].peer, areaOf, seenOf)
  BY <1>1
<1> HIDE DEF new
<1>6. UNCHANGED rows
  BY DEF Import
<1>7. QED
  BY <1>3, <1>4, <1>5, <1>6, StoreLoop

LEMMA ComposeLoop ==
  ASSUME LoopInv, NEW w \in Workers, NEW a \in Areas, Compose(w, a)
  PROVE  SessionsInnocent' /\ LoopFree'
<1> DEFINE new == {lastId + 1}
           r == [NoSession EXCEPT !.pc = "toss", !.fresh = new]
<1>1. new \in SUBSET Ids /\ \A m \in new : m > lastId
  BY BoundsAssumption DEF LoopInv, SentInv, Compose, TypeInv, TypeOK, Ids
<1>2. /\ Store(new, Local, [m \in new |-> a], [m \in new |-> {}])
      /\ ses' = Repack([ses EXCEPT ![w] = r], new) /\ UNCHANGED rows
  BY DEF Compose
<1>3. r \in Session /\ r.plan = {} /\ r.again = {} /\ ses \in [Workers -> Session]
  BY <1>1, NoSessionType DEF NoSession, Session, LoopInv, SentInv, TypeInv, TypeOK
<1> HIDE DEF new, r
<1>4. \A v \in Workers :
        \/ /\ ses'[v].kind = ses[v].kind /\ ses'[v].plan = ses[v].plan
           /\ ses'[v].again = ses[v].again
        \/ ses'[v].plan = {} /\ ses'[v].again = {}
  BY <1>2, <1>3 DEF Repack, Session
<1>5. QED
  BY <1>1, <1>2, <1>4, StoreLoop

LEMMA StartStepsLoop ==
  ASSUME LoopInv, NEW w \in Workers,
         \/ \E p \in Nodes \union {Hub} : Connect(w, p) \/ Dial(w, p)
         \/ \E n \in Nodes, a \in Areas, force \in BOOLEAN : CatchupRead(w, n, a, force)
  PROVE  SessionsInnocent' /\ LoopFree'
<1> USE DEF dbVars, boundVars, historyVars
<1>1. UNCHANGED <<seen, asked, rows>> /\ ses \in [Workers -> Session]
  BY DEF Connect, Dial, CatchupRead, LoopInv, SentInv, TypeInv, TypeOK
<1>2. CASE \E p \in Nodes \union {Hub} : Connect(w, p) \/ Dial(w, p)
  <2>1. \A v \in Workers : ses'[v] = ses[v] \/ (ses'[v].plan = {} /\ ses'[v].again = {})
    BY <1>1, <1>2 DEF Connect, Dial, Begin, NoSession
  <2>2. QED
    BY <1>1, <2>1, IdleLoop
<1>3. CASE \E n \in Nodes, a \in Areas, force \in BOOLEAN : CatchupRead(w, n, a, force)
  <2>1. \E plan, again : ses' = [ses EXCEPT ![w] = [NoSession EXCEPT !.pc = "insert",
                                   !.kind = "admin", !.plan = plan, !.again = again]]
    BY <1>3, Zenon DEF CatchupRead
  <2>2. ses'[w].kind = "admin" /\ \A v \in Workers \ {w} : ses'[v] = ses[v]
    BY <1>1, <2>1 DEF NoSession
  <2>3. QED
    BY <1>1, <2>2 DEF LoopInv, SessionsInnocent, Innocent, LoopFree
<1>4. QED
  BY <1>2, <1>3

LEMMA SysopLoop ==
  ASSUME LoopInv, Sysop
  PROVE  SessionsInnocent' /\ LoopFree'
<1>1. UNCHANGED <<seen, asked, ses>>
  BY DEF Sysop, Subscribe, Unsubscribe, SetActive, FlushQueue, DeleteMessage, historyVars
<1>2. \A d \in Deliveries : rows'[d] # "none" => rows[d] # "none"
  BY DEF Sysop, Subscribe, Unsubscribe, SetActive, FlushQueue, DeleteMessage
<1>3. QED
  BY <1>1, <1>2, IdleLoop

LEMMA StepLoop == ~ReuseIds => (LoopInv /\ [Next]_vars => LoopInv')
<1> SUFFICES ASSUME ~ReuseIds, LoopInv, [Next]_vars PROVE SessionsInnocent' /\ LoopFree'
  BY StepSent DEF LoopInv
<1>1. CASE \E w \in Workers : SessionStep(w) \/ Fail(w)
  BY <1>1, SendStepsLoop, ImportLoop, TossReadLoop, InsertLoop DEF SessionStep
<1>2. CASE \E w \in Workers :
             \/ \E p \in Nodes \union {Hub} : Connect(w, p) \/ Dial(w, p)
             \/ \E a \in Areas : Compose(w, a)
             \/ \E n \in Nodes, a \in Areas, force \in BOOLEAN : CatchupRead(w, n, a, force)
  BY <1>2, StartStepsLoop, ComposeLoop
<1>3. CASE Sysop
  BY <1>3, SysopLoop
<1>4. CASE UNCHANGED vars
  BY <1>4, IdleLoop DEF vars, dbVars, historyVars
<1>5. QED
  BY <1>1, <1>2, <1>3, <1>4 DEF Next

(* No node is queued a message whose SEEN-BY lists it, for any addresses,    *)
(* sessions and interleavings, unless a catch-up or rescan asked for it      *)
(* (HubToss!LoopFree).                                                      *)
THEOREM NoLoops == ~ReuseIds => (Spec => []LoopFree)
<1> SUFFICES ASSUME ~ReuseIds PROVE Spec => []LoopFree
  OBVIOUS
<1>1. LoopInv /\ [Next]_vars => LoopInv'
  BY StepLoop
<1>2. LoopInv => LoopFree
  BY DEF LoopInv
<1>3. QED
  BY <1>1, <1>2, InitLoop, PTL DEF Spec

-----------------------------------------------------------------------------
(* No bounce.  A session excludes its own peer from what it tosses, which   *)
(* is the wrong node exactly for the messages another session brought in;   *)
(* those are the overheard ones.                                            *)

Discreet(s, sender, heard) ==
  /\ \A m \in s.fresh : sender[m] = s.peer \/ m \in heard
  /\ s.kind # "admin" =>
       s.again = {} /\ \A d \in s.plan : sender[d[2]] = d[1] => d[2] \in heard

SessionsDiscreet == \A w \in Workers : Discreet(ses[w], from, overheard)

BounceInv == SentInv /\ SessionsDiscreet /\ NoBounce

LEMMA InitBounce == Init => BounceInv
<1> SUFFICES ASSUME Init PROVE BounceInv
  OBVIOUS
<1>1. SessionsDiscreet /\ NoBounce
  BY DEF Init, SessionsDiscreet, Discreet, NoSession, NoBounce
<1>2. QED
  BY <1>1, InitSent DEF BounceInv

(* A step that takes up nothing, plans nothing and queues nothing.          *)
LEMMA IdleBounce ==
  ASSUME BounceInv, UNCHANGED <<from, asked, overheard>>,
         \A d \in Deliveries : rows'[d] # "none" => rows[d] # "none",
         \A w \in Workers :
           \/ /\ ses'[w].kind = ses[w].kind /\ ses'[w].peer = ses[w].peer
              /\ ses'[w].fresh = ses[w].fresh
              /\ ses'[w].plan = ses[w].plan /\ ses'[w].again = ses[w].again
           \/ ses'[w].fresh = {} /\ ses'[w].plan = {} /\ ses'[w].again = {}
  PROVE  SessionsDiscreet' /\ NoBounce'
BY DEF BounceInv, SessionsDiscreet, Discreet, NoBounce

(* One session goes on and keeps what it has in hand, or ends.              *)
LEMMA SendStepsBounce ==
  ASSUME BounceInv, NEW w \in Workers,
         \/ Gather(w) \/ GatherForHub(w) \/ SendAccepted(w) \/ SendAckLost(w)
         \/ SendRefused(w) \/ Mark(w) \/ Receive(w) \/ Drop(w)
         \/ MarkRaises(w) \/ CollectRaises(w) \/ TossRaises(w)
         \/ InsertFails(w) \/ TossDone(w) \/ Fail(w)
  PROVE  SessionsDiscreet' /\ NoBounce'
<1> USE DEF dbVars, boundVars, historyVars
<1>1. ses \in [Workers -> Session]
  BY DEF BounceInv, SentInv, TypeInv, TypeOK
<1>2. UNCHANGED <<from, asked, overheard>>
  BY DEF Gather, GatherForHub, SendAccepted, SendAckLost, SendRefused, Mark, Receive, Drop,
         InsertFails, TossDone, Fail, MarkRaises, CollectRaises, TossRaises, CutShort
<1>3. \A d \in Deliveries : rows'[d] # "none" => rows[d] # "none"
  BY DEF Gather, GatherForHub, SendAccepted, SendAckLost, SendRefused, Mark, MarkSent,
         Receive, Drop, InsertFails, TossDone, Fail, MarkRaises, CollectRaises, TossRaises,
         CutShort
<1>4. ASSUME NEW v \in Workers
      PROVE  \/ /\ ses'[v].kind = ses[v].kind /\ ses'[v].peer = ses[v].peer
                /\ ses'[v].fresh = ses[v].fresh
                /\ ses'[v].plan = ses[v].plan /\ ses'[v].again = ses[v].again
             \/ ses'[v].fresh = {} /\ ses'[v].plan = {} /\ ses'[v].again = {}
  <2>1. ses[w] \in Session
    BY <1>1
  <2>2. CASE Quit(w)
    BY <1>1, <2>2 DEF Quit, NoSession
  <2>3. CASE \E pc \in {"recv", "collect"} : EndSend(w, pc)
    BY <1>1, <2>1, <2>3 DEF EndSend, Session
  <2>4. CASE Gather(w)
    BY <1>1, <2>1, <2>4 DEF Gather, Session
  <2>5. CASE SendAccepted(w)
    BY <1>1, <2>1, <2>5 DEF SendAccepted, Session
  <2>6. CASE Receive(w)
    BY <1>1, <2>1, <2>6 DEF Receive, Session
  <2>7. CASE GatherForHub(w)
    <3>1. PICK batch : ses' = [ses EXCEPT ![w].pc = "recv", ![w].batch = batch]
      BY <2>7, Zenon DEF GatherForHub
    <3>2. QED
      BY <1>1, <2>1, <3>1 DEF Session
  <2>8. QED
    BY <2>2, <2>3, <2>4, <2>5, <2>6, <2>7
       DEF SendAckLost, SendRefused, Mark, Drop, InsertFails, TossDone, Fail, Abandon,
           MarkRaises, CollectRaises, TossRaises, CutShort
<1>5. QED
  BY <1>2, <1>3, <1>4, IdleBounce

LEMMA CollectBounce ==
  ASSUME BounceInv, NEW w \in Workers, Collect(w)
  PROVE  SessionsDiscreet' /\ NoBounce'
<1>1. PICK found : /\ TakeUp(w, found)
                   /\ UNCHANGED <<dbVars, boundVars, from, got, asked, withdrawn, expected,
                                  abandoned, cut>>
  BY DEF Collect
<1>2. ses \in [Workers -> Session] /\ ses[w] \in Session
  BY DEF BounceInv, SentInv, TypeInv, TypeOK
<1>3. /\ ses'[w].fresh = found /\ ses'[w].peer = ses[w].peer
      /\ ses'[w].kind = ses[w].kind /\ ses'[w].plan = ses[w].plan
      /\ ses'[w].again = ses[w].again
      /\ \A v \in Workers \ {w} : ses'[v] = ses[v]
      /\ overheard' = overheard \union {m \in found : from[m] # ses[w].peer}
  BY <1>1, <1>2 DEF TakeUp, Session
<1>4. UNCHANGED <<from, asked, rows>>
  BY <1>1 DEF dbVars
<1>5. Discreet(ses'[w], from', overheard')
  BY <1>3, <1>4 DEF BounceInv, SessionsDiscreet, Discreet
<1>6. \A v \in Workers \ {w} : Discreet(ses'[v], from', overheard')
  BY <1>3, <1>4 DEF BounceInv, SessionsDiscreet, Discreet
<1>7. NoBounce'
  BY <1>3, <1>4 DEF BounceInv, NoBounce
<1>8. QED
  BY <1>5, <1>6, <1>7 DEF SessionsDiscreet

(* toss_message leaves out the peer of the session.                         *)
LEMMA PlanSparesPeer ==
  ASSUME NEW m, NEW peer, NEW d \in Plan(m, peer)
  PROVE  d[1] # peer /\ d[2] = m
<1>1. d[1] \in Nodes /\ BareAddr[d[1]] \notin Exclude(peer) /\ d[2] = m
  BY DEF Plan, Wanted, Deliveries
<1>2. QED
  BY <1>1, PeersAssumption DEF Exclude

LEMMA TossReadBounce ==
  ASSUME BounceInv, NEW w \in Workers, TossRead(w)
  PROVE  SessionsDiscreet' /\ NoBounce'
<1> USE DEF dbVars, boundVars, historyVars
<1>1. PICK m \in ses[w].fresh :
        ses' = [ses EXCEPT ![w].fresh = @ \ {m}, ![w].plan = Plan(m, ses[w].peer),
                           ![w].pc = IF Plan(m, ses[w].peer) = {} THEN "toss" ELSE "insert"]
  BY DEF TossRead, FirstFresh
<1> DEFINE plan == Plan(m, ses[w].peer)
<1>2. from[m] = ses[w].peer \/ m \in overheard
  BY DEF BounceInv, SessionsDiscreet, Discreet
<1>3. \A d \in plan : from[d[2]] = d[1] => d[2] \in overheard
  BY <1>2, PlanSparesPeer
<1>4. ses \in [Workers -> Session] /\ ses[w] \in Session
  BY DEF BounceInv, SentInv, TypeInv, TypeOK
<1> HIDE DEF plan
<1>5. /\ ses'[w].kind = ses[w].kind /\ ses'[w].again = ses[w].again /\ ses'[w].plan = plan
      /\ ses'[w].peer = ses[w].peer /\ ses'[w].fresh \subseteq ses[w].fresh
      /\ \A v \in Workers \ {w} : ses'[v] = ses[v]
  BY <1>1, <1>4 DEF Session, plan
<1>6. UNCHANGED <<from, asked, rows, overheard>>
  BY DEF TossRead
<1>7. Discreet(ses'[w], from', overheard')
  BY <1>3, <1>5, <1>6 DEF BounceInv, SessionsDiscreet, Discreet
<1>8. QED
  BY <1>5, <1>6, <1>7 DEF BounceInv, SessionsDiscreet, NoBounce

LEMMA InsertBounce ==
  ASSUME BounceInv, NEW w \in Workers, Insert(w)
  PROVE  SessionsDiscreet' /\ NoBounce'
<1> DEFINE due == ses[w].plan \union ses[w].again
<1>1. /\ rows' = [d \in Deliveries |-> IF d \in due THEN "pending" ELSE rows[d]]
      /\ asked' = IF ses[w].kind = "admin" THEN asked \union due ELSE asked
      /\ ses' = [ses EXCEPT ![w].pc = "toss", ![w].plan = {}, ![w].again = {},
                            ![w].cached = FALSE]
      /\ UNCHANGED <<from, overheard>>
  BY DEF Insert
<1>2. ses \in [Workers -> Session] /\ ses[w] \in Session
  BY DEF BounceInv, SentInv, TypeInv, TypeOK
<1>3. /\ ses'[w].plan = {} /\ ses'[w].again = {}
      /\ ses'[w].fresh = ses[w].fresh /\ ses'[w].peer = ses[w].peer
      /\ \A v \in Workers \ {w} : ses'[v] = ses[v]
  BY <1>1, <1>2 DEF Session
<1>4. \A d \in due : from[d[2]] = d[1] => d \in asked' \/ d[2] \in overheard
  BY <1>1 DEF BounceInv, SessionsDiscreet, Discreet
<1> HIDE DEF due
<1>5. NoBounce'
  BY <1>1, <1>4 DEF BounceInv, NoBounce
<1>6. QED
  BY <1>1, <1>3, <1>5 DEF BounceInv, SessionsDiscreet, Discreet

LEMMA AboveIsNew == \A m, k \in Nat : m > k => ~(m <= k)
OBVIOUS

(* New messages are in the hands of the session that stores them, in        *)
(* nobody's plan and in no row.                                             *)
LEMMA StoreBounce ==
  ASSUME BounceInv, NEW new \in SUBSET Ids, \A m \in new : m > lastId,
         NEW sender, NEW areaOf, NEW seenOf, Store(new, sender, areaOf, seenOf), UNCHANGED rows,
         \A w \in Workers :
           \/ /\ ses'[w].kind = ses[w].kind /\ ses'[w].peer = ses[w].peer
              /\ ses'[w].plan = ses[w].plan /\ ses'[w].again = ses[w].again
              /\ \/ ses'[w].fresh = ses[w].fresh
                 \/ ses'[w].fresh = new /\ ses[w].peer = sender
           \/ /\ ses'[w].plan = {} /\ ses'[w].again = {}
              /\ ses'[w].fresh = new /\ ses'[w].peer = sender
  PROVE  SessionsDiscreet' /\ NoBounce'
<1>1. lastId \in Nat /\ Ids \subseteq Nat /\ \A d \in Deliveries : d[2] \in Ids
  BY BoundsAssumption DEF BounceInv, SentInv, TypeInv, TypeOK, Ids, Deliveries
<1>2. \A m \in Ids : m <= lastId =>
        m \notin new /\ from'[m] = from[m] /\ (m \in overheard => m \in overheard')
  <2>1. /\ from' = [m \in Ids |-> IF m \in new THEN sender ELSE from[m]]
        /\ overheard' = overheard \ new
    BY DEF Store
  <2>2. \A m \in new : ~(m <= lastId)
    <3> SUFFICES ASSUME NEW m \in new PROVE ~(m <= lastId)
      OBVIOUS
    <3>1. m \in Nat /\ m > lastId
      BY <1>1, Zenon
    <3>2. QED
      BY <1>1, <3>1, AboveIsNew
  <2>3. \A m \in Ids : m <= lastId => m \notin new
    BY <2>2, Zenon
  <2>4. QED
    BY <2>1, <2>3
<1>3. \A m \in new : from'[m] = sender
  BY DEF Store
<1>4. SessionsDiscreet'
  <2> SUFFICES ASSUME NEW w \in Workers PROVE Discreet(ses'[w], from', overheard')
    BY DEF SessionsDiscreet
  <2>1. /\ \A m \in ses[w].fresh : m \in Ids /\ m <= lastId
        /\ \A d \in ses[w].plan : d \in Deliveries /\ d[2] <= lastId
    BY DEF BounceInv, SentInv, TypeInv, TypeOK, Session, SessionsHonest, Honest
  <2>2. /\ \A m \in ses[w].fresh : from'[m] = from[m] /\ (m \in overheard => m \in overheard')
        /\ \A d \in ses[w].plan :
             from'[d[2]] = from[d[2]] /\ (d[2] \in overheard => d[2] \in overheard')
    BY <1>1, <1>2, <2>1
  <2>3. Discreet(ses[w], from, overheard)
    BY DEF BounceInv, SessionsDiscreet
  <2>4. QED
    BY <1>3, <2>2, <2>3 DEF Discreet
<1>5. NoBounce'
  <2> SUFFICES ASSUME NEW d \in Deliveries, rows[d] # "none", from'[d[2]] = d[1]
               PROVE  d \in asked' \/ d[2] \in overheard'
    BY DEF NoBounce
  <2>1. d[2] \in Ids /\ d[2] <= lastId
    BY <1>1 DEF BounceInv, SentInv, IdsKnown
  <2>2. d[2] \notin new /\ from'[d[2]] = from[d[2]]
    BY <1>2, <2>1
  <2>3. d \in asked \/ d[2] \in overheard
    BY <2>2 DEF BounceInv, NoBounce
  <2>4. QED
    BY <2>2, <2>3 DEF Store, Forget
<1>6. QED
  BY <1>4, <1>5

LEMMA ImportBounce ==
  ASSUME BounceInv, NEW w \in Workers, Import(w)
  PROVE  SessionsDiscreet' /\ NoBounce'
<1> DEFINE pc == IF ses[w].kind = "listen" THEN "toss"
                 ELSE IF ses[w].acked THEN "mark" ELSE "collect"
           News(k) == lastId + 1 .. lastId + k
<1>1. PICK k \in 0 .. MaxImport :
        /\ lastId + k <= MaxMsg
        /\ \E areaOf, seenOf : Store(News(k), ses[w].peer, areaOf, seenOf)
        /\ ses' = Repack([ses EXCEPT ![w].fresh = News(k), ![w].pc = pc], News(k))
  <2>1. \E k \in 0 .. MaxImport :
          /\ lastId + k <= MaxMsg
          /\ \E areaOf \in [News(k) -> Areas], seenOf \in [News(k) -> SeenBys] :
               Store(News(k), ses[w].peer, areaOf, seenOf)
          /\ ses' = Repack([ses EXCEPT ![w].fresh = News(k), ![w].pc = pc], News(k))
    BY DEF Import
  <2> HIDE DEF News, pc
  <2>2. QED
    BY <2>1, Zenon
<1> DEFINE new == News(k)
<1>2. TypeInv /\ ses \in [Workers -> Session] /\ ses[w] \in Session
  BY DEF BounceInv, SentInv, TypeInv, TypeOK
<1>3. new \in SUBSET Ids /\ \A m \in new : m > lastId
  BY <1>1, <1>2, NewIdsType, BoundsAssumption DEF TypeInv, TypeOK
<1> HIDE DEF News, pc
<1>4. \A v \in Workers : /\ ses'[v].kind = ses[v].kind /\ ses'[v].peer = ses[v].peer
                         /\ ses'[v].plan = ses[v].plan /\ ses'[v].again = ses[v].again
                         /\ ses'[v].fresh = IF v = w THEN new ELSE ses[v].fresh
  BY <1>1, <1>2 DEF Repack, Session
<1>5. PICK areaOf, seenOf : Store(new, ses[w].peer, areaOf, seenOf)
  BY <1>1
<1> HIDE DEF new
<1>6. UNCHANGED rows
  BY DEF Import
<1>7. QED
  BY <1>3, <1>4, <1>5, <1>6, StoreBounce

LEMMA ComposeBounce ==
  ASSUME BounceInv, NEW w \in Workers, NEW a \in Areas, Compose(w, a)
  PROVE  SessionsDiscreet' /\ NoBounce'
<1> DEFINE new == {lastId + 1}
           r == [NoSession EXCEPT !.pc = "toss", !.fresh = new]
<1>1. new \in SUBSET Ids /\ \A m \in new : m > lastId
  BY BoundsAssumption DEF BounceInv, SentInv, Compose, TypeInv, TypeOK, Ids
<1>2. /\ Store(new, Local, [m \in new |-> a], [m \in new |-> {}])
      /\ ses' = Repack([ses EXCEPT ![w] = r], new) /\ UNCHANGED rows
  BY DEF Compose
<1>3. /\ r \in Session /\ r.plan = {} /\ r.again = {} /\ r.fresh = new /\ r.peer = Local
      /\ ses \in [Workers -> Session]
  BY <1>1, NoSessionType DEF NoSession, Session, BounceInv, SentInv, TypeInv, TypeOK
<1> HIDE DEF new, r
<1>4. \A v \in Workers :
        /\ ses'[v].kind = IF v = w THEN r.kind ELSE ses[v].kind
        /\ ses'[v].peer = IF v = w THEN r.peer ELSE ses[v].peer
        /\ ses'[v].plan = IF v = w THEN r.plan ELSE ses[v].plan
        /\ ses'[v].again = IF v = w THEN r.again ELSE ses[v].again
        /\ ses'[v].fresh = IF v = w THEN r.fresh ELSE ses[v].fresh
  BY <1>2, <1>3 DEF Repack, Session
<1>5. \A v \in Workers :
        \/ /\ ses'[v].kind = ses[v].kind /\ ses'[v].peer = ses[v].peer
           /\ ses'[v].plan = ses[v].plan /\ ses'[v].again = ses[v].again
           /\ ses'[v].fresh = ses[v].fresh
        \/ /\ ses'[v].plan = {} /\ ses'[v].again = {}
           /\ ses'[v].fresh = new /\ ses'[v].peer = Local
  BY <1>3, <1>4
<1>6. \E areaOf, seenOf : Store(new, Local, areaOf, seenOf)
  BY <1>2
<1>7. PICK areaOf, seenOf : Store(new, Local, areaOf, seenOf)
  BY <1>6
<1>8. UNCHANGED rows
  BY <1>2
<1>9. QED
  BY <1>1, <1>5, <1>7, <1>8, StoreBounce

LEMMA StartStepsBounce ==
  ASSUME BounceInv, NEW w \in Workers,
         \/ \E p \in Nodes \union {Hub} : Connect(w, p) \/ Dial(w, p)
         \/ \E n \in Nodes, a \in Areas, force \in BOOLEAN : CatchupRead(w, n, a, force)
  PROVE  SessionsDiscreet' /\ NoBounce'
<1> USE DEF dbVars, boundVars, historyVars
<1>1. UNCHANGED <<from, asked, rows, overheard>> /\ ses \in [Workers -> Session]
  BY DEF Connect, Dial, CatchupRead, BounceInv, SentInv, TypeInv, TypeOK
<1>2. CASE \E p \in Nodes \union {Hub} : Connect(w, p) \/ Dial(w, p)
  <2>1. \A v \in Workers :
          ses'[v] = ses[v] \/ (ses'[v].fresh = {} /\ ses'[v].plan = {} /\ ses'[v].again = {})
    <3>1. PICK p, kind : Begin(w, kind, p, "open")
      BY <1>2, Zenon DEF Connect, Dial
    <3>2. QED
      BY <1>1, <3>1 DEF Begin, NoSession
  <2>2. QED
    BY <1>1, <2>1, IdleBounce
<1>3. CASE \E n \in Nodes, a \in Areas, force \in BOOLEAN : CatchupRead(w, n, a, force)
  <2>1. \E plan, again : ses' = [ses EXCEPT ![w] = [NoSession EXCEPT !.pc = "insert",
                                   !.kind = "admin", !.plan = plan, !.again = again]]
    BY <1>3, Zenon DEF CatchupRead
  <2>2. /\ ses'[w].kind = "admin" /\ ses'[w].fresh = {}
        /\ \A v \in Workers \ {w} : ses'[v] = ses[v]
    BY <1>1, <2>1 DEF NoSession
  <2>3. QED
    BY <1>1, <2>2 DEF BounceInv, SessionsDiscreet, Discreet, NoBounce
<1>4. QED
  BY <1>2, <1>3

LEMMA SysopBounce ==
  ASSUME BounceInv, Sysop
  PROVE  SessionsDiscreet' /\ NoBounce'
<1>1. UNCHANGED <<from, asked, ses, overheard>>
  BY DEF Sysop, Subscribe, Unsubscribe, SetActive, FlushQueue, DeleteMessage, historyVars
<1>2. \A d \in Deliveries : rows'[d] # "none" => rows[d] # "none"
  BY DEF Sysop, Subscribe, Unsubscribe, SetActive, FlushQueue, DeleteMessage
<1>3. QED
  BY <1>1, <1>2, IdleBounce

LEMMA StepBounce == ~ReuseIds => (BounceInv /\ [Next]_vars => BounceInv')
<1> SUFFICES ASSUME ~ReuseIds, BounceInv, [Next]_vars PROVE SessionsDiscreet' /\ NoBounce'
  BY StepSent DEF BounceInv
<1>1. CASE \E w \in Workers : SessionStep(w) \/ Fail(w)
  BY <1>1, SendStepsBounce, ImportBounce, CollectBounce, TossReadBounce, InsertBounce
     DEF SessionStep
<1>2. CASE \E w \in Workers :
             \/ \E p \in Nodes \union {Hub} : Connect(w, p) \/ Dial(w, p)
             \/ \E a \in Areas : Compose(w, a)
             \/ \E n \in Nodes, a \in Areas, force \in BOOLEAN : CatchupRead(w, n, a, force)
  BY <1>2, StartStepsBounce, ComposeBounce
<1>3. CASE Sysop
  BY <1>3, SysopBounce
<1>4. CASE UNCHANGED vars
  BY <1>4, IdleBounce DEF vars, dbVars, historyVars
<1>5. QED
  BY <1>1, <1>2, <1>3, <1>4 DEF Next

(* No node is queued a message it brought in itself, for any number of      *)
(* sessions and any interleaving of them, unless a catch-up or rescan asked *)
(* for it or a session with another peer collected it: the one way past     *)
(* exclude_peer_address, and the only one (HubToss!NoBounce).               *)
THEOREM BounceSafe == ~ReuseIds => (Spec => []NoBounce)
<1> SUFFICES ASSUME ~ReuseIds PROVE Spec => []NoBounce
  OBVIOUS
<1>1. BounceInv /\ [Next]_vars => BounceInv'
  BY StepBounce
<1>2. BounceInv => NoBounce
  BY DEF BounceInv
<1>3. QED
  BY <1>1, <1>2, InitBounce, PTL DEF Spec

-----------------------------------------------------------------------------
(* Fan-out.  From its import to its hold rows a message exists for the toss *)
(* only in the memory of sessions, and several may have collected it.  The  *)
(* one that counts is the session of the peer that brought it in: another,  *)
(* which dialled its own peer and found the message newer than its          *)
(* snapshot, leaves that peer out instead.  The invariant follows the       *)
(* message through that session's fresh and plan.                           *)

(* With equal bare addresses exclude_peer_address leaves out another node   *)
(* as well.                                                                 *)
DistinctAddrs ==
  \A p, q \in Nodes \union {Hub} : BareAddr[p] = BareAddr[q] => p = q

(* Session s, of the peer that brought the message in, has still to toss it *)
(* or to insert the row it has planned.                                     *)
Hand(s, d, sender) ==
  \/ d[2] \in s.fresh /\ s.peer = sender
  \/ d \in s.plan /\ s.kind # "admin"

(* A session names imported messages only from its import to its toss, and  *)
(* its snapshot and the batch it has sent are older than all of them.       *)
Orderly(s, last) ==
  /\ s.pc \notin {"mark", "collect", "toss", "insert"} => s.fresh = {}
  /\ s.kind = "listen" /\ s.pc = "mark" => s.fresh = {}
  /\ s.kind = "admin" => s.fresh = {}
  /\ s.pc # "insert" => s.plan = {} /\ s.again = {}
  /\ s.pc \in {"open", "send", "mark", "recv", "import", "collect"} =>
       s.peer # Local /\ s.kind \in {"listen", "dial"}
  /\ s.pc = "collect" => s.kind = "dial"
  /\ s.snap <= last
  /\ s.pc \in {"mark", "collect"} =>
       /\ \A m \in s.fresh : m > s.snap
       /\ \A k \in s.batch, m \in s.fresh : k < m

SessionsOrderly == \A w \in Workers : Orderly(ses[w], lastId)

(* A delivery is expected only as long as toss_message would choose it.     *)
ExpectedIsDue ==
  \A d \in expected : d[1] \in Due(area[d[2]], seen[d[2]], from[d[2]]) /\ d[2] <= lastId

Lost == abandoned \union cut

ExpectedInHand ==
  DistinctAddrs => \A d \in expected :
    Settled(d) \/ d[2] \in Lost \/ \E w \in Workers : Hand(ses[w], d, from[d[2]])

(* What a session gives up when it meets a deleted message is newer.        *)
BehindDeleted(m) == m \notin stored \/ \E k \in 1 .. m - 1 : k \notin stored

CutBehindDeleted == \A m \in cut : m <= lastId /\ BehindDeleted(m)

HandInv ==
  SentInv /\ SessionsOrderly /\ ExpectedIsDue /\ ExpectedInHand /\ CutBehindDeleted

LEMMA NoSessionOrderly == \A last \in Nat : Orderly(NoSession, last)
BY DEF Orderly, NoSession

LEMMA InitHand == Init => HandInv
<1> SUFFICES ASSUME Init
             PROVE  SessionsOrderly /\ ExpectedIsDue /\ ExpectedInHand /\ CutBehindDeleted
  BY InitSent DEF HandInv
<1>1. \A w \in Workers : ses[w] = NoSession
  BY DEF Init
<1>2. lastId \in Nat /\ expected = {} /\ cut = {}
  BY DEF Init
<1>3. QED
  BY <1>1, <1>2, NoSessionOrderly
     DEF SessionsOrderly, ExpectedIsDue, ExpectedInHand, CutBehindDeleted

LEMMA HandTypes ==
  ASSUME HandInv
  PROVE  /\ TypeInv /\ ses \in [Workers -> Session] /\ lastId \in Nat
         /\ Ids \subseteq Nat /\ expected \subseteq Deliveries
         /\ \A w \in Workers : ses[w] \in Session /\ Orderly(ses[w], lastId)
         /\ \A d \in Deliveries : d[1] \in Nodes /\ d[2] \in Ids /\ d = <<d[1], d[2]>>
<1>1. TypeInv /\ TypeOK
  BY DEF HandInv, SentInv, TypeInv
<1>2. ses \in [Workers -> Session] /\ expected \subseteq Deliveries /\ lastId \in Nat
  BY <1>1, BoundsAssumption DEF TypeOK
<1>3. Ids \subseteq Nat
  BY BoundsAssumption DEF Ids
<1>4. \A w \in Workers : ses[w] \in Session /\ Orderly(ses[w], lastId)
  BY <1>2 DEF HandInv, SessionsOrderly
<1>5. \A d \in Deliveries : d[1] \in Nodes /\ d[2] \in Ids /\ d = <<d[1], d[2]>>
  BY DEF Deliveries
<1>6. QED
  BY <1>1, <1>2, <1>3, <1>4, <1>5

LEMMA OrderlyMonotone ==
  ASSUME NEW s \in Session, NEW last \in Nat, NEW next \in Nat, Orderly(s, last), last <= next
  PROVE  Orderly(s, next)
<1>1. s.snap \in Nat /\ s.snap <= next
  BY BoundsAssumption DEF Session, Orderly
<1>2. QED
  BY <1>1 DEF Orderly

(* The snapshot a session takes covers every inbound message there is.      *)
LEMMA NewestInbound ==
  ASSUME SentInv
  PROVE  /\ Newest(Inbound) \in Nat /\ Newest(Inbound) <= lastId
         /\ \A m \in Inbound : m <= Newest(Inbound)
<1>1. Inbound \subseteq stored /\ stored \subseteq Ids /\ lastId \in Nat
  BY BoundsAssumption DEF Inbound, SentInv, TypeInv, TypeOK
<1>2. Inbound \in SUBSET (0 .. MaxMsg)
  BY <1>1, BoundsAssumption DEF Ids
<1>3. Newest(Inbound) \in Inbound \union {0} /\ \A m \in Inbound : m <= Newest(Inbound)
  BY <1>2, NewestIsLargest
<1>4. \A m \in Inbound : m \in Nat /\ m <= lastId
  BY <1>1, <1>2, BoundsAssumption DEF SentInv, IdsKnown
<1>5. QED
  BY <1>1, <1>3, <1>4

(* One session takes a step that stores no message.                         *)
LEMMA SessionStepOrderly ==
  ASSUME HandInv, UNCHANGED lastId, NEW w \in Workers, NEW r,
         ses' = [ses EXCEPT ![w] = r], Orderly(r, lastId)
  PROVE  SessionsOrderly'
<1>1. \A v \in Workers : ses'[v] = IF v = w THEN r ELSE ses[v]
  BY HandTypes
<1>2. \A v \in Workers : Orderly(ses'[v], lastId)
  BY <1>1, HandTypes
<1>3. QED
  BY <1>2 DEF SessionsOrderly

(* Nothing that is due changes.                                             *)
LEMMA QuietDue ==
  ASSUME HandInv, UNCHANGED <<area, seen, from, subs, active, lastId, expected>>
  PROVE  ExpectedIsDue'
BY DEF HandInv, ExpectedIsDue, Due

(* Nothing is cut short and no message comes or goes.                       *)
LEMMA QuietCut ==
  ASSUME HandInv, UNCHANGED <<stored, lastId, cut>>
  PROVE  CutBehindDeleted'
BY DEF HandInv, CutBehindDeleted, BehindDeleted

(* A delivery stays in the same hands, or its hands have let go of it.      *)
LEMMA SessionStepHand ==
  ASSUME HandInv, NEW w \in Workers, NEW r, ses' = [ses EXCEPT ![w] = r],
         UNCHANGED <<from, expected>>, Lost \subseteq Lost',
         \A d \in expected : Settled(d) => Settled(d)',
         DistinctAddrs => \A d \in expected :
           ~Settled(d) /\ Hand(ses[w], d, from[d[2]]) =>
             Settled(d)' \/ d[2] \in Lost' \/ Hand(r, d, from[d[2]])
  PROVE  ExpectedInHand'
<1> SUFFICES ASSUME DistinctAddrs, NEW d \in expected, ~Settled(d)', d[2] \notin Lost'
             PROVE  \E v \in Workers : Hand(ses'[v], d, from[d[2]])
  BY DEF ExpectedInHand
<1>1. PICK v \in Workers : Hand(ses[v], d, from[d[2]])
  BY DEF HandInv, ExpectedInHand
<1>2. ses'[w] = r /\ \A u \in Workers \ {w} : ses'[u] = ses[u]
  BY HandTypes
<1>3. QED
  BY <1>1, <1>2

(* A hold row once there is taken away only by the sysop.                   *)
LEMMA RowsKeepSettled ==
  ASSUME NEW d, UNCHANGED <<withdrawn, stored>>, rows[d] # "none" => rows'[d] # "none"
  PROVE  Settled(d) => Settled(d)'
BY DEF Settled

HandStep == SessionsOrderly' /\ ExpectedIsDue' /\ ExpectedInHand' /\ CutBehindDeleted'

LEMMA SendStepsHand ==
  ASSUME HandInv, NEW w \in Workers,
         \/ Gather(w) \/ GatherForHub(w) \/ SendAccepted(w) \/ SendAckLost(w)
         \/ SendRefused(w) \/ Mark(w) \/ Receive(w)
  PROVE  HandStep
<1> USE DEF dbVars, boundVars, historyVars
<1>1. /\ ses[w] \in Session /\ Orderly(ses[w], lastId) /\ SentInv
      /\ lastId \in Nat /\ expected \subseteq Deliveries
  BY HandTypes DEF HandInv
<1>2. UNCHANGED <<stored, lastId, area, seen, from, subs, active, expected, abandoned, cut,
                  withdrawn>>
  BY DEF Gather, GatherForHub, SendAccepted, SendAckLost, SendRefused, Mark, Receive
<1>3. \A d \in Deliveries : rows[d] # "none" => rows'[d] # "none"
  BY DEF Gather, GatherForHub, SendAccepted, SendAckLost, SendRefused, Mark, MarkSent, Receive
<1>4. ASSUME NEW r \in Session, ses' = [ses EXCEPT ![w] = r], Orderly(r, lastId),
             r.fresh = ses[w].fresh, r.plan = ses[w].plan,
             r.peer = ses[w].peer, r.kind = ses[w].kind
      PROVE  HandStep
  <2>1. \A d \in expected : Settled(d) => Settled(d)'
    BY <1>1, <1>2, <1>3, RowsKeepSettled
  <2>2. \A d \in expected : Hand(ses[w], d, from[d[2]]) => Hand(r, d, from[d[2]])
    BY <1>4 DEF Hand
  <2>3. ExpectedInHand'
    BY <1>2, <1>4, <2>1, <2>2, SessionStepHand DEF Lost
  <2>4. SessionsOrderly'
    BY <1>2, <1>4, SessionStepOrderly
  <2>5. QED
    BY <1>2, <2>3, <2>4, QuietDue, QuietCut DEF HandStep
<1>5. ASSUME NEW pc \in {"recv", "collect"}, EndSend(w, pc),
             ses[w].pc \in {"send", "mark"},
             pc = "recv" => ses[w].fresh = {},
             pc = "collect" => ses[w].pc = "mark" /\ ses[w].kind # "listen"
      PROVE  HandStep
  <2> DEFINE r == [ses[w] EXCEPT !.pc = pc, !.batch = {}, !.pkt = {}, !.acked = FALSE]
  <2>1. ses' = [ses EXCEPT ![w] = r]
    BY <1>5 DEF EndSend
  <2>2. /\ r \in Session /\ r.fresh = ses[w].fresh /\ r.plan = ses[w].plan
        /\ r.peer = ses[w].peer /\ r.kind = ses[w].kind
    BY <1>1 DEF Session
  <2>3. Orderly(r, lastId)
    BY <1>1, <1>5 DEF Orderly, Session
  <2> HIDE DEF r
  <2>4. QED
    BY <1>4, <2>1, <2>2, <2>3
<1>6. CASE Gather(w)
  <2> DEFINE due == PendingFor(ses[w].peer)
             snap == IF ses[w].kind = "dial" THEN Newest(Inbound) ELSE 0
             r == [ses[w] EXCEPT !.pc = IF due = {} THEN "recv" ELSE "send",
                                 !.batch = due, !.pkt = due, !.snap = snap]
  <2>1. ses' = [ses EXCEPT ![w] = r] /\ ses[w].pc = "open"
    BY <1>6 DEF Gather
  <2>2. snap \in 0 .. MaxMsg /\ snap <= lastId
    BY <1>1, NewestInbound, NewestInboundType, BoundsAssumption DEF SentInv
  <2>3. due \subseteq Ids
    BY <1>1, PendingForType DEF SentInv
  <2> HIDE DEF due, snap
  <2>4. /\ r \in Session /\ r.fresh = ses[w].fresh /\ r.plan = ses[w].plan
        /\ r.peer = ses[w].peer /\ r.kind = ses[w].kind
    BY <1>1, <2>2, <2>3 DEF Session
  <2>5. Orderly(r, lastId)
    BY <1>1, <2>1, <2>2 DEF Orderly, Session
  <2> HIDE DEF r
  <2>6. QED
    BY <1>4, <2>1, <2>4, <2>5
<1>7. CASE SendAccepted(w)
  <2> DEFINE r == [ses[w] EXCEPT !.acked = TRUE,
                                 !.pc = IF ses[w].kind = "listen" THEN "mark" ELSE "recv"]
  <2>1. ses' = [ses EXCEPT ![w] = r] /\ ses[w].pc = "send"
    BY <1>7 DEF SendAccepted
  <2>2. /\ r \in Session /\ r.fresh = ses[w].fresh /\ r.plan = ses[w].plan
        /\ r.peer = ses[w].peer /\ r.kind = ses[w].kind
    BY <1>1 DEF Session
  <2>3. Orderly(r, lastId)
    BY <1>1, <2>1 DEF Orderly, Session
  <2> HIDE DEF r
  <2>4. QED
    BY <1>4, <2>1, <2>2, <2>3
<1>8. CASE SendAckLost(w) \/ SendRefused(w)
  <2>1. ses[w].pc = "send" /\ EndSend(w, "recv")
    BY <1>8 DEF SendAckLost, SendRefused
  <2>2. ses[w].fresh = {}
    BY <1>1, <2>1 DEF Orderly
  <2>3. QED
    BY <1>5, <2>1, <2>2
<1>9. CASE Mark(w)
  <2> DEFINE pc == IF ses[w].kind = "listen" THEN "recv" ELSE "collect"
  <2>1. ses[w].pc = "mark" /\ EndSend(w, pc)
    BY <1>9 DEF Mark
  <2>2. pc = "recv" => ses[w].fresh = {}
    BY <1>1, <2>1 DEF Orderly
  <2>3. QED
    BY <1>5, <2>1, <2>2
<1>10. CASE Receive(w)
  <2> DEFINE snap == IF ses[w].kind = "dial" /\ ses[w].peer = Hub
                     THEN Newest(Inbound) ELSE ses[w].snap
             r == [ses[w] EXCEPT !.pc = "import", !.snap = snap]
  <2>1. ses' = [ses EXCEPT ![w] = r] /\ ses[w].pc = "recv"
    BY <1>10 DEF Receive
  <2>2. snap \in 0 .. MaxMsg /\ snap <= lastId
    BY <1>1, NewestInbound, NewestInboundType DEF SentInv, Session, Orderly
  <2> HIDE DEF snap
  <2>3. /\ r \in Session /\ r.fresh = ses[w].fresh /\ r.plan = ses[w].plan
        /\ r.peer = ses[w].peer /\ r.kind = ses[w].kind
    BY <1>1, <2>2 DEF Session
  <2>4. Orderly(r, lastId)
    BY <1>1, <2>1, <2>2 DEF Orderly, Session
  <2> HIDE DEF r
  <2>5. QED
    BY <1>4, <2>1, <2>3, <2>4
<1>11. CASE GatherForHub(w)
  <2>1. PICK batch \in SUBSET stored :
          ses' = [ses EXCEPT ![w].pc = "recv", ![w].batch = batch]
    BY <1>11, Zenon DEF GatherForHub
  <2> DEFINE r == [ses[w] EXCEPT !.pc = "recv", !.batch = batch]
  <2>2. ses' = [ses EXCEPT ![w] = r] /\ ses[w].pc = "open" /\ batch \subseteq Ids
    BY <1>11, <2>1, HandTypes DEF GatherForHub, TypeInv, TypeOK
  <2>3. /\ r \in Session /\ r.fresh = ses[w].fresh /\ r.plan = ses[w].plan
        /\ r.peer = ses[w].peer /\ r.kind = ses[w].kind
    BY <1>1, <2>2 DEF Session
  <2>4. Orderly(r, lastId)
    BY <1>1, <2>2 DEF Orderly, Session
  <2> HIDE DEF r
  <2>5. QED
    BY <1>4, <2>2, <2>3, <2>4
<1>12. QED
  BY <1>6, <1>7, <1>8, <1>9, <1>10, <1>11

(* toss_message chooses every node a message is expected for, if the        *)
(* session is the one of the peer it came from.                             *)
LEMMA OwnerPlansExpected ==
  ASSUME DistinctAddrs, HandInv, NEW d \in expected, ~Settled(d)
  PROVE  d \in Plan(d[2], from[d[2]])
<1>1. d \in Deliveries /\ d[1] \in Nodes /\ d[2] \in Ids
  BY HandTypes
<1>2. from[d[2]] \in Peers
  BY <1>1, HandTypes DEF TypeInv, TypeOK
<1>3. d[1] \in Due(area[d[2]], seen[d[2]], from[d[2]])
  BY DEF HandInv, ExpectedIsDue
<1>4. BareAddr[d[1]] \notin Exclude(from[d[2]])
  BY <1>1, <1>2, <1>3 DEF Exclude, DistinctAddrs, Due, Peers
<1>5. d[1] \in Wanted(area[d[2]], seen[d[2]], from[d[2]])
  BY <1>3, <1>4 DEF Due, Wanted
<1>6. QED
  BY <1>1, <1>5 DEF Plan, Settled

LEMMA TossReadHand ==
  ASSUME HandInv, NEW w \in Workers, TossRead(w)
  PROVE  HandStep
<1> USE DEF dbVars, boundVars, historyVars
<1>1. PICK m \in ses[w].fresh :
        ses' = [ses EXCEPT ![w].fresh = @ \ {m}, ![w].plan = Plan(m, ses[w].peer),
                           ![w].pc = IF Plan(m, ses[w].peer) = {} THEN "toss" ELSE "insert"]
  BY DEF TossRead, FirstFresh
<1> DEFINE plan == Plan(m, ses[w].peer)
           r == [ses[w] EXCEPT !.fresh = @ \ {m}, !.plan = plan,
                               !.pc = IF plan = {} THEN "toss" ELSE "insert"]
<1>2. ses' = [ses EXCEPT ![w] = r]
  BY <1>1
<1>3. /\ ses[w] \in Session /\ Orderly(ses[w], lastId) /\ ses[w].pc = "toss"
      /\ UNCHANGED <<dbVars, historyVars>>
  BY HandTypes DEF TossRead
<1>4. Orderly(r, lastId)
  <2> HIDE DEF plan
  <2>1. QED
    BY <1>3 DEF Orderly, Session
<1>5. \A d \in expected : Settled(d) => Settled(d)'
  BY <1>3, RowsKeepSettled
<1>6. ASSUME DistinctAddrs, NEW d \in expected, Hand(ses[w], d, from[d[2]]), ~Settled(d)
      PROVE  Hand(r, d, from[d[2]])
  <2>1. d \in Plan(d[2], from[d[2]])
    BY <1>6, OwnerPlansExpected
  <2>2. ses[w].kind # "admin" /\ ses[w].plan = {}
    BY <1>1, <1>3 DEF Orderly
  <2>3. /\ r.kind = ses[w].kind /\ r.peer = ses[w].peer /\ r.plan = plan
        /\ r.fresh = ses[w].fresh \ {m}
    BY <1>3 DEF Session
  <2> HIDE DEF r
  <2>4. CASE d[2] = m
    BY <1>6, <2>1, <2>2, <2>3, <2>4 DEF Hand
  <2>5. CASE d[2] # m
    BY <1>6, <2>2, <2>3, <2>5 DEF Hand
  <2>6. QED
    BY <2>4, <2>5
<1> HIDE DEF r
<1>7. ExpectedInHand'
  BY <1>2, <1>3, <1>5, <1>6, SessionStepHand DEF Lost
<1>8. QED
  BY <1>2, <1>3, <1>4, <1>7, SessionStepOrderly, QuietDue, QuietCut DEF HandStep

LEMMA CollectHand ==
  ASSUME HandInv, NEW w \in Workers, Collect(w)
  PROVE  HandStep
<1> USE DEF dbVars, boundVars, historyVars
<1> DEFINE fresh == IF ses[w].fresh = {} THEN {} ELSE {m \in Inbound : m > ses[w].snap}
           r == [ses[w] EXCEPT !.pc = "toss", !.batch = {}, !.snap = 0,
                               !.fresh = fresh, !.cached = TRUE]
<1>1. /\ ses[w] \in Session /\ Orderly(ses[w], lastId) /\ ses[w].pc = "collect"
      /\ ses' = [ses EXCEPT ![w] = r] /\ lastId \in Nat
      /\ UNCHANGED <<dbVars, from, withdrawn, expected, abandoned, cut>>
  BY HandTypes DEF Collect, TakeUp
<1>2. /\ r.pc = "toss" /\ r.snap = 0 /\ r.fresh = fresh
      /\ r.plan = ses[w].plan /\ r.again = ses[w].again
      /\ r.kind = ses[w].kind /\ r.peer = ses[w].peer
  BY <1>1 DEF Session
<1>3. Orderly(r, lastId)
  <2>1. ses[w].kind = "admin" => fresh = {}
    BY <1>1 DEF Orderly
  <2> HIDE DEF fresh, r
  <2>2. QED
    BY <1>1, <1>2, <2>1 DEF Orderly
<1>4. \A d \in expected : Settled(d) => Settled(d)'
  BY <1>1, RowsKeepSettled
<1>5. ASSUME NEW d \in expected, Hand(ses[w], d, from[d[2]]), ~Settled(d)
      PROVE  Hand(r, d, from[d[2]])
  <2>1. d[2] \in ses[w].fresh /\ ses[w].peer = from[d[2]] /\ ses[w].peer # Local
    BY <1>1, <1>5 DEF Orderly, Hand
  <2>2. d[2] \in stored /\ d[2] > ses[w].snap
    BY <1>1, <1>5, <2>1 DEF Orderly, Settled
  <2>3. d[2] \in fresh
    BY <2>1, <2>2 DEF Inbound
  <2>4. QED
    BY <1>2, <2>1, <2>3 DEF Hand
<1> HIDE DEF r
<1>6. ExpectedInHand'
  BY <1>1, <1>4, <1>5, SessionStepHand DEF Lost
<1>7. QED
  BY <1>1, <1>3, <1>6, SessionStepOrderly, QuietDue, QuietCut DEF HandStep

LEMMA InsertHand ==
  ASSUME HandInv, NEW w \in Workers, Insert(w)
  PROVE  HandStep
<1> DEFINE due == ses[w].plan \union ses[w].again
           r == [ses[w] EXCEPT !.pc = "toss", !.plan = {}, !.again = {}, !.cached = FALSE]
<1>1. /\ ses[w] \in Session /\ Orderly(ses[w], lastId) /\ ses[w].pc = "insert"
      /\ expected \subseteq Deliveries
  BY HandTypes DEF Insert
<1>2. /\ ses' = [ses EXCEPT ![w] = r]
      /\ rows' = [d \in Deliveries |-> IF d \in due THEN "pending" ELSE rows[d]]
      /\ withdrawn' = withdrawn \ due
      /\ UNCHANGED <<stored, lastId, area, seen, subs, active, from, expected, abandoned, cut>>
  BY DEF Insert
<1>3. Orderly(r, lastId) /\ r.fresh = ses[w].fresh /\ r.peer = ses[w].peer
  BY <1>1 DEF Orderly, Session
<1>4. \A d \in expected : Settled(d) => Settled(d)'
  BY <1>1, <1>2 DEF Settled
<1>5. \A d \in expected : Hand(ses[w], d, from[d[2]]) => Settled(d)' \/ Hand(r, d, from[d[2]])
  BY <1>1, <1>2, <1>3 DEF Settled, Hand
<1> HIDE DEF r, due
<1>6. ExpectedInHand'
  BY <1>2, <1>4, <1>5, SessionStepHand DEF Lost
<1>7. QED
  BY <1>2, <1>3, <1>6, SessionStepOrderly, QuietDue, QuietCut DEF HandStep

(* A session that ends has nothing in hand, or gives it up.                 *)
LEMMA EndStepsHand ==
  ASSUME HandInv, NEW w \in Workers,
         Drop(w) \/ TossDone(w) \/ InsertFails(w) \/ Fail(w)
  PROVE  HandStep
<1> USE DEF dbVars, boundVars, historyVars
<1>1. /\ ses' = [ses EXCEPT ![w] = NoSession]
      /\ UNCHANGED <<dbVars, from, expected, withdrawn, cut>>
      /\ abandoned \subseteq abandoned'
  BY DEF Drop, TossDone, InsertFails, Fail, Abandon, Quit
<1>2. Orderly(ses[w], lastId) /\ lastId \in Nat
  BY HandTypes
<1>3. ASSUME NEW d \in expected, Hand(ses[w], d, from[d[2]])
      PROVE  d[2] \in abandoned'
  <2>1. CASE Drop(w) \/ TossDone(w)
    BY <1>2, <1>3, <2>1 DEF Drop, TossDone, Orderly, Hand
  <2>2. CASE InsertFails(w) \/ Fail(w)
    BY <1>3, <2>2 DEF InsertFails, Fail, Abandon, Hand
  <2>3. QED
    BY <2>1, <2>2
<1>4. \A d \in expected : Settled(d) => Settled(d)'
  BY <1>1, RowsKeepSettled
<1>5. ExpectedInHand'
  BY <1>1, <1>3, <1>4, SessionStepHand DEF Lost
<1>6. QED
  BY <1>1, <1>2, <1>5, NoSessionOrderly, SessionStepOrderly, QuietDue, QuietCut DEF HandStep

(* A session that meets a deleted message gives up only newer ones.         *)
LEMMA CutShortHand ==
  ASSUME HandInv, NEW w \in Workers, MarkRaises(w) \/ CollectRaises(w) \/ TossRaises(w)
  PROVE  HandStep
<1> USE DEF dbVars, boundVars
<1>1. /\ ses' = [ses EXCEPT ![w] = NoSession]
      /\ UNCHANGED <<dbVars, from, expected, withdrawn, abandoned>>
      /\ cut' = cut \union ses[w].fresh
  BY DEF MarkRaises, CollectRaises, TossRaises, CutShort, Quit
<1>2. /\ ses[w] \in Session /\ Orderly(ses[w], lastId) /\ lastId \in Nat
      /\ Honest(ses[w], got, lastId) /\ Ids \subseteq Nat
  BY HandTypes DEF HandInv, SentInv, SessionsHonest
<1>3. ASSUME NEW d \in expected, Hand(ses[w], d, from[d[2]])
      PROVE  d[2] \in cut'
  <2>1. ses[w].pc # "insert"
    BY DEF MarkRaises, CollectRaises, TossRaises
  <2>2. QED
    BY <1>1, <1>2, <1>3, <2>1 DEF Orderly, Hand
<1>4. \A d \in expected : Settled(d) => Settled(d)'
  BY <1>1, RowsKeepSettled
<1>5. ExpectedInHand'
  BY <1>1, <1>3, <1>4, SessionStepHand DEF Lost
<1>6. ASSUME NEW m \in ses[w].fresh
      PROVE  m <= lastId /\ BehindDeleted(m)
  <2>1. m <= lastId /\ m \in Ids /\ m \in Nat
    BY <1>2 DEF Honest, Session
  <2>2. \E k \in Ids : k \notin stored /\ k <= m
    <3>1. CASE MarkRaises(w) \/ CollectRaises(w)
      <4>1. PICK k \in ses[w].batch : k \notin stored
        BY <3>1 DEF MarkRaises, CollectRaises
      <4>2. k \in Ids /\ k < m
        BY <1>2, <3>1, <4>1 DEF MarkRaises, CollectRaises, Orderly, Session
      <4>3. QED
        BY <1>2, <2>1, <4>1, <4>2
    <3>2. CASE TossRaises(w)
      BY <3>2 DEF TossRaises, FirstFresh
    <3>3. QED
      BY <3>1, <3>2
  <2>3. PICK k \in Ids : k \notin stored /\ k <= m
    BY <2>2
  <2>4. k = m \/ k \in 1 .. m - 1
    BY <2>1, <2>3 DEF Ids
  <2>5. QED
    BY <2>1, <2>3, <2>4 DEF BehindDeleted
<1>7. CutBehindDeleted'
  BY <1>1, <1>6 DEF HandInv, CutBehindDeleted, BehindDeleted
<1>8. QED
  BY <1>1, <1>2, <1>5, <1>7, NoSessionOrderly, SessionStepOrderly, QuietDue DEF HandStep

LEMMA StartStepsHand ==
  ASSUME HandInv, NEW w \in Workers,
         \/ \E p \in Nodes \union {Hub} : Connect(w, p) \/ Dial(w, p)
         \/ \E n \in Nodes, a \in Areas, force \in BOOLEAN : CatchupRead(w, n, a, force)
  PROVE  HandStep
<1> USE DEF dbVars, boundVars, historyVars
<1>1. ses[w].pc = "idle" /\ UNCHANGED <<dbVars, historyVars>>
  BY DEF Connect, Dial, CatchupRead
<1>2. Orderly(ses[w], lastId) /\ lastId \in Nat
  BY HandTypes
<1>3. PICK r : ses' = [ses EXCEPT ![w] = r] /\ Orderly(r, lastId)
  <2>1. ASSUME NEW p \in Nodes \union {Hub}, Connect(w, p) \/ Dial(w, p)
        PROVE  \E r : ses' = [ses EXCEPT ![w] = r] /\ Orderly(r, lastId)
    <3>1. PICK kind \in {"listen", "dial"} :
            ses' = [ses EXCEPT ![w] = [NoSession EXCEPT !.pc = "open", !.kind = kind, !.peer = p]]
      BY <2>1 DEF Connect, Dial, Begin
    <3>2. Orderly([NoSession EXCEPT !.pc = "open", !.kind = kind, !.peer = p], lastId)
      BY <1>2, PeersAssumption DEF Orderly, NoSession
    <3>3. QED
      BY <3>1, <3>2
  <2>2. ASSUME NEW n \in Nodes, NEW a \in Areas, NEW force \in BOOLEAN,
               CatchupRead(w, n, a, force)
        PROVE  \E r : ses' = [ses EXCEPT ![w] = r] /\ Orderly(r, lastId)
    <3>1. \E plan, again : ses' = [ses EXCEPT ![w] = [NoSession EXCEPT !.pc = "insert",
                                     !.kind = "admin", !.plan = plan, !.again = again]]
      BY <2>2, Zenon DEF CatchupRead
    <3>2. PICK plan, again : ses' = [ses EXCEPT ![w] = [NoSession EXCEPT !.pc = "insert",
                                       !.kind = "admin", !.plan = plan, !.again = again]]
      BY <3>1
    <3>3. Orderly([NoSession EXCEPT !.pc = "insert", !.kind = "admin",
                                    !.plan = plan, !.again = again], lastId)
      BY <1>2 DEF Orderly, NoSession
    <3>4. QED
      BY <3>2, <3>3
  <2>3. QED
    BY <2>1, <2>2
<1>4. \A d \in expected : ~Hand(ses[w], d, from[d[2]])
  BY <1>1, <1>2 DEF Orderly, Hand
<1>5. \A d \in expected : Settled(d) => Settled(d)'
  BY <1>1, RowsKeepSettled
<1>6. ExpectedInHand'
  BY <1>1, <1>3, <1>4, <1>5, SessionStepHand DEF Lost
<1>7. QED
  BY <1>1, <1>3, <1>6, SessionStepOrderly, QuietDue, QuietCut DEF HandStep

LEMMA SysopHand ==
  ASSUME ~ReuseIds, HandInv, Sysop
  PROVE  HandStep
<1>1. /\ UNCHANGED <<ses, lastId, area, seen, from, abandoned, cut>>
      /\ expected' \subseteq expected /\ stored' \subseteq stored
  BY DEF Sysop, Subscribe, Unsubscribe, SetActive, FlushQueue, DeleteMessage, historyVars
<1>2. SessionsOrderly'
  BY <1>1 DEF HandInv, SessionsOrderly
<1>3. expected \subseteq Deliveries
  BY HandTypes
<1>4. ExpectedIsDue'
  <2>1. CASE \E n \in Nodes, a \in Areas : Subscribe(n, a) \/ Unsubscribe(n, a)
    BY <1>3, <2>1 DEF Subscribe, Unsubscribe, HandInv, ExpectedIsDue, Due, historyVars
  <2>2. CASE \E n \in Nodes, on \in BOOLEAN : SetActive(n, on)
    BY <1>3, <2>2 DEF SetActive, HandInv, ExpectedIsDue, Due
  <2>3. CASE \/ \E n \in Nodes : FlushQueue(n)
             \/ \E m \in Ids : DeleteMessage(m)
    <3>1. UNCHANGED <<area, seen, from, subs, active, lastId, expected>>
      BY <2>3 DEF FlushQueue, DeleteMessage
    <3>2. QED
      BY <3>1, QuietDue
  <2>4. QED
    BY <2>1, <2>2, <2>3 DEF Sysop
<1>5. ASSUME NEW d \in expected, Settled(d)
      PROVE  Settled(d)'
  <2>0. d \in Deliveries
    BY <1>3
  <2>1. CASE \/ \E n \in Nodes, a \in Areas : Subscribe(n, a) \/ Unsubscribe(n, a)
             \/ \E n \in Nodes, on \in BOOLEAN : SetActive(n, on)
    BY <1>5, <2>1 DEF Subscribe, Unsubscribe, SetActive, Settled, historyVars
  <2>2. CASE \E n \in Nodes : FlushQueue(n)
    BY <1>5, <2>0, <2>2 DEF FlushQueue, Pending, Settled
  <2>3. CASE \E m \in Ids : DeleteMessage(m)
    BY <1>5, <2>0, <2>3 DEF DeleteMessage, Settled
  <2>4. QED
    BY <2>1, <2>2, <2>3 DEF Sysop
<1>6. ExpectedInHand'
  BY <1>1, <1>5 DEF HandInv, ExpectedInHand, Lost
<1>7. CutBehindDeleted'
  BY <1>1 DEF HandInv, CutBehindDeleted, BehindDeleted
<1>8. QED
  BY <1>2, <1>4, <1>6, <1>7 DEF HandStep

(* New messages are in the hands of the session that stores them.           *)
LEMMA StoreHand ==
  ASSUME HandInv, NEW w \in Workers, NEW new \in SUBSET Ids, \A m \in new : m > lastId,
         NEW sender \in Peers, NEW areaOf, NEW seenOf, Store(new, sender, areaOf, seenOf),
         UNCHANGED <<subs, active, rows>>,
         ses[w].fresh = {}, ses[w].plan = {},
         NEW r \in Session, r.fresh = new, r.peer = sender, Orderly(r, lastId),
         ses' = Repack([ses EXCEPT ![w] = r], new)
  PROVE  HandStep
<1>1. /\ ses \in [Workers -> Session] /\ lastId \in Nat /\ Ids \subseteq Nat
      /\ expected \subseteq Deliveries
      /\ \A d \in Deliveries : d[1] \in Nodes /\ d[2] \in Ids /\ d = <<d[1], d[2]>>
  BY HandTypes
<1>2. /\ \A m \in {lastId} \union new : m <= lastId'
      /\ lastId' \in Nat /\ lastId <= lastId'
  <2>1. {lastId} \union new \in SUBSET (0 .. MaxMsg)
    BY <1>1, BoundsAssumption DEF HandInv, SentInv, TypeInv, TypeOK, Ids
  <2>2. lastId' \in {lastId} \union new \union {0} /\ \A m \in {lastId} \union new : m <= lastId'
    BY <2>1, NewestIsLargest DEF Store
  <2>3. QED
    BY <1>1, <2>2
<1>3. \A v \in Workers : /\ ses'[v].pc = IF v = w THEN r.pc ELSE ses[v].pc
                         /\ ses'[v].kind = IF v = w THEN r.kind ELSE ses[v].kind
                         /\ ses'[v].peer = IF v = w THEN r.peer ELSE ses[v].peer
                         /\ ses'[v].batch = IF v = w THEN r.batch ELSE ses[v].batch
                         /\ ses'[v].snap = IF v = w THEN r.snap ELSE ses[v].snap
                         /\ ses'[v].fresh = IF v = w THEN r.fresh ELSE ses[v].fresh
                         /\ ses'[v].plan = IF v = w THEN r.plan ELSE ses[v].plan
                         /\ ses'[v].again = IF v = w THEN r.again ELSE ses[v].again
  BY <1>1 DEF Repack, Session
<1>4. SessionsOrderly'
  <2> SUFFICES ASSUME NEW v \in Workers PROVE Orderly(ses'[v], lastId')
    BY DEF SessionsOrderly
  <2>1. Orderly(r, lastId') /\ Orderly(ses[v], lastId')
    BY <1>1, <1>2, HandTypes, OrderlyMonotone
  <2>2. QED
    BY <1>3, <2>1 DEF Orderly
<1>5. ASSUME NEW d \in expected
      PROVE  /\ d \in Deliveries /\ d[2] \in Ids /\ d[2] \notin new
             /\ area'[d[2]] = area[d[2]] /\ seen'[d[2]] = seen[d[2]]
             /\ from'[d[2]] = from[d[2]]
  <2>1. d \in Deliveries /\ d[2] \in Ids /\ d[2] \in Nat /\ d[2] <= lastId
    BY <1>1 DEF HandInv, ExpectedIsDue
  <2>2. d[2] \notin new
    BY <1>1, <2>1
  <2>3. QED
    BY <2>1, <2>2 DEF Store
<1>6. ASSUME NEW d \in expected', d \notin expected
      PROVE  /\ d[2] \in new /\ d[1] \in Due(areaOf[d[2]], seenOf[d[2]], sender)
             /\ area'[d[2]] = areaOf[d[2]] /\ seen'[d[2]] = seenOf[d[2]]
             /\ from'[d[2]] = sender
  BY <1>6 DEF Store, Forget
<1>7. ExpectedIsDue'
  <2> SUFFICES ASSUME NEW d \in expected'
               PROVE  (/\ d[1] \in Due(area[d[2]], seen[d[2]], from[d[2]])
                       /\ d[2] <= lastId)'
    BY DEF ExpectedIsDue
  <2>1. CASE d \in expected
    <3>1. d[1] \in Due(area[d[2]], seen[d[2]], from[d[2]]) /\ d[2] <= lastId /\ d[2] \in Nat
      BY <1>1, <1>5, <2>1 DEF HandInv, ExpectedIsDue
    <3>2. QED
      BY <1>1, <1>2, <1>5, <2>1, <3>1 DEF Due
  <2>2. CASE d \notin expected
    BY <1>2, <1>6, <2>2 DEF Due
  <2>3. QED
    BY <2>1, <2>2
<1>8. ExpectedInHand'
  <2> SUFFICES ASSUME DistinctAddrs, NEW d \in expected', ~Settled(d)', d[2] \notin Lost'
               PROVE  \E v \in Workers : Hand(ses'[v], d, from'[d[2]])
    BY DEF ExpectedInHand
  <2>1. CASE d \in expected
    <3>1. ~Settled(d) /\ d[2] \notin Lost
      BY <1>5, <2>1 DEF Settled, Store, Forget, Lost
    <3>2. PICK v \in Workers : Hand(ses[v], d, from[d[2]])
      BY <2>1, <3>1 DEF HandInv, ExpectedInHand
    <3>3. v # w
      BY <3>2 DEF Hand
    <3>4. Hand(ses'[v], d, from'[d[2]])
      BY <1>3, <1>5, <2>1, <3>2, <3>3 DEF Hand
    <3>5. QED
      BY <3>4
  <2>2. CASE d \notin expected
    BY <1>3, <1>6, <2>2 DEF Hand
  <2>3. QED
    BY <2>1, <2>2
<1>9. CutBehindDeleted'
  <2> SUFFICES ASSUME NEW m \in cut, m \notin new
               PROVE  m <= lastId' /\ BehindDeleted(m)'
    BY DEF CutBehindDeleted, Store
  <2>1. m <= lastId /\ BehindDeleted(m) /\ m \in Nat
    BY <1>1, HandTypes DEF HandInv, CutBehindDeleted, TypeInv, TypeOK
  <2>2. \A k \in Nat : k <= m => k \notin new
    BY <1>1, <2>1
  <2>3. m <= lastId'
    BY <1>1, <1>2, <2>1
  <2>4. CASE m \notin stored
    BY <2>3, <2>4 DEF BehindDeleted, Store
  <2>5. CASE \E k \in 1 .. m - 1 : k \notin stored
    <3>1. PICK k \in 1 .. m - 1 : k \notin stored
      BY <2>5
    <3>2. k \notin stored'
      BY <2>1, <2>2, <3>1 DEF Store
    <3>3. QED
      BY <2>3, <3>1, <3>2 DEF BehindDeleted
  <2>6. QED
    BY <2>1, <2>4, <2>5 DEF BehindDeleted
<1>10. QED
  BY <1>4, <1>7, <1>8, <1>9 DEF HandStep

LEMMA ImportHand ==
  ASSUME HandInv, NEW w \in Workers, Import(w)
  PROVE  HandStep
<1> DEFINE pc == IF ses[w].kind = "listen" THEN "toss"
                 ELSE IF ses[w].acked THEN "mark" ELSE "collect"
           News(k) == lastId + 1 .. lastId + k
<1>1. PICK k \in 0 .. MaxImport :
        /\ lastId + k <= MaxMsg
        /\ \E areaOf, seenOf : Store(News(k), ses[w].peer, areaOf, seenOf)
        /\ ses' = Repack([ses EXCEPT ![w].fresh = News(k), ![w].pc = pc], News(k))
  <2>1. \E k \in 0 .. MaxImport :
          /\ lastId + k <= MaxMsg
          /\ \E areaOf \in [News(k) -> Areas], seenOf \in [News(k) -> SeenBys] :
               Store(News(k), ses[w].peer, areaOf, seenOf)
          /\ ses' = Repack([ses EXCEPT ![w].fresh = News(k), ![w].pc = pc], News(k))
    BY DEF Import
  <2> HIDE DEF News, pc
  <2>2. QED
    BY <2>1, Zenon
<1> DEFINE new == News(k)
           r == [ses[w] EXCEPT !.fresh = new, !.pc = pc]
<1>2. /\ TypeInv /\ ses \in [Workers -> Session] /\ ses[w] \in Session
      /\ Orderly(ses[w], lastId) /\ lastId \in Nat /\ Ids \subseteq Nat
  BY HandTypes
<1>3. new \in SUBSET Ids /\ \A m \in new : m > lastId
  BY <1>1, <1>2, NewIdsType, BoundsAssumption
<1> HIDE DEF News
<1>4. PICK areaOf, seenOf : Store(new, ses[w].peer, areaOf, seenOf)
  BY <1>1
<1>5. pc \in {"toss", "mark", "collect"} /\ (ses[w].kind = "listen" => pc = "toss")
  OBVIOUS
<1> HIDE DEF pc, new
<1>6. ses' = Repack([ses EXCEPT ![w] = r], new)
  <2>1. [ses EXCEPT ![w] = r] = [ses EXCEPT ![w].fresh = new, ![w].pc = pc]
    BY <1>2
  <2>2. QED
    BY <1>1, <2>1, Zenon DEF new
<1>7. /\ UNCHANGED <<subs, active, rows>> /\ ses[w].pc = "import"
      /\ ses[w].fresh = {} /\ ses[w].plan = {} /\ ses[w].again = {}
      /\ ses[w].peer \in Peers
  BY <1>2 DEF Import, Orderly, Session
<1>8. /\ r \in Session /\ r.fresh = new /\ r.peer = ses[w].peer /\ r.pc = pc
      /\ r.kind = ses[w].kind /\ r.snap = ses[w].snap
      /\ r.plan = {} /\ r.again = {}
  BY <1>2, <1>3, <1>5, <1>7 DEF Session
<1>9. Orderly(r, lastId)
  <2>1. ses[w].snap \in Nat /\ ses[w].snap <= lastId
    BY <1>2, BoundsAssumption DEF Orderly, Session
  <2>2. \A m \in new : m > ses[w].snap
    BY <1>2, <1>3, <2>1
  <2>3. ses[w].peer # Local /\ ses[w].kind \in {"listen", "dial"}
    BY <1>2, <1>7 DEF Orderly
  <2>4. r.batch = ses[w].batch /\ \A i \in r.batch, m \in new : i < m
    <3>1. \A i \in ses[w].batch : i <= lastId /\ i \in Nat
      BY <1>2 DEF HandInv, SentInv, SessionsHonest, Honest, Session
    <3>2. \A m \in new : m > lastId /\ m \in Nat
      BY <1>2, <1>3
    <3>3. QED
      BY <1>2, <3>1, <3>2 DEF Session
  <2> HIDE DEF r
  <2>5. QED
    BY <1>5, <1>7, <1>8, <2>1, <2>2, <2>3, <2>4 DEF Orderly
<1> HIDE DEF r
<1>10. QED
  BY <1>3, <1>4, <1>6, <1>7, <1>8, <1>9, StoreHand

LEMMA ComposeHand ==
  ASSUME HandInv, NEW w \in Workers, NEW a \in Areas, Compose(w, a)
  PROVE  HandStep
<1> DEFINE new == {lastId + 1}
           r == [NoSession EXCEPT !.pc = "toss", !.fresh = new]
<1>1. /\ TypeInv /\ Orderly(ses[w], lastId) /\ lastId \in Nat /\ ses[w].pc = "idle"
      /\ lastId < MaxMsg
  BY HandTypes DEF Compose
<1>2. new \in SUBSET Ids /\ \A m \in new : m > lastId
  BY <1>1, BoundsAssumption DEF Ids
<1>3. /\ Store(new, Local, [m \in new |-> a], [m \in new |-> {}])
      /\ ses' = Repack([ses EXCEPT ![w] = r], new) /\ UNCHANGED <<subs, active, rows>>
  BY DEF Compose
<1> HIDE DEF new
<1>4. r \in Session /\ r.fresh = new /\ r.peer = Local /\ Local \in Peers
  BY <1>2, NoSessionType DEF NoSession, Session, Peers
<1>5. Orderly(r, lastId)
  BY <1>1 DEF NoSession, Orderly
<1>6. ses[w].fresh = {} /\ ses[w].plan = {}
  BY <1>1 DEF Orderly
<1> HIDE DEF r
<1>7. QED
  BY <1>2, <1>3, <1>4, <1>5, <1>6, StoreHand

LEMMA StepHand == ~ReuseIds => (HandInv /\ [Next]_vars => HandInv')
<1> SUFFICES ASSUME ~ReuseIds, HandInv, [Next]_vars
             PROVE  HandStep
  BY StepSent DEF HandInv, HandStep
<1>1. CASE \E w \in Workers : SessionStep(w) \/ Fail(w)
  BY <1>1, SendStepsHand, ImportHand, CollectHand, TossReadHand, InsertHand, EndStepsHand,
     CutShortHand DEF SessionStep
<1>2. CASE \E w \in Workers :
             \/ \E p \in Nodes \union {Hub} : Connect(w, p) \/ Dial(w, p)
             \/ \E a \in Areas : Compose(w, a)
             \/ \E n \in Nodes, a \in Areas, force \in BOOLEAN : CatchupRead(w, n, a, force)
  BY <1>2, StartStepsHand, ComposeHand
<1>3. CASE Sysop
  BY <1>3, SysopHand
<1>4. CASE UNCHANGED vars
  BY <1>4, QuietDue, QuietCut
     DEF vars, dbVars, historyVars, HandInv, SessionsOrderly, ExpectedInHand, Settled,
         Lost, HandStep
<1>5. QED
  BY <1>1, <1>2, <1>3, <1>4 DEF Next

(* Every stored message is queued for every node it was due to, or is in    *)
(* the hands of a session, or was given up by one that died, lost a race or *)
(* met an older message that had been deleted:                              *)
(* for any number of sessions, listening and dialling, any interleaving of  *)
(* their imports, snapshots and tosses and any edits of the sysop, as long  *)
(* as no two peers share a zone-stripped address (HubToss!FanOutComplete).  *)
THEOREM FanOutSafe == ~ReuseIds /\ DistinctAddrs => (Spec => []FanOutComplete)
<1> SUFFICES ASSUME ~ReuseIds, DistinctAddrs PROVE Spec => []FanOutComplete
  OBVIOUS
<1>1. HandInv /\ [Next]_vars => HandInv'
  BY StepHand
<1>2. HandInv => FanOutComplete
  BY DEF HandInv, ExpectedInHand, CutBehindDeleted, BehindDeleted, Lost, FanOutComplete,
         Settled, InHand, Hand
<1>3. QED
  BY <1>1, <1>2, InitHand, PTL DEF Spec

=============================================================================
