------------------------ MODULE NodeSessions_proofs ------------------------
(***************************************************************************)
(* Proofs about NodeSessions, for every number of users, nodes,            *)
(* connections, kicks and failures: type correctness, that a node belongs  *)
(* exactly to the session that lives on it, and that a session keeps its   *)
(* row unless a session its watchdog ended had the same id.                *)
(***************************************************************************)
EXTENDS NodeSessions, TLAPS

-----------------------------------------------------------------------------
(* Type correctness                                                         *)

LEMMA NoRowType == NoRow \in Row
  BY DEF NoRow, Row

LEMMA DeletedType ==
  ASSUME TypeOK, NEW c \in Conns, Deleted(c)
  PROVE  rows' \in [Ids -> Row]
  BY NoRowType DEF TypeOK, Deleted

LEMMA SeenType ==
  ASSUME TypeOK, NEW i, rows' = [rows EXCEPT ![i].seen = TRUE]
  PROVE  rows' \in [Ids -> Row]
  BY DEF TypeOK, Row

LEMMA FaultType ==
  ASSUME TypeOK, Fault
  PROVE  faults' \in 0 .. MaxFaults
  BY NodeAssumption DEF TypeOK, Fault

LEMMA GotoType ==
  ASSUME TypeOK, NEW c \in Conns,
         NEW pc \in {"away", "known", "online", "kicked", "over"}, Goto(c, pc)
  PROVE  conn' \in [Conns -> Conn]
  BY DEF TypeOK, Goto, Conn

LEMMA KickType ==
  ASSUME TypeOK, NEW n \in Nodes, NEW i \in Ids, Kick(n, i)
  PROVE  TypeOK'
<1>1. rows' \in [Ids -> Row]
  BY DEF TypeOK, Kick, Row
<1>2. kicks' \in 0 .. MaxKicks
  BY NodeAssumption DEF TypeOK, Kick
<1> QED
  BY <1>1, <1>2 DEF TypeOK, Kick

LEMMA InitType == Init => TypeOK
<1> SUFFICES ASSUME Init PROVE TypeOK
  OBVIOUS
<1>1. conn \in [Conns -> Conn]
  BY NodeAssumption DEF Init, Conn
<1>2. rows \in [Ids -> Row]
  BY NoRowType DEF Init
<1>3. nodes \in [Nodes -> Conns \union {0}]
  BY DEF Init
<1>4. kicks \in 0 .. MaxKicks /\ bans \in 0 .. MaxBans /\ faults \in 0 .. MaxFaults
  BY NodeAssumption DEF Init
<1>5. banned \subseteq Users /\ asked \subseteq Conns /\ ousted \subseteq Conns
  BY DEF Init
<1> QED
  BY <1>1, <1>2, <1>3, <1>4, <1>5 DEF TypeOK

LEMMA EnterType ==
  ASSUME TypeOK, NEW c \in Conns, Enter(c)
  PROVE  TypeOK'
<1>1. PICK n \in Nodes :
        /\ nodes' = [nodes EXCEPT ![n] = c]
        /\ \/ \E i \in Ids :
                /\ rows' = [rows EXCEPT ![i] =
                              [node |-> n, owner |-> c, kick |-> FALSE, seen |-> TRUE]]
                /\ conn' = [conn EXCEPT ![c].pc = "online", ![c].node = n, ![c].row = i]
                /\ UNCHANGED faults
           \/ /\ Fault
              /\ conn' = [conn EXCEPT ![c].pc = "online", ![c].node = n]
              /\ UNCHANGED rows
  BY DEF Enter, Free, Nodes
<1>2. nodes' \in [Nodes -> Conns \union {0}]
  BY <1>1 DEF TypeOK
<1>3. conn' \in [Conns -> Conn]
  BY <1>1 DEF TypeOK, Conn
<1>4. rows' \in [Ids -> Row]
  <2>1. [node |-> n, owner |-> c, kick |-> FALSE, seen |-> TRUE] \in Row
    BY DEF Row
  <2> QED
    BY <1>1, <2>1 DEF TypeOK
<1>5. faults' \in 0 .. MaxFaults
  BY <1>1, FaultType DEF TypeOK
<1> QED
  BY <1>2, <1>3, <1>4, <1>5 DEF Enter, TypeOK, history

LEMMA PollType ==
  ASSUME TypeOK, NEW c \in Conns, Poll(c)
  PROVE  TypeOK'
<1>1. CASE Ousts(c)
  <2>1. nodes' = nodes /\ conn' \in [Conns -> Conn] /\ ousted' \subseteq Conns
    BY <1>1, GotoType DEF Poll, Ousted, TypeOK
  <2>2. rows' \in [Ids -> Row] /\ faults' \in 0 .. MaxFaults
    BY <1>1, DeletedType, FaultType DEF Poll, TypeOK
  <2> QED
    BY <2>1, <2>2 DEF Poll, TypeOK
<1>2. CASE ~ Ousts(c)
  <2>1. rows' \in [Ids -> Row]
    BY <1>2, SeenType DEF Poll, TypeOK
  <2> QED
    BY <1>2, <2>1 DEF Poll, TypeOK
<1> QED
  BY <1>1, <1>2

LEMMA EndType ==
  ASSUME TypeOK, NEW c \in Conns, End(c)
  PROVE  TypeOK'
<1>1. nodes' \in [Nodes -> Conns \union {0}]
  BY DEF End, TypeOK
<1>2. conn' \in [Conns -> Conn]
  BY GotoType DEF End
<1>3. rows' \in [Ids -> Row] /\ faults' \in 0 .. MaxFaults
  BY DeletedType, FaultType DEF End, TypeOK
<1> QED
  BY <1>1, <1>2, <1>3 DEF End, TypeOK, history

LEMMA CrashType ==
  ASSUME TypeOK, Crash
  PROVE  TypeOK'
<1>1. conn' \in [Conns -> Conn]
  BY DEF TypeOK, Crash, Conn
<1> QED
  BY <1>1, FaultType DEF Crash, TypeOK, history

LEMMA NextType == TypeOK /\ [Next]_vars => TypeOK'
<1> SUFFICES ASSUME TypeOK, [Next]_vars PROVE TypeOK'
  OBVIOUS
<1>1. ASSUME NEW c \in Conns, NEW u \in Users, Authenticate(c, u) PROVE TypeOK'
  <2>1. conn' \in [Conns -> Conn]
    BY <1>1 DEF Authenticate, TypeOK, Conn
  <2> QED
    BY <1>1, <2>1 DEF Authenticate, TypeOK, counters, history
<1>2. ASSUME NEW c \in Conns, AllNodesInUse(c) PROVE TypeOK'
  BY <1>2, GotoType DEF AllNodesInUse, TypeOK, counters, history
<1>3. ASSUME NEW i \in Ids, Age(i) PROVE TypeOK'
  <2>1. rows' \in [Ids -> Row]
    BY <1>3 DEF Age, TypeOK, Row
  <2> QED
    BY <1>3, <2>1 DEF Age, TypeOK, counters, history
<1>4. ASSUME NEW n \in Nodes, KickFromWeb(n) \/ KickFromMonitor(n) PROVE TypeOK'
  BY <1>4, KickType DEF KickFromWeb, KickFromMonitor
<1>5. ASSUME NEW u \in Users, ToggleBan(u) PROVE TypeOK'
  BY <1>5, NodeAssumption DEF ToggleBan, TypeOK, history
<1>6. CASE UNCHANGED vars
  BY <1>6 DEF TypeOK, vars, counters, history
<1> QED
  BY <1>1, <1>2, <1>3, <1>4, <1>5, <1>6, EnterType, PollType, EndType, CrashType DEF Next

(* The state of the terminal servers keeps its types.                       *)
THEOREM TypeCorrect == Spec => []TypeOK
  BY InitType, NextType, PTL DEF Spec

-----------------------------------------------------------------------------
(* A node belongs to the session that lives on it                           *)

LEMMA InitNodes == Init => NodesOfTheLiving
  BY DEF Init, NodesOfTheLiving, Live, Nodes, Conns

(* A step that leaves the table and who lives where as they were.           *)
LEMMA SameNodes ==
  ASSUME NodesOfTheLiving, nodes' = nodes,
         \A c \in Conns : /\ Live(c)' <=> Live(c)
                          /\ Live(c) => conn'[c].node = conn[c].node
  PROVE  NodesOfTheLiving'
<1> SUFFICES ASSUME NEW n \in Nodes, NEW c \in Conns
             PROVE  nodes'[n] = c <=> (Live(c)' /\ conn'[c].node = n)
  BY DEF NodesOfTheLiving
<1> QED
  BY DEF NodesOfTheLiving

LEMMA EnterNodes ==
  ASSUME TypeOK, NodesOfTheLiving, NEW c \in Conns, Enter(c)
  PROVE  NodesOfTheLiving'
<1>1. PICK n \in Nodes :
        /\ nodes[n] = 0
        /\ nodes' = [nodes EXCEPT ![n] = c]
        /\ conn'[c].pc = "online" /\ conn'[c].node = n
        /\ \A d \in Conns \ {c} : conn'[d] = conn[d]
  <2>1. PICK n \in Free :
          /\ nodes' = [nodes EXCEPT ![n] = c]
          /\ \/ \E i \in Ids :
                  conn' = [conn EXCEPT ![c].pc = "online", ![c].node = n, ![c].row = i]
             \/ conn' = [conn EXCEPT ![c].pc = "online", ![c].node = n]
    BY DEF Enter
  <2>2. n \in Nodes /\ nodes[n] = 0
    BY DEF Free, Busy, Nodes
  <2>3. /\ conn'[c].pc = "online" /\ conn'[c].node = n
        /\ \A d \in Conns \ {c} : conn'[d] = conn[d]
    BY <2>1 DEF TypeOK, Conn
  <2> QED
    BY <2>1, <2>2, <2>3
<1>2. ~ Live(c) /\ Live(c)' /\ c # 0
  BY <1>1 DEF Enter, Live, Conns
<1>3. \A m \in Nodes : nodes[m] # c
  BY <1>2 DEF NodesOfTheLiving
<1>4. \A d \in Conns \ {c} : Live(d)' <=> Live(d)
  BY <1>1 DEF Live
<1>5. ASSUME NEW m \in Nodes, NEW d \in Conns
      PROVE  nodes'[m] = d <=> (Live(d)' /\ conn'[d].node = m)
  <2>1. CASE d = c
    BY <1>1, <1>2, <1>3, <2>1 DEF TypeOK
  <2>2. CASE d # c /\ m = n
    <3>1. nodes'[m] = c /\ nodes[m] # d
      BY <1>1, <2>2 DEF TypeOK, Conns
    <3> QED
      BY <1>1, <1>4, <2>2, <3>1 DEF NodesOfTheLiving
  <2>3. CASE d # c /\ m # n
    BY <1>1, <1>4, <2>3 DEF TypeOK, NodesOfTheLiving
  <2> QED
    BY <2>1, <2>2, <2>3
<1> QED
  BY <1>5 DEF NodesOfTheLiving

LEMMA EndNodes ==
  ASSUME TypeOK, NodesOfTheLiving, NEW c \in Conns, End(c)
  PROVE  NodesOfTheLiving'
<1>1. /\ nodes' = [nodes EXCEPT ![conn[c].node] = 0]
      /\ Live(c) /\ conn'[c].pc = "over"
      /\ \A d \in Conns \ {c} : conn'[d] = conn[d]
  BY DEF End, Goto, TypeOK
<1>2. ~ Live(c)'
  BY <1>1 DEF Live
<1>3. \A d \in Conns \ {c} : Live(d)' <=> Live(d)
  BY <1>1 DEF Live
<1>4. ASSUME NEW m \in Nodes, NEW d \in Conns
      PROVE  nodes'[m] = d <=> (Live(d)' /\ conn'[d].node = m)
  <2>1. CASE m = conn[c].node
    <3>1. nodes[m] = c /\ nodes'[m] = 0 /\ d # 0
      BY <1>1, <2>1 DEF TypeOK, NodesOfTheLiving, Conns
    <3> QED
      BY <1>1, <1>2, <1>3, <3>1 DEF NodesOfTheLiving
  <2>2. CASE m # conn[c].node
    <3>1. nodes'[m] = nodes[m]
      BY <1>1, <2>2 DEF TypeOK
    <3> QED
      BY <1>1, <1>2, <1>3, <2>2, <3>1 DEF NodesOfTheLiving
  <2> QED
    BY <2>1, <2>2
<1> QED
  BY <1>4 DEF NodesOfTheLiving

LEMMA CrashNodes ==
  ASSUME TypeOK, Crash
  PROVE  NodesOfTheLiving'
<1>1. \A c \in Conns : ~ Live(c)'
  BY DEF Crash, Live, TypeOK, Conn
<1>2. \A n \in Nodes, c \in Conns : nodes'[n] # c
  BY DEF Crash, Conns
<1> QED
  BY <1>1, <1>2 DEF NodesOfTheLiving

LEMMA NextNodes == TypeOK /\ NodesOfTheLiving /\ [Next]_vars => NodesOfTheLiving'
<1> SUFFICES ASSUME TypeOK, NodesOfTheLiving, [Next]_vars PROVE NodesOfTheLiving'
  OBVIOUS
<1>1. ASSUME NEW c \in Conns, NEW u \in Users, Authenticate(c, u) PROVE NodesOfTheLiving'
  BY <1>1, SameNodes DEF Authenticate, Live, TypeOK, Conn
<1>2. ASSUME NEW c \in Conns, AllNodesInUse(c) PROVE NodesOfTheLiving'
  BY <1>2, SameNodes DEF AllNodesInUse, Goto, Live, TypeOK, Conn
<1>3. ASSUME NEW c \in Conns, Poll(c) PROVE NodesOfTheLiving'
  BY <1>3, SameNodes DEF Poll, Ousted, Goto, Live, TypeOK, Conn
<1>4. ASSUME NEW i \in Ids, Age(i) PROVE NodesOfTheLiving'
  BY <1>4, SameNodes DEF Age, Live
<1>5. ASSUME NEW n \in Nodes, KickFromWeb(n) \/ KickFromMonitor(n) PROVE NodesOfTheLiving'
  BY <1>5, SameNodes DEF KickFromWeb, KickFromMonitor, Kick, Live
<1>6. ASSUME NEW u \in Users, ToggleBan(u) PROVE NodesOfTheLiving'
  BY <1>6, SameNodes DEF ToggleBan, Live
<1>7. CASE UNCHANGED vars
  BY <1>7, SameNodes DEF vars, Live
<1> QED
  BY <1>1, <1>2, <1>3, <1>4, <1>5, <1>6, <1>7, EnterNodes, EndNodes, CrashNodes DEF Next

(* No session loses its node to another, and none keeps one that is over,   *)
(* however it ended (acquire_slot, release_slot and start).                 *)
THEOREM NodesSafe == Spec => []NodesOfTheLiving
<1>1. Init => TypeOK /\ NodesOfTheLiving
  BY InitType, InitNodes
<1>2. TypeOK /\ NodesOfTheLiving /\ [Next]_vars => (TypeOK /\ NodesOfTheLiving)'
  BY NextType, NextNodes
<1> QED
  BY <1>1, <1>2, PTL DEF Spec

-----------------------------------------------------------------------------
(* A session keeps its row                                                  *)

(* A connection has no id before it has a node; a session its watchdog      *)
(* ended is on its way out, and no other is.                                *)
Unlisted == \A c \in Conns : conn[c].pc \in {"away", "known"} => conn[c].row = 0

OustedLeave ==
  \A c \in Conns :
    /\ c \in ousted => conn[c].pc \in {"kicked", "over"}
    /\ conn[c].pc = "kicked" => c \in ousted

ListInv == TypeOK /\ Unlisted /\ OustedLeave /\ LivingAreListed

LEMMA InitList == Init => ListInv
<1> SUFFICES ASSUME Init PROVE ListInv
  OBVIOUS
<1>1. \A c \in Conns : conn[c].pc = "away" /\ conn[c].row = 0
  BY DEF Init
<1>2. ousted = {}
  BY DEF Init
<1> QED
  BY <1>1, <1>2, InitType DEF ListInv, Unlisted, OustedLeave, LivingAreListed

(* A step that changes no connection and no row's owner.                    *)
LEMMA SameList ==
  ASSUME ListInv, TypeOK', conn' = conn, ousted' = ousted,
         \A i \in Ids : /\ rows[i].node # 0 => rows'[i].node # 0
                        /\ rows'[i].owner = rows[i].owner
  PROVE  ListInv'
<1>1. Unlisted' /\ OustedLeave'
  BY DEF ListInv, Unlisted, OustedLeave
<1>2. ASSUME NEW c \in Conns, conn[c].pc = "online", conn[c].row # 0
      PROVE  (HasRow(c)' /\ rows'[conn[c].row].owner = c) \/ Taken(c)'
  <2>1. conn[c].row \in Ids
    BY <1>2 DEF ListInv, TypeOK, Conn
  <2>2. (HasRow(c) /\ rows[conn[c].row].owner = c) \/ Taken(c)
    BY <1>2 DEF ListInv, LivingAreListed
  <2> QED
    BY <2>1, <2>2 DEF HasRow, Exists, Taken
<1> QED
  BY <1>1, <1>2 DEF ListInv, LivingAreListed

(* A step of one connection that stays out of the sessions with a row, and  *)
(* that touches no row.                                                     *)
LEMMA OneAside ==
  ASSUME ListInv, TypeOK', NEW c \in Conns, rows' = rows, ousted' = ousted,
         \A d \in Conns \ {c} : conn'[d] = conn[d],
         c \notin ousted, conn'[c].pc \in {"known", "online", "over"},
         conn'[c].row = conn[c].row,
         conn'[c].pc # "over" => conn[c].row = 0
  PROVE  ListInv'
<1>1. Unlisted' /\ OustedLeave'
  BY DEF ListInv, Unlisted, OustedLeave
<1>2. ASSUME NEW d \in Conns, conn'[d].pc = "online", conn'[d].row # 0
      PROVE  (HasRow(d)' /\ rows'[conn'[d].row].owner = d) \/ Taken(d)'
  <2>1. d # c /\ conn'[d] = conn[d]
    BY <1>2
  <2>2. (HasRow(d) /\ rows[conn[d].row].owner = d) \/ Taken(d)
    BY <1>2, <2>1 DEF ListInv, LivingAreListed
  <2> QED
    BY <2>1, <2>2 DEF HasRow, Exists, Taken, ListInv, TypeOK
<1> QED
  BY <1>1, <1>2 DEF ListInv, LivingAreListed

LEMMA EnterList ==
  ASSUME ListInv, NEW c \in Conns, Enter(c)
  PROVE  ListInv'
<1>1. TypeOK' /\ TypeOK
  BY EnterType DEF ListInv
<1>2. conn[c].pc = "known" /\ conn[c].row = 0 /\ c \notin ousted /\ ousted' = ousted
  BY DEF Enter, ListInv, Unlisted, OustedLeave, history
<1>3. ASSUME NEW n \in Nodes, NEW i \in Ids, NextId(i),
             rows' = [rows EXCEPT ![i] =
                        [node |-> n, owner |-> c, kick |-> FALSE, seen |-> TRUE]],
             conn' = [conn EXCEPT ![c].pc = "online", ![c].node = n, ![c].row = i]
      PROVE  ListInv'
  <2>1. /\ conn'[c].pc = "online" /\ conn'[c].row = i
        /\ \A d \in Conns \ {c} : conn'[d] = conn[d]
    BY <1>1, <1>3 DEF TypeOK, Conn
  <2>2. /\ rows'[i].node # 0 /\ rows'[i].owner = c
        /\ \A j \in Ids \ {i} : rows'[j] = rows[j]
    BY <1>1, <1>3 DEF TypeOK, Nodes
  <2>3. ~ Exists(i)
    BY <1>3 DEF NextId, Ids
  <2>4. Unlisted' /\ OustedLeave'
    BY <1>2, <2>1 DEF ListInv, Unlisted, OustedLeave
  <2>5. ASSUME NEW d \in Conns, conn'[d].pc = "online", conn'[d].row # 0
        PROVE  (HasRow(d)' /\ rows'[conn'[d].row].owner = d) \/ Taken(d)'
    <3>1. CASE d = c
      <4>1. i # 0
        BY DEF Ids
      <4> QED
        BY <2>1, <2>2, <3>1, <4>1 DEF HasRow, Exists
    <3>2. CASE d # c
      <4>1. (HasRow(d) /\ rows[conn[d].row].owner = d) \/ Taken(d)
        BY <2>1, <2>5, <3>2 DEF ListInv, LivingAreListed
      <4>2. conn'[d] = conn[d] /\ conn[d].row \in Ids
        BY <1>1, <2>1, <2>5, <3>2 DEF TypeOK, Conn
      <4>3. CASE Taken(d)
        BY <1>1, <1>2, <2>1, <4>2, <4>3 DEF Taken, TypeOK
      <4>4. CASE HasRow(d) /\ rows[conn[d].row].owner = d
        BY <2>2, <2>3, <4>2, <4>4 DEF HasRow, Exists
      <4> QED
        BY <4>1, <4>3, <4>4
    <3> QED
      BY <3>1, <3>2
  <2> QED
    BY <1>1, <2>4, <2>5 DEF ListInv, LivingAreListed
<1>4. ASSUME NEW n \in Nodes, rows' = rows,
             conn' = [conn EXCEPT ![c].pc = "online", ![c].node = n]
      PROVE  ListInv'
  <2>1. /\ conn'[c].pc = "online" /\ conn'[c].row = conn[c].row
        /\ \A d \in Conns \ {c} : conn'[d] = conn[d]
    BY <1>1, <1>4 DEF TypeOK, Conn
  <2> QED
    BY <1>1, <1>2, <1>4, <2>1, OneAside
<1> QED
  BY <1>3, <1>4 DEF Enter, Free, Nodes

(* A session that is over or told to go may take a row with it: its own, or *)
(* one of a later session, which has the same id.                           *)
LEMMA LeaveList ==
  ASSUME ListInv, TypeOK', NEW c \in Conns, Live(c), Deleted(c) \/ rows' = rows,
         conn' = [conn EXCEPT ![c].pc = conn'[c].pc],
         \/ conn'[c].pc = "over" /\ ousted' = ousted
         \/ conn'[c].pc = "kicked" /\ ousted' = ousted \union {c}
  PROVE  ListInv'
<1> USE DEF ListInv
<1>1. /\ conn'[c].row = conn[c].row
      /\ \A d \in Conns \ {c} : conn'[d] = conn[d]
  BY DEF TypeOK, Conn
<1>2. Unlisted' /\ OustedLeave'
  BY <1>1 DEF Unlisted, OustedLeave
<1>3. ASSUME NEW d \in Conns, conn'[d].pc = "online", conn'[d].row # 0
      PROVE  (HasRow(d)' /\ rows'[conn'[d].row].owner = d) \/ Taken(d)'
  <2>1. d # c /\ conn'[d] = conn[d] /\ conn[d].row \in Ids
    BY <1>1, <1>3 DEF TypeOK, Conn
  <2>2. (HasRow(d) /\ rows[conn[d].row].owner = d) \/ Taken(d)
    BY <1>3, <2>1 DEF LivingAreListed
  <2>3. Taken(d) => Taken(d)'
    BY <1>1, <2>1 DEF Taken, TypeOK
  <2>4. CASE conn[d].row # conn[c].row \/ rows' = rows
    <3>1. rows'[conn[d].row] = rows[conn[d].row]
      BY <2>1, <2>4 DEF Deleted, TypeOK
    <3> QED
      BY <2>1, <2>2, <2>3, <3>1 DEF HasRow, Exists
  <2>5. CASE conn[d].row = conn[c].row
    <3>1. CASE c \in ousted'
      BY <1>1, <2>1, <2>5, <3>1 DEF Taken
    <3>2. CASE c \notin ousted'
      <4>1. conn[c].pc = "online" /\ conn[c].row # 0
        BY <1>3, <2>1, <2>5, <3>2 DEF Live, OustedLeave
      <4>2. (HasRow(c) /\ rows[conn[c].row].owner = c) \/ Taken(c)
        BY <4>1 DEF LivingAreListed
      <4>3. ASSUME Taken(c) PROVE Taken(d)
        <5>1. PICK e \in ousted \ {c} : conn[e].row = conn[c].row
          BY <4>3 DEF Taken
        <5>2. e # d
          BY <1>3, <2>1, <5>1 DEF OustedLeave
        <5> QED
          BY <2>5, <5>1, <5>2 DEF Taken
      <4>4. Taken(d)
        BY <2>1, <2>2, <2>5, <4>2, <4>3
      <4> QED
        BY <2>3, <4>4
    <3> QED
      BY <3>1, <3>2
  <2> QED
    BY <2>4, <2>5
<1> QED
  BY <1>2, <1>3 DEF LivingAreListed

LEMMA PollList ==
  ASSUME ListInv, NEW c \in Conns, Poll(c)
  PROVE  ListInv'
<1>1. TypeOK' /\ TypeOK
  BY PollType DEF ListInv
<1>2. CASE Ousts(c)
  <2>1. /\ Live(c) /\ conn' = [conn EXCEPT ![c].pc = "kicked"]
        /\ ousted' = ousted \union {c} /\ (Deleted(c) \/ rows' = rows)
    BY <1>2 DEF Poll, Ousted, Goto, Live
  <2>2. conn'[c].pc = "kicked"
    BY <1>1, <2>1 DEF TypeOK, Conn
  <2> QED
    BY <1>1, <2>1, <2>2, LeaveList
<1>3. CASE ~ Ousts(c)
  <2>1. \A i \in Ids : rows'[i].node = rows[i].node /\ rows'[i].owner = rows[i].owner
    BY <1>1, <1>3 DEF Poll, TypeOK, Row
  <2> QED
    BY <1>1, <1>3, <2>1, SameList DEF Poll
<1> QED
  BY <1>2, <1>3

LEMMA EndList ==
  ASSUME ListInv, NEW c \in Conns, End(c)
  PROVE  ListInv'
<1>1. TypeOK' /\ TypeOK
  BY EndType DEF ListInv
<1>2. /\ Live(c) /\ conn' = [conn EXCEPT ![c].pc = "over"]
      /\ ousted' = ousted /\ (Deleted(c) \/ rows' = rows)
  BY DEF End, Goto, history
<1>3. conn'[c].pc = "over"
  BY <1>1, <1>2 DEF TypeOK, Conn
<1> QED
  BY <1>1, <1>2, <1>3, LeaveList

LEMMA CrashList ==
  ASSUME ListInv, Crash
  PROVE  ListInv'
<1>1. TypeOK' /\ TypeOK
  BY CrashType DEF ListInv
<1>2. \A c \in Conns : \/ conn[c].pc = "away" /\ conn'[c] = conn[c]
                       \/ conn'[c].pc = "over"
  BY <1>1 DEF Crash, TypeOK, Conn
<1>3. ousted' = ousted
  BY DEF Crash, history
<1> QED
  BY <1>1, <1>2, <1>3 DEF ListInv, Unlisted, OustedLeave, LivingAreListed

LEMMA NextList == ListInv /\ [Next]_vars => ListInv'
<1> SUFFICES ASSUME ListInv, [Next]_vars PROVE ListInv'
  OBVIOUS
<1>t. TypeOK /\ TypeOK'
  BY NextType DEF ListInv
<1>1. ASSUME NEW c \in Conns, NEW u \in Users, Authenticate(c, u) PROVE ListInv'
  <2>1. /\ conn'[c].pc = "known" /\ conn'[c].row = conn[c].row
        /\ \A d \in Conns \ {c} : conn'[d] = conn[d]
    BY <1>1, <1>t DEF Authenticate, TypeOK, Conn
  <2>2. conn[c].row = 0 /\ c \notin ousted
    BY <1>1 DEF Authenticate, ListInv, Unlisted, OustedLeave
  <2> QED
    BY <1>1, <1>t, <2>1, <2>2, OneAside DEF Authenticate, history
<1>2. ASSUME NEW c \in Conns, AllNodesInUse(c) PROVE ListInv'
  <2>1. /\ conn'[c].pc = "over" /\ conn'[c].row = conn[c].row
        /\ \A d \in Conns \ {c} : conn'[d] = conn[d]
    BY <1>2, <1>t DEF AllNodesInUse, Goto, TypeOK, Conn
  <2>2. c \notin ousted
    BY <1>2 DEF AllNodesInUse, ListInv, OustedLeave
  <2> QED
    BY <1>2, <1>t, <2>1, <2>2, OneAside DEF AllNodesInUse, history
<1>3. ASSUME NEW i \in Ids, Age(i) PROVE ListInv'
  <2>1. \A j \in Ids : rows'[j].node = rows[j].node /\ rows'[j].owner = rows[j].owner
    BY <1>3, <1>t DEF Age, TypeOK, Row
  <2> QED
    BY <1>3, <1>t, <2>1, SameList DEF Age, history
<1>4. ASSUME NEW n \in Nodes, NEW i \in Ids, Kick(n, i) PROVE ListInv'
  <2>1. \A j \in Ids : rows'[j].node = rows[j].node /\ rows'[j].owner = rows[j].owner
    BY <1>4, <1>t DEF Kick, TypeOK, Row
  <2> QED
    BY <1>4, <1>t, <2>1, SameList DEF Kick
<1>5. ASSUME NEW u \in Users, ToggleBan(u) PROVE ListInv'
  BY <1>5, <1>t, SameList DEF ToggleBan, history
<1>6. CASE UNCHANGED vars
  BY <1>6, <1>t, SameList DEF vars, history
<1> QED
  BY <1>1, <1>2, <1>3, <1>4, <1>5, <1>6, EnterList, PollList, EndList, CrashList
  DEF Next, KickFromWeb, KickFromMonitor

(* A session that got its row keeps it, unless a session its watchdog ended *)
(* had the same id (_open_node_activity and _close_node_activity).          *)
THEOREM RowsSafe == Spec => []LivingAreListed
<1>1. ListInv => LivingAreListed
  BY DEF ListInv
<1> QED
  BY <1>1, InitList, NextList, PTL DEF Spec
=============================================================================
