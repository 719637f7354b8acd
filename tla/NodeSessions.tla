---------------------------- MODULE NodeSessions ----------------------------
(***************************************************************************)
(* The terminal sessions of a board.  All telnet, SSH and rlogin sessions  *)
(* run in one process, which keeps the table of its nodes in memory and a  *)
(* NodeActivity row per session in the database; the web process, the node *)
(* monitor on the shell and sysops in sessions of their own read those     *)
(* rows and ask for a kick in them.  Every session has a watchdog that     *)
(* looks at its row and its user's account.                                *)
(*                                                                         *)
(* Sources: features/multinode.py; start, the kick watchdog and the        *)
(* node-activity methods of core/session.py; the kick of web/control.py,   *)
(* features/bbs_ui.py and monitor/app.py; the bans of web/admin.py.        *)
(***************************************************************************)
EXTENDS Naturals

CONSTANTS
  Users,
  MaxNodes,  \* BBS_NODES
  MaxConns,  \* bound: connections, and so NodeActivity rows
  MaxKicks,  \* bound: kicks
  MaxBans,   \* bound: accounts locked, banned or restored
  MaxFaults  \* bound: crashes, commits that fail

Nodes == 1 .. MaxNodes
Conns == 1 .. MaxConns
Ids == 1 .. MaxConns

ASSUME NodeAssumption ==
  /\ Users # {}
  /\ MaxNodes \in Nat \ {0} /\ MaxConns \in Nat
  /\ MaxKicks \in Nat /\ MaxBans \in Nat /\ MaxFaults \in Nat

VARIABLES
  nodes,   \* _NODES: the session on each node, 0 for none
  conn,    \* every connection
  rows,    \* the NodeActivity rows
  banned,  \* users whose account is locked or not active
  kicks, bans, faults

(* Not in the program: the sessions somebody asked to kick, and those whose *)
(* watchdog ended them.                                                     *)
VARIABLES asked, ousted

counters == <<kicks, bans, faults>>
history == <<asked, ousted>>
vars == <<nodes, conn, rows, banned, counters, history>>

(* node is _node_entry.slot, row is _node_activity_id, 0 for None.          *)
Conn ==
  [pc   : {"away", "known", "online", "kicked", "over"},
   user : Users,
   node : Nodes \union {0},
   row  : Ids \union {0}]

(* The owner stands for the user and the peer that the row names; seen: its *)
(* last_seen is within five minutes.  A row that is not there has node 0.   *)
Row ==
  [node : Nodes \union {0}, owner : Conns \union {0}, kick : BOOLEAN, seen : BOOLEAN]
NoRow == [node |-> 0, owner |-> 0, kick |-> FALSE, seen |-> FALSE]

Init ==
  /\ nodes = [n \in Nodes |-> 0]
  /\ conn = [c \in Conns |-> [pc |-> "away", user |-> CHOOSE u \in Users : TRUE, node |-> 0, row |-> 0]]
  /\ rows = [i \in Ids |-> NoRow]
  /\ banned = {}
  /\ kicks = 0 /\ bans = 0 /\ faults = 0
  /\ asked = {} /\ ousted = {}

Goto(c, pc) == conn' = [conn EXCEPT ![c].pc = pc]
Fault == faults < MaxFaults /\ faults' = faults + 1

Exists(i) == rows[i].node # 0
HasRow(c) == conn[c].row # 0 /\ Exists(conn[c].row)
Live(c) == conn[c].pc \in {"online", "kicked"}

(* SQLite's id for a new row: one more than the largest there is.           *)
NextId(i) ==
  /\ i - 1 \in {0} \union {j \in Ids : Exists(j)}
  /\ \A j \in Ids : Exists(j) => j < i

Busy == {n \in Nodes : nodes[n] # 0}

(* Mutant of Free: one node too many.                                       *)
FreeOneMore == (1 .. MaxNodes + 1) \ Busy

(* The nodes acquire_slot chooses from.                                     *)
Free == (1 .. MaxNodes) \ Busy

(* Mutant of Deleted: the rows of its user, not its own.                    *)
DeletedOfUser(c) ==
  rows' = [i \in Ids |->
             IF Exists(i) /\ conn[rows[i].owner].user = conn[c].user THEN NoRow ELSE rows[i]]

(* The row with the session's id, if there is one.                          *)
Deleted(c) == rows' = IF HasRow(c) THEN [rows EXCEPT ![conn[c].row] = NoRow] ELSE rows

-----------------------------------------------------------------------------
(* A session                                                                *)

(* login_screen: the password is right and the account is not banned.       *)
Authenticate(c, u) ==
  /\ conn[c].pc = "away" /\ u \notin banned
  /\ \A d \in 1 .. c - 1 : conn[d].pc # "away"
  /\ conn' = [conn EXCEPT ![c].pc = "known", ![c].user = u]
  /\ UNCHANGED <<nodes, rows, banned, counters, history>>

(* acquire_slot and _open_node_activity, with no await in between.          *)
Enter(c) ==
  /\ conn[c].pc = "known"
  /\ \E n \in Free :
       /\ \A m \in Free : n <= m
       /\ nodes' = [nodes EXCEPT ![n] = c]
       /\ \/ \E i \in Ids :
               /\ NextId(i)
               /\ rows' = [rows EXCEPT ![i] =
                             [node |-> n, owner |-> c, kick |-> FALSE, seen |-> TRUE]]
               /\ conn' = [conn EXCEPT ![c].pc = "online", ![c].node = n, ![c].row = i]
               /\ UNCHANGED faults
          \/ /\ Fault      \* the insert fails: the session goes on without a row
             /\ conn' = [conn EXCEPT ![c].pc = "online", ![c].node = n]
             /\ UNCHANGED rows
  /\ UNCHANGED <<banned, kicks, bans, history>>

AllNodesInUse(c) ==
  /\ conn[c].pc = "known" /\ Free = {}
  /\ Goto(c, "over")
  /\ UNCHANGED <<nodes, rows, banned, counters, history>>

(* Mutant of KickRequested: it looks for the node's row, as the monitors do. *)
KickRequestedOnNode(c) ==
  \E i \in Ids :
    /\ rows[i].node = conn[c].node /\ rows[i].kick
    /\ \A j \in 1 .. i - 1 : rows[j].node # conn[c].node

KickRequested(c) == HasRow(c) /\ rows[conn[c].row].kick

(* Mutant of Ousts: no row, no more to watch.                               *)
OustsListed(c) == HasRow(c) /\ (conn[c].user \in banned \/ KickRequested(c))

Ousts(c) == conn[c].user \in banned \/ KickRequested(c)

(* Mutant of Ousted: the node is released here too, not only at the end.    *)
OustedReleasing(c) ==
  /\ nodes' = [nodes EXCEPT ![conn[c].node] = 0]
  /\ Goto(c, "kicked") /\ ousted' = ousted \union {c}

(* The user is told, then the writer is closed; meanwhile the session lives. *)
Ousted(c) ==
  /\ UNCHANGED nodes
  /\ Goto(c, "kicked") /\ ousted' = ousted \union {c}

(* A poll of the watchdog.  It is over for good when the session has no id.  *)
Poll(c) ==
  /\ conn[c].pc = "online" /\ conn[c].row # 0
  /\ IF Ousts(c)
     THEN /\ Ousted(c)
          /\ \/ Deleted(c) /\ UNCHANGED faults
             \/ HasRow(c) /\ Fault /\ UNCHANGED rows    \* rolled back
     ELSE /\ rows' = IF HasRow(c) THEN [rows EXCEPT ![conn[c].row].seen = TRUE] ELSE rows
          /\ UNCHANGED <<nodes, conn, faults, ousted>>
  /\ UNCHANGED <<banned, kicks, bans, asked>>

(* The user leaves, the line drops or the writer was closed.  The finally    *)
(* block of start frees the node and deletes the row, with no await between. *)
End(c) ==
  /\ Live(c)
  /\ nodes' = [nodes EXCEPT ![conn[c].node] = 0]
  /\ \/ Deleted(c) /\ UNCHANGED faults
     \/ HasRow(c) /\ Fault /\ UNCHANGED rows
  /\ Goto(c, "over")
  /\ UNCHANGED <<banned, kicks, bans, history>>

(* The process is killed: its table is gone, its rows are not.               *)
Crash ==
  /\ Fault /\ \E c \in Conns : Live(c)
  /\ nodes' = [n \in Nodes |-> 0]
  /\ conn' = [c \in Conns |->
                IF conn[c].pc = "away" THEN conn[c] ELSE [conn[c] EXCEPT !.pc = "over"]]
  /\ UNCHANGED <<rows, banned, kicks, bans, history>>

-----------------------------------------------------------------------------
(* Everybody else                                                           *)

(* Five minutes pass over a row that no session refreshes.                  *)
Age(i) ==
  /\ Exists(i) /\ rows[i].seen
  /\ \A c \in Conns : Live(c) => conn[c].row # i
  /\ rows' = [rows EXCEPT ![i].seen = FALSE]
  /\ UNCHANGED <<nodes, conn, banned, counters, history>>

Kick(n, i) ==
  /\ kicks < MaxKicks /\ kicks' = kicks + 1
  /\ rows' = [rows EXCEPT ![i].kick = TRUE]
  /\ asked' = asked \union {c \in Conns : Live(c) /\ conn[c].node = n}
  /\ UNCHANGED <<nodes, conn, banned, bans, faults, ousted>>

On(n, i) == Exists(i) /\ rows[i].node = n
Listed(n, i) == On(n, i) /\ rows[i].seen

(* NodeSpy on the web takes a row of the node seen within five minutes.      *)
KickFromWeb(n) == \E i \in Ids : Listed(n, i) /\ Kick(n, i)

(* The monitors list such rows, but kick the first row of the node, of       *)
(* whatever age: the one with the lowest id, the order of the index.         *)
KickFromMonitor(n) ==
  /\ \E i \in Ids : Listed(n, i)
  /\ \E i \in Ids : On(n, i) /\ (\A j \in 1 .. i - 1 : ~ On(n, j)) /\ Kick(n, i)

(* toggle_ban, lock_user and their bulk forms.                              *)
ToggleBan(u) ==
  /\ bans < MaxBans /\ bans' = bans + 1
  /\ banned' = IF u \in banned THEN banned \ {u} ELSE banned \union {u}
  /\ UNCHANGED <<nodes, conn, rows, kicks, faults, history>>

-----------------------------------------------------------------------------
Next ==
  \/ \E c \in Conns, u \in Users : Authenticate(c, u)
  \/ \E c \in Conns : Enter(c) \/ AllNodesInUse(c) \/ Poll(c) \/ End(c)
  \/ \E i \in Ids : Age(i)
  \/ \E n \in Nodes : KickFromWeb(n) \/ KickFromMonitor(n)
  \/ \E u \in Users : ToggleBan(u)
  \/ Crash

(* Watchdogs poll every five seconds, and a session whose writer is closed   *)
(* unwinds.  Nobody has to leave.                                           *)
Fairness ==
  \A c \in Conns : WF_vars(Poll(c)) /\ WF_vars(conn[c].pc = "kicked" /\ End(c))

Spec == Init /\ [][Next]_vars

FairSpec == Spec /\ Fairness

-----------------------------------------------------------------------------
TypeOK ==
  /\ nodes \in [Nodes -> Conns \union {0}]
  /\ conn \in [Conns -> Conn]
  /\ rows \in [Ids -> Row]
  /\ banned \subseteq Users
  /\ kicks \in 0 .. MaxKicks /\ bans \in 0 .. MaxBans /\ faults \in 0 .. MaxFaults
  /\ asked \subseteq Conns /\ ousted \subseteq Conns

(* A node is taken exactly by the session that lives on it: no session loses *)
(* its node to another, and none that ended, however it did, keeps one.      *)
NodesOfTheLiving ==
  \A n \in Nodes, c \in Conns : nodes[n] = c <=> (Live(c) /\ conn[c].node = n)

(* Whether the id of a session's row was that of an earlier one that its     *)
(* watchdog ended, and that deletes "its" row again when it is over.         *)
Taken(c) == \E d \in ousted \ {c} : conn[d].row = conn[c].row

(* A session that got its row stays on the lists of the sysop, under its own *)
(* name, as long as it lives.  Only a session ended by its watchdog can take *)
(* a later one's row away: the id it remembers was given out again.          *)
LivingAreListed ==
  \A c \in Conns :
    (conn[c].pc = "online" /\ conn[c].row # 0)
      => (HasRow(c) /\ rows[conn[c].row].owner = c) \/ Taken(c)

(* "A banned/locked user's already-connected terminal session" ends: the     *)
(* watchdog rechecks the account, whatever became of the session's row, if   *)
(* the session ever had one.                                                 *)
BannedAreOusted ==
  \A c \in Conns :
    (conn[c].pc = "online" /\ conn[c].row # 0 /\ conn[c].user \in banned)
      ~> (conn[c].pc # "online" \/ conn[c].user \notin banned)

(* "Disconnects within ~5s": the session somebody asked to kick ends.        *)
KickDisconnects == \A c \in Conns : c \in asked ~> conn[c].pc # "online"

(* It does if the row that was flagged has the session's id, unless that row *)
(* goes first, with an earlier session that had the id.                     *)
FlaggedAreOusted ==
  \A c \in Conns :
    (conn[c].pc = "online" /\ HasRow(c) /\ rows[conn[c].row].kick) ~> (conn[c].pc # "online" \/ Taken(c))
=============================================================================
