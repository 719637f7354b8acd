----------------------------- MODULE DoorNodes -----------------------------
(***************************************************************************)
(* The nodes of one door game.  The web server and the terminal server are *)
(* two processes that launch doors; each keeps the nodes it has given out  *)
(* in memory, and both read the GameSession rows of the other from the     *)
(* database.  A door ends by itself, by its user, by the sysop -- from     *)
(* either process -- or with its process; the threads that notice it all   *)
(* run the same clean-up.  Games do not interact, so there is one.         *)
(*                                                                         *)
(* Sources: games/node_manager.py, games/door_runner.py, the session       *)
(* routes of web/games_admin.py (cfg/sections/games.py has the same), and  *)
(* the sweep of events/handlers.py.                                        *)
(***************************************************************************)
EXTENDS Naturals, FiniteSets

CONSTANTS
  Procs,       \* the processes that launch doors
  Web,         \* the one that runs the scheduled sweep and the admin pages
  Watchers,    \* threads that wait for a door: the PTY reader, waitpid
  MaxNodes,    \* game.max_nodes
  MaxLaunches, \* bound: launches, and so GameSession rows
  MaxFaults,   \* bound: processes that die, commits that fail
  MaxEdits,    \* bound: operations of the sysop
  OverlappingLaunches \* two launches may lie between allocation and commit

Nodes == 1 .. MaxNodes
Sessions == 1 .. MaxLaunches
User == "user"                    \* whoever ends a door of the own process
Threads == Watchers \union {User} \* those that clean up after a door

ASSUME DoorAssumption ==
  /\ Web \in Procs
  /\ User \notin Watchers
  /\ MaxNodes \in Nat /\ MaxLaunches \in Nat /\ MaxFaults \in Nat /\ MaxEdits \in Nat
  /\ OverlappingLaunches \in BOOLEAN

VARIABLES
  held,    \* _active of every process: the nodes it has given out
  ses,     \* what the launching process knows of every session
  status,  \* status of the GameSession row, "none" before it is there
  pid,     \* sessions whose row has the door's process id
  tracked, \* sessions in _sessions of their process
  alive,   \* sessions whose door, or remote connection, runs
  clean,   \* where each thread is in the clean-up of its session
  sweep,   \* rows the running sweep has read, not yet committed
  edits, faults

(* Not in the program: sessions whose row was closed by somebody who does   *)
(* not own them, while they were in use or still to be cleaned up, and      *)
(* those whose launch or clean-up failed on a commit.                       *)
VARIABLES disowned, broken

boundVars == <<edits, faults>>
historyVars == <<disowned, broken>>
vars == <<held, ses, status, pid, tracked, alive, clean, sweep, boundVars, historyVars>>

Session ==
  [pc   : {"new", "allocated", "open", "running", "released", "over"},
   kind : {"door", "bridge"},     \* a child process, or a terminal's rlogin or telnet bridge
   proc : Procs,
   node : Nodes \union {0}]

(* Of the words for a row that is no longer active -- completed, crashed,   *)
(* timeout, stale -- none makes a difference to the nodes.                  *)
Statuses == {"none", "active", "closed"}

Init ==
  /\ held = [p \in Procs |-> {}]
  /\ ses = [s \in Sessions |-> [pc |-> "new", kind |-> "door", proc |-> Web, node |-> 0]]
  /\ status = [s \in Sessions |-> "none"]
  /\ pid = {} /\ tracked = {} /\ alive = {}
  /\ clean = [s \in Sessions |-> [t \in Threads |-> "idle"]]
  /\ sweep = {}
  /\ edits = 0 /\ faults = 0
  /\ disowned = {} /\ broken = {}

Goto(s, pc) == ses' = [ses EXCEPT ![s].pc = pc]
Step(s, t, pc) == clean' = [clean EXCEPT ![s][t] = pc]
Fault == faults < MaxFaults /\ faults' = faults + 1

Active == {s \in Sessions : status[s] = "active"}

(* Mutant of Occupied: only the process's own table is asked.               *)
OccupiedHere(p) == held[p]

(* allocate_node: the process's own table and the active rows.              *)
Occupied(p) == held[p] \union {ses[s].node : s \in Active}

(* release_node deletes the entry of the node, whoever has it.              *)
Release(p, n) == held' = [held EXCEPT ![p] = @ \ {n}]

(* Mutant of Free: one node too many.                                       *)
FreeOffByOne(p) == (1 .. MaxNodes + 1) \ Occupied(p)

Free(p) == Nodes \ Occupied(p)

-----------------------------------------------------------------------------
(* Launching                                                                *)

Allocate(p, s, kind) ==
  /\ ses[s].pc = "new" /\ \A r \in 1 .. s - 1 : ses[r].pc # "new"
  /\ OverlappingLaunches \/ \A r \in Sessions : ses[r].pc # "allocated"
  /\ \E n \in Free(p) :
       /\ \A m \in Free(p) : n <= m
       /\ held' = [held EXCEPT ![p] = @ \union {n}]
       /\ ses' = [ses EXCEPT ![s] = [pc |-> "allocated", kind |-> kind, proc |-> p, node |-> n]]
  /\ UNCHANGED <<status, pid, tracked, alive, clean, sweep, boundVars, historyVars>>

(* The row is inserted and committed, and the node's entry in the table gets *)
(* the row's id, whether or not it is still there.                          *)
Open(s) ==
  /\ ses[s].pc = "allocated"
  /\ status' = [status EXCEPT ![s] = "active"]
  /\ held' = [held EXCEPT ![ses[s].proc] = @ \union {ses[s].node}]
  /\ Goto(s, "open")
  /\ UNCHANGED <<pid, tracked, alive, clean, sweep, boundVars, historyVars>>

(* That commit raises: no handler around it gives the node back.            *)
OpenFails(s) ==
  /\ ses[s].pc = "allocated" /\ Fault
  /\ Goto(s, "over")
  /\ broken' = broken \union {s}
  /\ UNCHANGED <<held, status, pid, tracked, alive, clean, sweep, edits, disowned>>

(* The command, the PTY and the fork succeed, or the remote host answers.   *)
(* The row gets the pid, unless that commit fails.                          *)
Start(s) ==
  /\ ses[s].pc = "open"
  /\ Goto(s, "running")
  /\ alive' = alive \union {s}
  /\ IF ses[s].kind = "door"
     THEN /\ tracked' = tracked \union {s}
          /\ \/ pid' = pid \union {s} /\ UNCHANGED faults
             \/ UNCHANGED pid /\ Fault
     ELSE UNCHANGED <<tracked, pid, faults>>
  /\ UNCHANGED <<held, status, clean, sweep, edits, historyVars>>

(* One of them fails: the row is closed, then the node released.            *)
StartFails(s) ==
  /\ ses[s].pc = "open"
  /\ Goto(s, "over")
  /\ status' = [status EXCEPT ![s] = "closed"]
  /\ Release(ses[s].proc, ses[s].node)
  /\ UNCHANGED <<pid, tracked, alive, clean, sweep, boundVars, historyVars>>

(* The commit of that closing raises: the row stays active and the node     *)
(* taken.                                                                   *)
AbortFails(s) ==
  /\ ses[s].pc = "open" /\ Fault
  /\ Goto(s, "over")
  /\ broken' = broken \union {s}
  /\ UNCHANGED <<held, status, pid, tracked, alive, clean, sweep, edits, disowned>>

(* The door exits or the remote host hangs up.                              *)
Exit(s) ==
  /\ s \in alive
  /\ alive' = alive \ {s}
  /\ UNCHANGED <<held, ses, status, pid, tracked, clean, sweep, boundVars, historyVars>>

-----------------------------------------------------------------------------
(* Clean-up of a door: waitpid returns, the PTY reader sees the end, or the *)
(* user, idle timer or web socket of its own process terminates it.         *)

(* Mutant of Closed: the entry stays in _sessions.                          *)
ClosedStillTracked(s) ==
  /\ UNCHANGED tracked
  /\ alive' = alive \ {s}

Closed(s) ==
  /\ tracked' = tracked \ {s}
  /\ alive' = alive \ {s}

Clean(s, t) ==
  /\ ses[s].pc = "running" /\ ses[s].kind = "door" /\ clean[s][t] = "idle"
  /\ IF t = User THEN s \in tracked ELSE s \notin alive
  /\ Closed(s)
  /\ Step(s, t, IF status[s] = "active" THEN "mark" ELSE "done")
  /\ UNCHANGED <<held, ses, status, pid, sweep, boundVars, historyVars>>

CleanMark(s, t) ==
  /\ clean[s][t] = "mark"
  /\ status' = [status EXCEPT ![s] = "closed"]
  /\ Step(s, t, "release")
  /\ UNCHANGED <<held, ses, pid, tracked, alive, sweep, boundVars, historyVars>>

(* The commit raises: it is logged, and the node not released.              *)
CleanFails(s, t) ==
  /\ clean[s][t] = "mark" /\ Fault
  /\ Step(s, t, "done")
  /\ broken' = broken \union {s}
  /\ UNCHANGED <<held, ses, status, pid, tracked, alive, sweep, edits, disowned>>

(* Mutant of CleanRelease: the thread that lost the race does not release.  *)
CleanNoRelease(s, t) ==
  /\ clean[s][t] = "release"
  /\ Step(s, t, "done")
  /\ UNCHANGED <<held, ses, status, pid, tracked, alive, sweep, boundVars, historyVars>>

CleanRelease(s, t) ==
  /\ clean[s][t] = "release"
  /\ Release(ses[s].proc, ses[s].node)
  /\ Step(s, t, "done")
  /\ UNCHANGED <<ses, status, pid, tracked, alive, sweep, boundVars, historyVars>>

(* A bridge's own coroutine ends: it releases first and closes the row if   *)
(* that is still active.                                                    *)
BridgeRelease(s) ==
  /\ ses[s].pc = "running" /\ ses[s].kind = "bridge"
  /\ Release(ses[s].proc, ses[s].node)
  /\ Goto(s, "released")
  /\ alive' = alive \ {s}
  /\ UNCHANGED <<status, pid, tracked, clean, sweep, boundVars, historyVars>>

BridgeClose(s) ==
  /\ ses[s].pc = "released"
  /\ Goto(s, "over")
  /\ status' = [status EXCEPT ![s] = IF @ = "active" THEN "closed" ELSE @]
  /\ UNCHANGED <<held, pid, tracked, alive, clean, sweep, boundVars, historyVars>>

(* A process dies and is started again: its table and threads are gone, its *)
(* doors lose their terminal, its rows stay active.                         *)
Crash(p) ==
  LET mine == {s \in Sessions : ses[s].proc = p /\ ses[s].pc # "new"}
  IN /\ Fault /\ mine # {}
     /\ held' = [held EXCEPT ![p] = {}]
     /\ ses' = [s \in Sessions |-> IF s \in mine THEN [ses[s] EXCEPT !.pc = "over"] ELSE ses[s]]
     /\ tracked' = tracked \ mine
     /\ alive' = alive \ mine
     /\ clean' = [s \in Sessions |->
                    IF s \in mine THEN [t \in Threads |-> "done"] ELSE clean[s]]
     /\ sweep' = IF p = Web THEN {} ELSE sweep
     /\ UNCHANGED <<status, pid, edits, historyVars>>

-----------------------------------------------------------------------------
(* The sweep and the sysop                                                  *)

(* A session its process has not finished with.                             *)
Unfinished(s) ==
  \/ ses[s].pc \in {"allocated", "open"}
  \/ ses[s].pc = "running" /\ ses[s].kind = "bridge"
  \/ ses[s].pc = "running" /\ (s \in tracked \/ \E t \in Threads : clean[s][t] \in {"mark", "release"})
  \/ ses[s].pc = "running" /\ \A t \in Threads : clean[s][t] = "idle"

Disown(S) == disowned' = disowned \union {s \in S : Unfinished(s)}

(* cleanup_stale_sessions: rows active for an hour or more are read and     *)
(* their nodes released in the sweeping process's table, then the rows are  *)
(* committed.                                                               *)
SweepRead(S) ==
  /\ sweep = {} /\ S # {}
  /\ S \subseteq Active /\ \A s \in S : ses[s].pc # "open"
  /\ sweep' = S
  /\ held' = [held EXCEPT ![Web] = @ \ {ses[s].node : s \in S}]
  /\ UNCHANGED <<ses, status, pid, tracked, alive, clean, boundVars, historyVars>>

SweepCommit ==
  /\ sweep # {}
  /\ status' = [s \in Sessions |-> IF s \in sweep THEN "closed" ELSE status[s]]
  /\ Disown(sweep)
  /\ sweep' = {}
  /\ UNCHANGED <<held, ses, pid, tracked, alive, clean, boundVars, broken>>

Edit == edits < MaxEdits /\ edits' = edits + 1

(* The sysop's disconnect, in a process that does not own the session: the  *)
(* door is sent a signal if the row has its pid, and the row is closed      *)
(* whatever came of it.                                                     *)
Disconnect(s) ==
  /\ Edit /\ status[s] # "none"
  /\ alive' = IF status[s] = "active" /\ s \in pid THEN alive \ {s} ELSE alive
  /\ status' = [status EXCEPT ![s] = "closed"]
  /\ Disown({s})
  /\ UNCHANGED <<held, ses, pid, tracked, clean, sweep, faults, broken>>

(* clear_stale_sessions: every active row is closed.                        *)
ClearStale ==
  /\ Edit /\ Active # {}
  /\ status' = [s \in Sessions |-> IF s \in Active THEN "closed" ELSE status[s]]
  /\ Disown(Active)
  /\ UNCHANGED <<held, ses, pid, tracked, alive, clean, sweep, faults, broken>>

-----------------------------------------------------------------------------
Launching(s) ==
  \/ \E p \in Procs, kind \in {"door", "bridge"} : Allocate(p, s, kind)
  \/ Open(s) \/ OpenFails(s) \/ Start(s) \/ StartFails(s) \/ AbortFails(s)

Ending(s) ==
  \/ Exit(s)
  \/ \E t \in Threads : Clean(s, t) \/ CleanMark(s, t) \/ CleanFails(s, t) \/ CleanRelease(s, t)
  \/ BridgeRelease(s) \/ BridgeClose(s)

Next ==
  \/ \E s \in Sessions : Launching(s) \/ Ending(s) \/ Disconnect(s)
  \/ \E p \in Procs : Crash(p)
  \/ \E S \in SUBSET Sessions : SweepRead(S)
  \/ SweepCommit \/ ClearStale

(* Threads that have something to do run; a bridge whose remote host hung   *)
(* up ends; the sweep is a daily event and its rows an hour old by then.    *)
Fairness ==
  /\ \A s \in Sessions :
       /\ WF_vars(Open(s)) /\ WF_vars(Start(s))
       /\ \A t \in Threads : WF_vars(CleanMark(s, t)) /\ WF_vars(CleanRelease(s, t))
       /\ \A t \in Watchers : WF_vars(Clean(s, t))
       /\ WF_vars(s \notin alive /\ BridgeRelease(s)) /\ WF_vars(BridgeClose(s))
  /\ WF_vars(SweepRead({s \in Active : ses[s].pc # "open"})) /\ WF_vars(SweepCommit)

Spec == Init /\ [][Next]_vars

FairSpec == Spec /\ Fairness

-----------------------------------------------------------------------------
TypeOK ==
  /\ held \in [Procs -> SUBSET Nodes]
  /\ ses \in [Sessions -> Session]
  /\ status \in [Sessions -> Statuses]
  /\ pid \subseteq Sessions /\ tracked \subseteq Sessions /\ alive \subseteq Sessions
  /\ clean \in [Sessions -> [Threads -> {"idle", "mark", "release", "done"}]]
  /\ sweep \subseteq Sessions
  /\ edits \in 0 .. MaxEdits /\ faults \in 0 .. MaxFaults
  /\ disowned \subseteq Sessions /\ broken \subseteq Sessions

(* A session plays on its node from the commit of its row to the moment its *)
(* process starts to clean up.                                              *)
InPlay(s) ==
  \/ ses[s].pc \in {"allocated", "open"}
  \/ ses[s].pc = "running" /\ ses[s].kind = "bridge"
  \/ s \in tracked

Share(s, t) == s # t /\ InPlay(s) /\ InPlay(t) /\ ses[s].node = ses[t].node

(* The only way two sessions come to share a node is that somebody else     *)
(* closed the row of one of them: the sweep, or the sysop.  Neither a       *)
(* clean-up that runs twice or late, nor a crash, nor a failed commit or    *)
(* launch can do it.                                                        *)
SharedOnlyIfDisowned ==
  \A s, t \in Sessions : Share(s, t) => s \in disowned \/ t \in disowned

(* Every session in play is on the list the sysop can end it from, unless   *)
(* its row was closed by somebody else; and no thread has forgotten it.     *)
InPlayIsListed ==
  \A s \in Sessions :
    (InPlay(s) /\ ses[s].pc # "allocated") => status[s] = "active" \/ s \in disowned

(* A node that a process holds for no unfinished session of its own.        *)
Leftover(p, n) ==
  /\ n \in held[p]
  /\ \A s \in Sessions : (ses[s].proc = p /\ ses[s].node = n) => ~ Unfinished(s)

Excused(p, n) ==
  \E s \in disowned \union broken : ses[s].proc = p /\ ses[s].node = n

(* A node comes free again: no end of a session, however many threads clean *)
(* up after it, leaves it taken in the process's table, and no crash leaves *)
(* it taken in the database.                                                *)
NodesComeFree ==
  /\ \A p \in Procs, n \in Nodes :
       (Leftover(p, n) /\ ~ Excused(p, n)) ~> ~ Leftover(p, n)
  /\ \A s \in Sessions : (status[s] = "active" /\ ses[s].pc = "over") ~> status[s] # "active"
=============================================================================
