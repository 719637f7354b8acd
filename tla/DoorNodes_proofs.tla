-------------------------- MODULE DoorNodes_proofs --------------------------
(***************************************************************************)
(* Proofs about DoorNodes, for every number of processes, nodes, sessions  *)
(* and failures: type correctness, that the sysop's list has every session *)
(* in play, and, as long as launches do not overlap, that sessions share a *)
(* node only when somebody else closed the row of one of them.             *)
(***************************************************************************)
EXTENDS DoorNodes, TLAPS

LEMMA FaultType == TypeOK /\ Fault => faults' \in 0 .. MaxFaults
  BY DoorAssumption DEF TypeOK, Fault

LEMMA EditType == TypeOK /\ Edit => edits' \in 0 .. MaxEdits
  BY DoorAssumption DEF TypeOK, Edit

(* A session's node is one of the game's from its allocation on.            *)
NodeGiven == \A s \in Sessions : ses[s].pc # "new" => ses[s].node \in Nodes

(* Doors in the table run, and no thread has begun to clean up after them;  *)
(* bridges are not cleaned up after.                                        *)
TrackedRuns == \A s \in tracked : ses[s].pc = "running" /\ ses[s].kind = "door"

CleaningOver ==
  \A s \in Sessions, t \in Threads :
    clean[s][t] = "mark" => /\ s \notin tracked
                            /\ ses[s].pc = "running" /\ ses[s].kind = "door"

TypeInv == TypeOK /\ NodeGiven /\ TrackedRuns /\ CleaningOver

LEMMA InitType == Init => TypeInv
<1> SUFFICES ASSUME Init PROVE TypeInv
  OBVIOUS
<1>1. TypeOK
  BY DoorAssumption DEF Init, TypeOK, Session, Statuses
<1> QED
  BY <1>1 DEF Init, TypeInv, NodeGiven, TrackedRuns, CleaningOver

(* What a step that only moves one session on does to the types.            *)
LEMMA GotoFacts ==
  ASSUME TypeOK, NEW s \in Sessions, NEW pc \in {"open", "running", "released", "over"},
         Goto(s, pc)
  PROVE  /\ ses' \in [Sessions -> Session] /\ ses'[s].pc = pc
         /\ ses'[s].kind = ses[s].kind /\ ses'[s].node = ses[s].node
         /\ \A r \in Sessions \ {s} : ses'[r] = ses[r]
  BY DEF TypeOK, Session, Goto

LEMMA StepFacts ==
  ASSUME TypeOK, NEW s \in Sessions, NEW t \in Threads,
         NEW pc \in {"mark", "release", "done"}, Step(s, t, pc)
  PROVE  /\ clean' \in [Sessions -> [Threads -> {"idle", "mark", "release", "done"}]]
         /\ clean'[s][t] = pc
         /\ \A r \in Sessions, u \in Threads :
              r # s \/ u # t => clean'[r][u] = clean[r][u]
  BY DEF TypeOK, Step

LEMMA ReleaseType ==
  ASSUME TypeOK, NEW p \in Procs, NEW n, Release(p, n)
  PROVE  held' \in [Procs -> SUBSET Nodes]
  BY DEF TypeOK, Release

LEMMA AllocateType ==
  ASSUME TypeInv, NEW p \in Procs, NEW s \in Sessions, NEW kind \in {"door", "bridge"},
         Allocate(p, s, kind)
  PROVE  TypeInv'
<1>1. PICK n \in Free(p) :
        /\ held' = [held EXCEPT ![p] = @ \union {n}]
        /\ ses' = [ses EXCEPT ![s] = [pc |-> "allocated", kind |-> kind, proc |-> p, node |-> n]]
  BY DEF Allocate
<1>2. n \in Nodes /\ TypeOK
  BY DEF Free, TypeInv
<1> DEFINE new == [pc |-> "allocated", kind |-> kind, proc |-> p, node |-> n]
<1>3. new \in Session
  BY <1>2 DEF Session
<1>4. ses[s].pc = "new" /\ UNCHANGED <<tracked, clean>>
  BY DEF Allocate
<1>5. ses'[s] = new /\ \A r \in Sessions \ {s} : ses'[r] = ses[r]
  BY <1>1, <1>2 DEF TypeOK
<1>6. NodeGiven' /\ TrackedRuns' /\ CleaningOver'
  <2>1. NodeGiven'
    BY <1>2, <1>5 DEF TypeInv, NodeGiven
  <2>2. s \notin tracked /\ \A t \in Threads : clean[s][t] # "mark"
    BY <1>4 DEF TypeInv, TrackedRuns, CleaningOver
  <2>3. TrackedRuns'
    BY <1>2, <1>4, <1>5, <2>2 DEF TypeInv, TypeOK, TrackedRuns
  <2>4. CleaningOver'
    BY <1>4, <1>5, <2>2 DEF TypeInv, CleaningOver
  <2> QED
    BY <2>1, <2>3, <2>4
<1>7. held' \in [Procs -> SUBSET Nodes] /\ ses' \in [Sessions -> Session]
  BY <1>1, <1>2, <1>3 DEF TypeOK
<1> QED
  BY <1>2, <1>6, <1>7 DEF TypeInv, TypeOK, Allocate, boundVars, historyVars

LEMMA LaunchType ==
  ASSUME TypeInv, NEW s \in Sessions,
         Open(s) \/ OpenFails(s) \/ Start(s) \/ StartFails(s) \/ AbortFails(s)
  PROVE  TypeInv'
<1>1. TypeOK /\ ses[s] \in Session /\ ses[s].proc \in Procs
  BY DEF TypeInv, TypeOK, Session
<1>2. PICK pc \in {"open", "running", "over"} : Goto(s, pc)
  BY DEF Open, OpenFails, Start, StartFails, AbortFails
<1>3. /\ ses' \in [Sessions -> Session] /\ ses'[s].pc = pc
      /\ ses'[s].kind = ses[s].kind /\ ses'[s].node = ses[s].node
      /\ \A r \in Sessions \ {s} : ses'[r] = ses[r]
  BY <1>1, <1>2, GotoFacts
<1>4. ses[s].pc \in {"allocated", "open"} /\ clean' = clean /\ ses[s].node \in Nodes
  BY DEF Open, OpenFails, Start, StartFails, AbortFails, TypeInv, NodeGiven
<1>5. NodeGiven'
  BY <1>3, <1>4 DEF TypeInv, NodeGiven
<1>6. CleaningOver'
  BY <1>3, <1>4 DEF TypeInv, CleaningOver, Open, OpenFails, Start, StartFails, AbortFails
<1>7. TrackedRuns' /\ tracked' \subseteq Sessions
  <2>1. CASE tracked' = tracked
    BY <1>3, <1>4, <2>1 DEF TypeInv, TypeOK, TrackedRuns
  <2>2. CASE tracked' = tracked \union {s} /\ Start(s) /\ ses[s].kind = "door"
    <3>1. ses'[s].pc = "running"
      BY <1>1, <2>2 DEF Start, Goto, TypeOK, Session
    <3> QED
      BY <1>3, <2>2, <3>1 DEF TypeInv, TypeOK, TrackedRuns
  <2> QED
    BY <2>1, <2>2 DEF Open, OpenFails, Start, StartFails, AbortFails
<1>8. held' \in [Procs -> SUBSET Nodes]
  <2>1. CASE held' = [held EXCEPT ![ses[s].proc] = @ \union {ses[s].node}]
    BY <1>1, <1>4, <2>1 DEF TypeOK
  <2> QED
    BY <1>1, <2>1, ReleaseType DEF Open, OpenFails, Start, StartFails, AbortFails, TypeOK
<1>9. status' \in [Sessions -> Statuses]
  BY <1>1 DEF Open, OpenFails, Start, StartFails, AbortFails, TypeOK, Statuses
<1>10. faults' \in 0 .. MaxFaults
  BY <1>1, FaultType DEF Open, OpenFails, Start, StartFails, AbortFails, TypeOK, boundVars
<1>11. /\ pid' \subseteq Sessions /\ alive' \subseteq Sessions /\ sweep' \subseteq Sessions
       /\ disowned' \subseteq Sessions /\ broken' \subseteq Sessions /\ edits' \in 0 .. MaxEdits
  BY <1>1 DEF Open, OpenFails, Start, StartFails, AbortFails, TypeOK, boundVars, historyVars
<1> QED
  BY <1>1, <1>3, <1>4, <1>5, <1>6, <1>7, <1>8, <1>9, <1>10, <1>11 DEF TypeInv, TypeOK

LEMMA CleanType ==
  ASSUME TypeInv, NEW s \in Sessions, NEW t \in Threads,
         Clean(s, t) \/ CleanMark(s, t) \/ CleanFails(s, t) \/ CleanRelease(s, t)
  PROVE  TypeInv'
<1>1. TypeOK /\ ses[s].proc \in Procs /\ ses' = ses
  BY DEF TypeInv, TypeOK, Session, Clean, CleanMark, CleanFails, CleanRelease
<1>2. PICK pc \in {"mark", "release", "done"} : Step(s, t, pc)
  BY DEF Clean, CleanMark, CleanFails, CleanRelease
<1>3. /\ clean' \in [Sessions -> [Threads -> {"idle", "mark", "release", "done"}]]
      /\ clean'[s][t] = pc
      /\ \A r \in Sessions, u \in Threads : r # s \/ u # t => clean'[r][u] = clean[r][u]
  BY <1>1, <1>2, StepFacts
<1>4. tracked' \subseteq tracked /\ alive' \subseteq alive
  BY DEF Clean, Closed, CleanMark, CleanFails, CleanRelease
<1>5. NodeGiven' /\ TrackedRuns'
  BY <1>1, <1>4 DEF TypeInv, NodeGiven, TrackedRuns
<1>6. pc = "mark" => s \notin tracked' /\ ses[s].pc = "running" /\ ses[s].kind = "door"
  BY <1>1, <1>2, <1>3 DEF Clean, Closed, CleanMark, CleanFails, CleanRelease, Step, TypeOK
<1>7. CleaningOver'
  BY <1>1, <1>3, <1>4, <1>6 DEF TypeInv, CleaningOver
<1>8. held' \in [Procs -> SUBSET Nodes]
  BY <1>1, ReleaseType DEF Clean, CleanMark, CleanFails, CleanRelease, TypeOK
<1>9. status' \in [Sessions -> Statuses]
  BY <1>1 DEF Clean, CleanMark, CleanFails, CleanRelease, TypeOK, Statuses
<1>10. faults' \in 0 .. MaxFaults
  BY <1>1, FaultType DEF Clean, CleanMark, CleanFails, CleanRelease, TypeOK, boundVars
<1>11. /\ pid' \subseteq Sessions /\ sweep' \subseteq Sessions
       /\ disowned' \subseteq Sessions /\ broken' \subseteq Sessions /\ edits' \in 0 .. MaxEdits
  BY <1>1 DEF Clean, CleanMark, CleanFails, CleanRelease, TypeOK, boundVars, historyVars
<1> QED
  BY <1>1, <1>3, <1>4, <1>5, <1>7, <1>8, <1>9, <1>10, <1>11 DEF TypeInv, TypeOK

LEMMA EndingType ==
  ASSUME TypeInv, NEW s \in Sessions, Exit(s) \/ BridgeRelease(s) \/ BridgeClose(s)
  PROVE  TypeInv'
<1>1. TypeOK /\ ses[s] \in Session /\ ses[s].proc \in Procs
  BY DEF TypeInv, TypeOK, Session
<1>2. CASE Exit(s)
  BY <1>2 DEF Exit, TypeInv, TypeOK, NodeGiven, TrackedRuns, CleaningOver, boundVars, historyVars
<1>3. CASE BridgeRelease(s) \/ BridgeClose(s)
  <2>1. PICK pc \in {"released", "over"} : Goto(s, pc)
    BY <1>3 DEF BridgeRelease, BridgeClose
  <2>2. /\ ses' \in [Sessions -> Session] /\ ses'[s].pc = pc
        /\ ses'[s].kind = ses[s].kind /\ ses'[s].node = ses[s].node
        /\ \A r \in Sessions \ {s} : ses'[r] = ses[r]
    BY <1>1, <2>1, GotoFacts
  <2>3. /\ ses[s].pc # "new"
        /\ ses[s].pc = "running" => ses[s].kind = "bridge"
        /\ UNCHANGED <<tracked, clean>>
    BY <1>3 DEF BridgeRelease, BridgeClose
  <2>4. NodeGiven' /\ TrackedRuns' /\ CleaningOver'
    BY <2>2, <2>3 DEF TypeInv, TypeOK, NodeGiven, TrackedRuns, CleaningOver
  <2>5. held' \in [Procs -> SUBSET Nodes]
    BY <1>1, <1>3, ReleaseType DEF BridgeRelease, BridgeClose, TypeOK
  <2>6. status' \in [Sessions -> Statuses]
    BY <1>1, <1>3 DEF BridgeRelease, BridgeClose, TypeOK, Statuses
  <2>7. /\ pid' \subseteq Sessions /\ alive' \subseteq Sessions /\ sweep' \subseteq Sessions
        /\ disowned' \subseteq Sessions /\ broken' \subseteq Sessions
        /\ edits' \in 0 .. MaxEdits /\ faults' \in 0 .. MaxFaults
    BY <1>1, <1>3 DEF BridgeRelease, BridgeClose, TypeOK, boundVars, historyVars
  <2> QED
    BY <1>1, <2>2, <2>3, <2>4, <2>5, <2>6, <2>7 DEF TypeInv, TypeOK
<1> QED
  BY <1>2, <1>3

LEMMA CrashType ==
  ASSUME TypeInv, NEW p \in Procs, Crash(p)
  PROVE  TypeInv'
<1> DEFINE mine == {s \in Sessions : ses[s].proc = p /\ ses[s].pc # "new"}
<1>1. TypeOK
  BY DEF TypeInv
<1>2. ses' \in [Sessions -> Session]
  BY <1>1 DEF Crash, TypeOK, Session
<1>3. \A s \in Sessions : /\ s \in mine => ses'[s].pc = "over" /\ s \notin tracked'
                                            /\ ses'[s].node = ses[s].node
                                            /\ \A t \in Threads : clean'[s][t] = "done"
                          /\ s \notin mine => ses'[s] = ses[s] /\ clean'[s] = clean[s]
  BY <1>1 DEF Crash, TypeOK, Session
<1>4. tracked' \subseteq tracked /\ clean' \in
        [Sessions -> [Threads -> {"idle", "mark", "release", "done"}]]
  BY <1>1 DEF Crash, TypeOK
<1>5. NodeGiven'
  BY <1>3 DEF TypeInv, NodeGiven
<1>6. TrackedRuns'
  BY <1>1, <1>3, <1>4 DEF TypeInv, TypeOK, TrackedRuns
<1>7. CleaningOver'
  BY <1>3, <1>4 DEF TypeInv, CleaningOver
<1>8. held' \in [Procs -> SUBSET Nodes] /\ faults' \in 0 .. MaxFaults
  BY <1>1, FaultType DEF Crash, TypeOK
<1> QED
  BY <1>1, <1>2, <1>4, <1>5, <1>6, <1>7, <1>8 DEF Crash, TypeInv, TypeOK, historyVars

(* The sweep and the sysop close rows and send signals.                     *)
Outside ==
  \/ \E s \in Sessions : Disconnect(s)
  \/ \E S \in SUBSET Sessions : SweepRead(S)
  \/ SweepCommit \/ ClearStale

LEMMA OutsideType == TypeInv /\ Outside => TypeInv'
<1> SUFFICES ASSUME TypeInv, Outside PROVE TypeInv'
  OBVIOUS
<1>1. TypeOK /\ UNCHANGED <<ses, tracked, clean>>
  BY DEF TypeInv, Outside, Disconnect, SweepRead, SweepCommit, ClearStale
<1>2. NodeGiven' /\ TrackedRuns' /\ CleaningOver'
  BY <1>1 DEF TypeInv, NodeGiven, TrackedRuns, CleaningOver
<1>3. held' \in [Procs -> SUBSET Nodes]
  BY <1>1, DoorAssumption DEF Outside, Disconnect, SweepRead, SweepCommit, ClearStale, TypeOK
<1>4. status' \in [Sessions -> Statuses]
  BY <1>1 DEF Outside, Disconnect, SweepRead, SweepCommit, ClearStale, TypeOK, Statuses
<1>5. edits' \in 0 .. MaxEdits /\ faults' \in 0 .. MaxFaults
  BY <1>1, EditType
  DEF Outside, Disconnect, SweepRead, SweepCommit, ClearStale, TypeOK, boundVars
<1>6. /\ sweep' \subseteq Sessions /\ alive' \subseteq Sessions
      /\ disowned' \subseteq Sessions /\ UNCHANGED <<pid, broken>>
  BY <1>1
  DEF Outside, Disconnect, SweepRead, SweepCommit, ClearStale, Disown, Active, TypeOK, historyVars
<1> QED
  BY <1>1, <1>2, <1>3, <1>4, <1>5, <1>6 DEF TypeInv, TypeOK

LEMMA NextType == TypeInv /\ [Next]_vars => TypeInv'
<1> SUFFICES ASSUME TypeInv, [Next]_vars PROVE TypeInv'
  OBVIOUS
<1>1. CASE UNCHANGED vars
  BY <1>1 DEF vars, TypeInv, TypeOK, NodeGiven, TrackedRuns, CleaningOver, boundVars, historyVars
<1> QED
  BY <1>1, AllocateType, LaunchType, CleanType, EndingType, CrashType, OutsideType
  DEF Next, Launching, Ending, Outside

LEMMA TypeHolds == Spec => []TypeInv
  BY InitType, NextType, PTL DEF Spec

(* The tables, rows and threads of the doors keep their types.              *)
THEOREM TypeCorrect == Spec => []TypeOK
<1>1. TypeInv => TypeOK
  BY DEF TypeInv
<1> QED
  BY <1>1, TypeHolds, PTL

-----------------------------------------------------------------------------
(* Who is on the list, and who shares a node                                *)

DoorInv == TypeInv /\ InPlayIsListed

(* A step in which sessions only move towards their ends.                    *)
Onward ==
  \A s \in Sessions :
    /\ ses'[s].kind = ses[s].kind /\ ses'[s].node = ses[s].node
    /\ ses'[s].pc \in {ses[s].pc, "released", "over"}

(* Who is in play was so before.                                            *)
LEMMA OnwardPlay ==
  ASSUME TypeInv, TypeInv', Onward, tracked' \subseteq tracked,
         NEW s \in Sessions, InPlay(s)'
  PROVE  InPlay(s) /\ ses'[s].pc = ses[s].pc /\ ses'[s].node = ses[s].node
<1>1. s \in tracked' => ses'[s].pc = "running" /\ s \in tracked
  BY DEF TypeInv, TrackedRuns
<1>2. ses'[s].pc # "over" /\ ses'[s].pc # "released"
  BY <1>1 DEF InPlay
<1>3. ses'[s].pc = ses[s].pc /\ ses'[s].node = ses[s].node /\ ses'[s].kind = ses[s].kind
  BY <1>2 DEF Onward
<1> QED
  BY <1>1, <1>3 DEF InPlay

(* A row is closed for the session's end, by a thread that has taken it out  *)
(* of the table, or by somebody else, who disowns it.                       *)
LEMMA OnwardListed ==
  ASSUME DoorInv, TypeInv', Onward, tracked' \subseteq tracked, disowned \subseteq disowned',
         \A s \in Sessions : status'[s] # status[s] => s \in disowned' \/ ~ InPlay(s)'
  PROVE  InPlayIsListed'
<1> SUFFICES ASSUME NEW s \in Sessions, InPlay(s)', ses'[s].pc # "allocated", s \notin disowned'
             PROVE  status'[s] = "active"
  BY DEF InPlayIsListed
<1>1. InPlay(s) /\ ses[s].pc # "allocated" /\ s \notin disowned
  BY OnwardPlay DEF DoorInv
<1> QED
  BY <1>1 DEF DoorInv, InPlayIsListed

LEMMA GotoOnward ==
  ASSUME TypeOK, NEW s \in Sessions, NEW pc \in {"released", "over"}, Goto(s, pc)
  PROVE  Onward /\ ses'[s].pc = pc
  BY GotoFacts DEF Onward

(* Every step but an allocation, the commit of its row and a start.          *)
Later ==
  \/ \E s \in Sessions : OpenFails(s) \/ StartFails(s) \/ AbortFails(s) \/ Ending(s)
  \/ \E p \in Procs : Crash(p)
  \/ Outside \/ UNCHANGED vars

LEMMA LaterOnward ==
  ASSUME TypeInv, Later
  PROVE  Onward /\ tracked' \subseteq tracked /\ disowned \subseteq disowned'
<1>0. TypeOK
  BY DEF TypeInv
<1>1. ASSUME NEW s \in Sessions,
             OpenFails(s) \/ StartFails(s) \/ AbortFails(s) \/ BridgeRelease(s) \/ BridgeClose(s)
      PROVE  Onward /\ tracked' \subseteq tracked /\ disowned \subseteq disowned'
  BY <1>0, <1>1, GotoOnward DEF OpenFails, StartFails, AbortFails, BridgeRelease, BridgeClose, historyVars
<1>2. ASSUME NEW s \in Sessions, NEW t \in Threads,
             Clean(s, t) \/ CleanMark(s, t) \/ CleanFails(s, t) \/ CleanRelease(s, t)
      PROVE  Onward /\ tracked' \subseteq tracked /\ disowned \subseteq disowned'
  BY <1>2 DEF Clean, Closed, CleanMark, CleanFails, CleanRelease, Onward, historyVars
<1>3. ASSUME NEW p \in Procs, Crash(p)
      PROVE  Onward /\ tracked' \subseteq tracked /\ disowned \subseteq disowned'
  <2>1. \A s \in Sessions : \/ ses'[s] = ses[s]
                            \/ ses'[s] = [ses[s] EXCEPT !.pc = "over"]
    BY <1>3 DEF Crash
  <2>2. \A s \in Sessions : ses[s] \in Session
    BY <1>0 DEF TypeOK
  <2>3. Onward
    BY <2>1, <2>2 DEF Onward, Session
  <2> QED
    BY <1>3, <2>3 DEF Crash, historyVars
<1>4. ASSUME Outside PROVE Onward /\ tracked' \subseteq tracked /\ disowned \subseteq disowned'
  <2>1. ses' = ses /\ tracked' = tracked
    BY <1>4 DEF Outside, Disconnect, SweepRead, SweepCommit, ClearStale
  <2>2. disowned \subseteq disowned'
    BY <1>4 DEF Outside, Disconnect, SweepRead, SweepCommit, ClearStale, Disown, historyVars
  <2> QED
    BY <2>1, <2>2 DEF Onward
<1>5. ASSUME \/ UNCHANGED vars
             \/ \E s \in Sessions : Exit(s)
      PROVE  Onward /\ tracked' \subseteq tracked /\ disowned \subseteq disowned'
  BY <1>5 DEF vars, Exit, Onward, historyVars
<1> QED
  BY <1>1, <1>2, <1>3, <1>4, <1>5 DEF Later, Ending

(* Who is in play is unfinished.                                            *)
LEMMA PlayUnfinished ==
  ASSUME TypeInv, NEW s \in Sessions, InPlay(s)
  PROVE  Unfinished(s)
  BY DEF TypeInv, TrackedRuns, InPlay, Unfinished

LEMMA LaterListed ==
  ASSUME DoorInv, TypeInv', Later
  PROVE  InPlayIsListed'
<1>0. /\ TypeInv /\ TypeOK /\ Onward
      /\ tracked' \subseteq tracked /\ disowned \subseteq disowned'
  BY LaterOnward DEF DoorInv, TypeInv
<1> SUFFICES ASSUME NEW s \in Sessions, status'[s] # status[s], s \notin disowned', InPlay(s)'
             PROVE  FALSE
  BY <1>0, OnwardListed
<1>1. InPlay(s) /\ ses'[s].pc = ses[s].pc /\ Unfinished(s)
  BY <1>0, OnwardPlay, PlayUnfinished
<1>2. ses'[s].pc = "over" => ~ InPlay(s)'
  BY DEF TypeInv, TrackedRuns, InPlay
<1>3. ASSUME NEW r \in Sessions,
             OpenFails(r) \/ StartFails(r) \/ AbortFails(r) \/ BridgeRelease(r) \/ BridgeClose(r)
      PROVE  FALSE
  <2>1. r = s /\ (StartFails(r) \/ BridgeClose(r))
    BY <1>0, <1>3 DEF OpenFails, StartFails, AbortFails, BridgeRelease, BridgeClose, TypeOK
  <2>2. ses'[s].pc = "over"
    BY <1>0, <2>1, GotoFacts DEF StartFails, BridgeClose
  <2> QED
    BY <1>2, <2>2
<1>4. ASSUME NEW r \in Sessions, NEW t \in Threads,
             Clean(r, t) \/ CleanMark(r, t) \/ CleanFails(r, t) \/ CleanRelease(r, t)
      PROVE  FALSE
  <2>1. r = s /\ CleanMark(r, t)
    BY <1>0, <1>4 DEF Clean, CleanMark, CleanFails, CleanRelease, TypeOK
  <2>2. s \notin tracked /\ ses[s].pc = "running" /\ ses[s].kind = "door"
    BY <1>0, <2>1 DEF CleanMark, TypeInv, CleaningOver
  <2> QED
    BY <1>1, <2>2 DEF InPlay
<1>5. ASSUME Outside PROVE FALSE
  <2>1. \/ \E r \in Sessions : Disconnect(r) /\ r = s
        \/ SweepCommit /\ s \in sweep
        \/ ClearStale /\ s \in Active
    BY <1>0, <1>5 DEF Outside, Disconnect, SweepRead, SweepCommit, ClearStale, TypeOK
  <2>2. s \in disowned'
    BY <1>1, <2>1 DEF Disconnect, SweepCommit, ClearStale, Disown
  <2> QED
    BY <2>2
<1>6. ASSUME \/ UNCHANGED vars
             \/ \E r \in Sessions : Exit(r)
             \/ \E p \in Procs : Crash(p)
      PROVE  FALSE
  BY <1>6 DEF vars, Exit, Crash
<1> QED
  BY <1>3, <1>4, <1>5, <1>6 DEF Later, Ending

(* The commit of a row, and the start of a door or bridge.                   *)
LEMMA OpenListed ==
  ASSUME DoorInv, TypeInv', NEW s \in Sessions, Open(s) \/ Start(s)
  PROVE  /\ InPlayIsListed' /\ disowned' = disowned
         /\ \A r \in Sessions : InPlay(r)' => InPlay(r) /\ ses'[r].node = ses[r].node
<1>1. TypeOK
  BY DEF DoorInv, TypeInv
<1>2. PICK pc \in {"open", "running"} : Goto(s, pc)
  BY DEF Open, Start
<1>3. /\ ses'[s].pc = pc /\ ses'[s].kind = ses[s].kind /\ ses'[s].node = ses[s].node
      /\ \A r \in Sessions \ {s} : ses'[r] = ses[r]
  BY <1>1, <1>2, GotoFacts
<1>4. /\ ses[s].pc \in {"allocated", "open"} /\ disowned' = disowned
      /\ tracked' \subseteq tracked \union {s}
  BY DEF Open, Start, historyVars
<1>5. \A r \in Sessions : InPlay(r)' => InPlay(r) /\ ses'[r].node = ses[r].node
  BY <1>3, <1>4 DEF InPlay
<1>6. \A r \in Sessions : r # s => status'[r] = status[r]
  BY <1>1 DEF Open, Start, TypeOK
<1>7. Open(s) => status'[s] = "active"
  BY <1>1 DEF Open, TypeOK
<1>8. Start(s) => status'[s] = status[s] /\ ses[s].pc = "open"
  BY DEF Start
<1>9. InPlayIsListed'
  <2> SUFFICES ASSUME NEW r \in Sessions, InPlay(r)', ses'[r].pc # "allocated",
                      r \notin disowned'
               PROVE  status'[r] = "active"
    BY DEF InPlayIsListed
  <2>1. CASE r = s
    <3>1. ses[s].pc = "open" => status[s] = "active" \/ s \in disowned
      BY DEF DoorInv, InPlayIsListed, InPlay
    <3> QED
      BY <1>4, <1>7, <1>8, <2>1, <3>1
  <2>2. CASE r # s
    BY <1>3, <1>4, <1>5, <1>6, <2>2 DEF DoorInv, InPlayIsListed
  <2> QED
    BY <2>1, <2>2
<1> QED
  BY <1>4, <1>5, <1>9

LEMMA AllocateFacts ==
  ASSUME DoorInv, NEW p \in Procs, NEW s \in Sessions, NEW kind \in {"door", "bridge"},
         Allocate(p, s, kind)
  PROVE  /\ InPlayIsListed' /\ disowned' = disowned
         /\ \A r \in Sessions \ {s} : InPlay(r)' <=> InPlay(r)
         /\ \A r \in Sessions \ {s} : ses'[r] = ses[r]
         /\ \A r \in Active : ses[r].node # ses'[s].node
         /\ ~ OverlappingLaunches => \A r \in Sessions : ses[r].pc # "allocated"
<1>1. TypeOK
  BY DEF DoorInv, TypeInv
<1>2. PICK n \in Free(p) :
        ses' = [ses EXCEPT ![s] = [pc |-> "allocated", kind |-> kind, proc |-> p, node |-> n]]
  BY DEF Allocate
<1>3. /\ ses'[s].node = n /\ ses'[s].pc = "allocated"
      /\ \A r \in Sessions \ {s} : ses'[r] = ses[r]
  BY <1>1, <1>2 DEF TypeOK
<1>4. UNCHANGED <<tracked, status, disowned>>
  BY DEF Allocate, historyVars
<1>5. \A r \in Sessions \ {s} : InPlay(r)' <=> InPlay(r)
  BY <1>3, <1>4 DEF InPlay
<1>6. InPlayIsListed'
  BY <1>3, <1>4, <1>5 DEF DoorInv, InPlayIsListed
<1>7. \A r \in Active : ses[r].node # n
  BY DEF Free, Occupied
<1> QED
  BY <1>3, <1>4, <1>5, <1>6, <1>7 DEF Allocate

LEMMA NextSplit ==
  [Next]_vars =>
    \/ \E s \in Sessions, p \in Procs, kind \in {"door", "bridge"} : Allocate(p, s, kind)
    \/ \E s \in Sessions : Open(s) \/ Start(s)
    \/ Later
  BY DEF Next, Launching, Later, Outside

LEMMA NextDoors == DoorInv /\ [Next]_vars => DoorInv'
<1> SUFFICES ASSUME DoorInv, [Next]_vars PROVE DoorInv'
  OBVIOUS
<1>1. TypeInv'
  BY NextType DEF DoorInv
<1> QED
  BY <1>1, NextSplit, AllocateFacts, OpenListed, LaterListed DEF DoorInv

LEMMA DoorsHold == Spec => []DoorInv
<1>1. Init => InPlayIsListed
  BY DEF Init, InPlayIsListed, InPlay
<1> QED
  BY <1>1, InitType, NextDoors, PTL DEF Spec, DoorInv

(* Every session in play is on the list the sysop can end it from, unless    *)
(* somebody else closed its row.                                            *)
THEOREM ListSafe == Spec => []InPlayIsListed
<1>1. DoorInv => InPlayIsListed
  BY DEF DoorInv
<1> QED
  BY <1>1, DoorsHold, PTL

LEMMA NextShare ==
  ~ OverlappingLaunches =>
    (DoorInv /\ SharedOnlyIfDisowned /\ [Next]_vars => SharedOnlyIfDisowned')
<1> SUFFICES ASSUME ~ OverlappingLaunches, DoorInv, SharedOnlyIfDisowned, [Next]_vars,
                    NEW s \in Sessions, NEW t \in Sessions, Share(s, t)'
             PROVE  s \in disowned' \/ t \in disowned'
  BY DEF SharedOnlyIfDisowned
<1>1. TypeInv /\ TypeInv'
  BY NextType DEF DoorInv
<1>2. ASSUME \A r \in Sessions : InPlay(r)' => InPlay(r) /\ ses'[r].node = ses[r].node,
             disowned \subseteq disowned'
      PROVE  s \in disowned' \/ t \in disowned'
  BY <1>2 DEF SharedOnlyIfDisowned, Share
<1>3. CASE Later
  BY <1>1, <1>2, <1>3, LaterOnward, OnwardPlay
<1>4. CASE \E r \in Sessions : Open(r) \/ Start(r)
  BY <1>1, <1>2, <1>4, OpenListed
<1>5. ASSUME NEW r \in Sessions, NEW p \in Procs, NEW kind \in {"door", "bridge"},
             Allocate(p, r, kind)
      PROVE  s \in disowned' \/ t \in disowned'
  <2>1. /\ disowned' = disowned
        /\ \A q \in Sessions \ {r} : InPlay(q)' <=> InPlay(q)
        /\ \A q \in Sessions \ {r} : ses'[q] = ses[q]
        /\ \A q \in Active : ses[q].node # ses'[r].node
        /\ \A q \in Sessions : ses[q].pc # "allocated"
    BY <1>5, AllocateFacts
  <2>2. \A q \in Sessions \ {r} :
          InPlay(q)' /\ ses'[q].node = ses'[r].node => q \in disowned
    <3> SUFFICES ASSUME NEW q \in Sessions \ {r}, InPlay(q)', ses'[q].node = ses'[r].node,
                        q \notin disowned
                 PROVE  FALSE
      OBVIOUS
    <3>1. status[q] = "active"
      BY <2>1 DEF DoorInv, InPlayIsListed
    <3> QED
      BY <2>1, <3>1 DEF Active
  <2>3. CASE s # r /\ t # r
    BY <2>1, <2>3 DEF SharedOnlyIfDisowned, Share
  <2>4. CASE s = r \/ t = r
    BY <2>1, <2>2, <2>4 DEF Share
  <2> QED
    BY <2>3, <2>4
<1> QED
  BY <1>3, <1>4, <1>5, NextSplit

(* While launches follow one another, two sessions share a node only when    *)
(* the sweep or the sysop closed the row of one of them.                    *)
THEOREM ShareSafe == ~ OverlappingLaunches => (Spec => []SharedOnlyIfDisowned)
<1> SUFFICES ASSUME ~ OverlappingLaunches PROVE Spec => []SharedOnlyIfDisowned
  OBVIOUS
<1>1. DoorInv /\ SharedOnlyIfDisowned /\ [Next]_vars => SharedOnlyIfDisowned'
  BY NextShare
<1>2. Init => SharedOnlyIfDisowned
  BY DEF Init, SharedOnlyIfDisowned, Share, InPlay
<1> QED
  BY <1>1, <1>2, DoorsHold, PTL DEF Spec
=============================================================================
