----------------------- MODULE EventScheduler_proofs -----------------------
(***************************************************************************)
(* Proofs about EventScheduler: type correctness, and that a sweep does    *)
(* not run an event twice for one occurrence.                              *)
(*                                                                         *)
(* RunsOncePerOccurrence speaks of the step that starts a run; it follows  *)
(* from an invariant: whatever row of an event a sweep may look at, its    *)
(* last_run_at is not before any occurrence recorded as served.            *)
(***************************************************************************)
EXTENDS EventScheduler, TLAPS

USE DEF Never

LEMMA NoRowType == NoRow \in Row /\ NoRows \in [Events -> Row]
  BY SchedulerAssumption DEF NoRow, NoRows, Row

(* A run that is due is due for an instant later than the last run, and not *)
(* later than now (compute_next_run, is_due).                               *)
LEMMA DueBounds ==
  ASSUME NEW s \in Schedules, NEW last \in Never .. MaxTime,
         NEW now \in Period .. MaxTime, IsDue(s, last, now)
  PROVE  /\ ComputeNextRun(s, last, now) \in 0 .. now
         /\ s.kind # "unknown" => last < ComputeNextRun(s, last, now)
<1>1. /\ Period \in Nat /\ Period > 0 /\ MaxTime \in Nat /\ now \in Nat /\ now > 0
      /\ s.at \in Nat /\ s.at > 0
  BY SchedulerAssumption
<1>2. now % Period \in 0 .. Period - 1 /\ s.at % Period \in 0 .. Period - 1
  BY <1>1
<1>3. Latest(s, now) \in Int
  BY <1>1, <1>2 DEF Latest, LatestAtOrBefore
<1>4. Latest(s, now) + Period > now
  BY <1>1, <1>2 DEF Latest, LatestAtOrBefore
<1>5. CASE s.kind = "interval"
  BY <1>1, <1>5 DEF IsDue, ComputeNextRun
<1>6. CASE s.kind = "unknown"
  BY <1>1, <1>6 DEF IsDue, ComputeNextRun
<1>7. CASE s.kind \notin {"interval", "unknown"}
  <2>1. ComputeNextRun(s, last, now) =
          IF last = Never \/ last >= Latest(s, now)
          THEN Latest(s, now) + Period ELSE Latest(s, now)
    BY <1>7 DEF ComputeNextRun
  <2>2. ComputeNextRun(s, last, now) = Latest(s, now) /\ last < Latest(s, now)
    BY <1>1, <1>3, <1>4, <2>1 DEF IsDue
  <2> QED
    BY <1>1, <1>3, <2>2 DEF IsDue
<1> QED
  BY <1>5, <1>6, <1>7

LEMMA CurrentType ==
  ASSUME TypeOK, NEW e \in Events
  PROVE  /\ Current(e) \in Row
         /\ Current(e).schedule \in Schedules /\ Current(e).last_run_at \in Never .. MaxTime
  BY DEF TypeOK, Current, Row, Sweep

-----------------------------------------------------------------------------
(* Type correctness                                                         *)

LEMMA InitType == Init => TypeOK
<1> SUFFICES ASSUME Init PROVE TypeOK
  OBVIOUS
<1>1. clock \in Period .. MaxTime
  BY SchedulerAssumption DEF Init
<1>2. row \in [Events -> Row]
  BY SchedulerAssumption DEF Init, Row
<1>3. sweep \in Sweep
  BY NoRowType, SchedulerAssumption DEF Init, Sweep, Asleep
<1>4. manual \in Request
  BY DEF Init, NoRequest, Request
<1> QED
  BY <1>1, <1>2, <1>3, <1>4, SchedulerAssumption DEF Init, TypeOK

LEMMA AsleepType == Asleep \in Sweep
  BY NoRowType, SchedulerAssumption DEF Asleep, Sweep

LEMMA StampType ==
  ASSUME TypeOK, NEW e \in Events, Stamp(e)
  PROVE  row' \in [Events -> Row]
  BY SchedulerAssumption DEF TypeOK, Stamp, Row

(* The sweep goes on to its next row after a commit or rollback.            *)
LEMMA ExpiredType ==
  ASSUME sweep \in Sweep, NEW e,
         sweep' = [sweep EXCEPT !.pc = "sweep", !.todo = @ \ {e},
                                !.rows = NoRows, !.expired = TRUE, !.occ = 0]
  PROVE  sweep' \in Sweep /\ sweep'.expired /\ sweep'.occ = 0
<1>1. sweep.todo \ {e} \in SUBSET Events
  BY DEF Sweep
<1>2. 0 \in 0 .. MaxTime
  BY SchedulerAssumption
<1>3. sweep' = [pc |-> "sweep", todo |-> sweep.todo \ {e}, rows |-> NoRows,
                expired |-> TRUE, occ |-> 0]
  BY DEF Sweep
<1>4. NoRows \in [Events -> Row]
  BY NoRowType
<1>5. sweep' \in Sweep
  BY <1>1, <1>2, <1>3, <1>4 DEF Sweep
<1> QED
  BY <1>3, <1>5

LEMMA NextType == TypeOK /\ [Next]_vars => TypeOK'
<1> SUFFICES ASSUME TypeOK, [Next]_vars PROVE TypeOK'
  OBVIOUS
<1> USE SchedulerAssumption
<1>1. CASE Pass
  BY <1>1 DEF Pass, TypeOK, table, bounds
<1>2. CASE Load
  BY <1>2 DEF Load, TypeOK, table, bounds, Sweep
<1>3. CASE HandlerTimesOut \/ HandlerReturns
  BY <1>3 DEF HandlerTimesOut, HandlerReturns, TypeOK, table, bounds, Sweep
<1>4. CASE SweepDone
  BY <1>4, AsleepType DEF SweepDone, TypeOK, table, bounds
<1>5. ASSUME NEW e \in Events, Skip(e) PROVE TypeOK'
  BY <1>5 DEF Skip, TypeOK, table, bounds, Sweep
<1>6. ASSUME NEW e \in Events, Start(e) PROVE TypeOK'
  <2>1. sweep'.occ \in 0 .. MaxTime /\ sweep' \in Sweep
    <3> DEFINE s == Current(e).schedule
               last == Current(e).last_run_at
    <3>1. s \in Schedules /\ last \in Never .. MaxTime /\ IsDue(s, last, clock)
      BY <1>6, CurrentType DEF Start
    <3>2. ComputeNextRun(s, last, clock) \in 0 .. clock
      BY <3>1, DueBounds DEF TypeOK
    <3>3. ComputeNextRun(s, last, clock) \in 0 .. MaxTime
      BY <3>2 DEF TypeOK
    <3>4. sweep' = [sweep EXCEPT !.pc = "handler", !.occ = ComputeNextRun(s, last, clock)]
      BY <1>6 DEF Start
    <3> HIDE DEF s, last
    <3> QED
      BY <3>3, <3>4 DEF TypeOK, Sweep
  <2> QED
    BY <1>6, <2>1 DEF Start, TypeOK, table, bounds
<1>7. ASSUME NEW e \in Events, Record(e) PROVE TypeOK'
  <2>1. row' \in [Events -> Row]
    BY <1>7, StampType DEF Record
  <2>2. sweep' \in Sweep
    BY <1>7, ExpiredType DEF Record, TypeOK
  <2>3. served' \subseteq Events \X (0 .. MaxTime)
    BY <1>7 DEF Record, TypeOK, Sweep
  <2> QED
    BY <1>7, <2>1, <2>2, <2>3 DEF Record, TypeOK, bounds
<1>8. ASSUME NEW e \in Events, RecordFails(e) PROVE TypeOK'
  <2>1. sweep' \in Sweep
    BY <1>8, ExpiredType DEF RecordFails, TypeOK
  <2> QED
    BY <1>8, <2>1 DEF RecordFails, TypeOK, table
<1>9. ASSUME NEW e \in Events, Abort(e) PROVE TypeOK'
  BY <1>9, AsleepType DEF Abort, TypeOK, table, bounds
<1>10. CASE Restart
  BY <1>10, AsleepType DEF Restart, TypeOK, table, NoRequest, Request
<1>11. ASSUME NEW e \in Events, NEW s \in Schedules, NEW on \in BOOLEAN, Create(e, s, on)
       PROVE  TypeOK'
  <2>1. row' \in [Events -> Row]
    BY <1>11 DEF Create, TypeOK, Row
  <2> QED
    BY <1>11, <2>1 DEF Create, Edit, TypeOK
<1>12. ASSUME NEW e \in Events, NEW s \in Schedules, NEW on \in BOOLEAN, Save(e, s, on)
       PROVE  TypeOK'
  <2>1. row' \in [Events -> Row]
    BY <1>12 DEF Save, TypeOK, Row
  <2> QED
    BY <1>12, <2>1 DEF Save, Edit, TypeOK
<1>13. ASSUME NEW e \in Events, Delete(e) PROVE TypeOK'
  <2>1. row' \in [Events -> Row]
    BY <1>13, NoRowType DEF Delete, TypeOK
  <2> QED
    BY <1>13, <2>1 DEF Delete, Edit, TypeOK
<1>14. ASSUME NEW e \in Events, RunNow(e) PROVE TypeOK'
  BY <1>14 DEF RunNow, Edit, TypeOK, table, Request
<1>15. CASE ManualReturns
  BY <1>15 DEF ManualReturns, TypeOK, table, bounds, Request
<1>16. CASE ManualRecord
  <2>1. row' \in [Events -> Row]
    BY <1>16, StampType DEF ManualRecord, TypeOK
  <2>2. faults' \in 0 .. MaxFaults
    BY <1>16 DEF ManualRecord, TypeOK
  <2> QED
    BY <1>16, <2>1, <2>2 DEF ManualRecord, TypeOK, NoRequest, Request
<1>17. CASE UNCHANGED vars
  BY <1>17 DEF vars, table, bounds, TypeOK
<1> QED
  BY <1>1, <1>2, <1>3, <1>4, <1>5, <1>6, <1>7, <1>8, <1>9, <1>10, <1>11, <1>12, <1>13,
     <1>14, <1>15, <1>16, <1>17 DEF Next, Thread, Sysop

(* Every variable keeps its type (the columns of ScheduledEvent and the     *)
(* locals of _tick and fire).                                               *)
THEOREM TypeCorrect == Spec => []TypeOK
<1>1. Init => TypeOK
  BY InitType
<1>2. TypeOK /\ [Next]_vars => TypeOK'
  BY NextType
<1> QED
  BY <1>1, <1>2, PTL DEF Spec

-----------------------------------------------------------------------------
(* A sweep runs an event once for an occurrence                             *)

(* Nothing is stamped with a time still to come.                            *)
PastOnly == \A e \in Events : row[e].last_run_at <= clock

(* The occurrence a run is for has come.                                    *)
RunIsDue == sweep.occ <= clock

(* The rows a sweep may look at were stamped after what is served.          *)
ServedBeforeStamp ==
  \A e \in Events, o \in 0 .. MaxTime : <<e, o>> \in served =>
    /\ e \in exists => o <= row[e].last_run_at
    /\ ~sweep.expired /\ e \in sweep.todo => o <= sweep.rows[e].last_run_at

ServedInv == TypeOK /\ PastOnly /\ RunIsDue /\ ServedBeforeStamp

LEMMA InitServed == Init => ServedInv
<1> SUFFICES ASSUME Init PROVE ServedInv
  OBVIOUS
<1>1. TypeOK
  BY InitType
<1>2. PastOnly /\ RunIsDue /\ ServedBeforeStamp
  BY SchedulerAssumption DEF Init, Asleep, PastOnly, RunIsDue, ServedBeforeStamp
<1> QED
  BY <1>1, <1>2 DEF ServedInv

(* Stamping an event with the present time only makes it later.             *)
LEMMA StampServed ==
  ASSUME ServedInv, NEW e \in Events, Stamp(e)
  PROVE  \A f \in Events : /\ row[f].last_run_at <= row'[f].last_run_at
                           /\ row'[f].last_run_at <= clock
                           /\ row'[e].last_run_at = clock
  BY SchedulerAssumption DEF ServedInv, TypeOK, Stamp, Row, PastOnly

LEMMA NextServed == ServedInv /\ [Next]_vars => ServedInv'
<1> SUFFICES ASSUME ServedInv, [Next]_vars PROVE ServedInv'
  OBVIOUS
<1> USE SchedulerAssumption
<1>0. TypeOK /\ TypeOK'
  BY NextType DEF ServedInv
<1>t. /\ clock \in Nat /\ clock' \in Nat /\ sweep.occ \in Nat
      /\ \A e \in Events : row[e].last_run_at \in Nat /\ row'[e].last_run_at \in Nat
  BY <1>0 DEF TypeOK, Row, Sweep
<1>1. CASE Pass
  BY <1>0, <1>t, <1>1
     DEF Pass, ServedInv, PastOnly, RunIsDue, ServedBeforeStamp, table, bounds
<1>2. CASE Load
  BY <1>0, <1>2 DEF Load, ServedInv, PastOnly, RunIsDue, ServedBeforeStamp, TypeOK, Sweep,
     table, bounds
<1>3. CASE HandlerTimesOut \/ HandlerReturns
  BY <1>0, <1>3 DEF HandlerTimesOut, HandlerReturns, ServedInv, PastOnly, RunIsDue,
     ServedBeforeStamp, TypeOK, Sweep, table, bounds
<1>4. ASSUME sweep' = Asleep, UNCHANGED <<clock, row, exists, served>> PROVE ServedInv'
  BY <1>0, <1>t, <1>4 DEF Asleep, ServedInv, PastOnly, RunIsDue, ServedBeforeStamp
<1>5. ASSUME NEW e \in Events, Skip(e) PROVE ServedInv'
  BY <1>0, <1>5 DEF Skip, ServedInv, PastOnly, RunIsDue, ServedBeforeStamp, TypeOK, Sweep,
     table, bounds
<1>6. ASSUME NEW e \in Events, Start(e) PROVE ServedInv'
  <2> DEFINE s == Current(e).schedule
             last == Current(e).last_run_at
  <2>1. s \in Schedules /\ last \in Never .. MaxTime /\ IsDue(s, last, clock)
    BY <1>0, <1>6, CurrentType DEF Start
  <2>2. ComputeNextRun(s, last, clock) \in 0 .. clock
    BY <1>0, <2>1, DueBounds DEF TypeOK
  <2>3. sweep' = [sweep EXCEPT !.pc = "handler", !.occ = ComputeNextRun(s, last, clock)]
    BY <1>6 DEF Start
  <2> HIDE DEF s, last
  <2>4. sweep'.occ <= clock /\ sweep'.todo = sweep.todo /\ sweep'.rows = sweep.rows
        /\ sweep'.expired = sweep.expired
    BY <1>0, <1>t, <2>2, <2>3 DEF TypeOK, Sweep
  <2> QED
    BY <1>0, <1>6, <2>4
       DEF Start, ServedInv, PastOnly, RunIsDue, ServedBeforeStamp, table, bounds
<1>7. ASSUME NEW e \in Events, Record(e) PROVE ServedInv'
  <2>1. \A f \in Events : /\ row[f].last_run_at <= row'[f].last_run_at
                          /\ row'[f].last_run_at <= clock
                          /\ row'[e].last_run_at = clock
    BY <1>7, StampServed DEF Record
  <2>2. sweep'.expired /\ sweep'.occ = 0 /\ clock' = clock /\ exists' = exists
        /\ served' = served \union {<<e, sweep.occ>>}
    BY <1>0, <1>7 DEF Record, TypeOK, Sweep
  <2>3. ASSUME NEW f \in Events, NEW o \in 0 .. MaxTime, <<f, o>> \in served', f \in exists'
        PROVE  o <= row'[f].last_run_at
    <3>1. CASE <<f, o>> \in served
      <4>1. o <= row[f].last_run_at
        BY <2>2, <2>3, <3>1 DEF ServedInv, ServedBeforeStamp
      <4>2. o \in Nat /\ row[f].last_run_at \in Nat /\ row'[f].last_run_at \in Nat
        BY <1>t
      <4>3. row[f].last_run_at <= row'[f].last_run_at
        BY <2>1
      <4> QED
        BY <4>1, <4>2, <4>3
    <3>2. CASE <<f, o>> = <<e, sweep.occ>>
      BY <2>1, <3>2 DEF ServedInv, RunIsDue
    <3> QED
      BY <2>2, <2>3, <3>1, <3>2
  <2> QED
    BY <1>0, <1>t, <2>1, <2>2, <2>3 DEF ServedInv, PastOnly, RunIsDue, ServedBeforeStamp
<1>8. ASSUME NEW e \in Events, RecordFails(e) PROVE ServedInv'
  <2>1. sweep'.expired /\ sweep'.occ = 0
    BY <1>0, <1>8 DEF RecordFails, TypeOK, Sweep
  <2> QED
    BY <1>0, <1>t, <1>8, <2>1
       DEF RecordFails, ServedInv, PastOnly, RunIsDue, ServedBeforeStamp, table
<1>9. ASSUME NEW e \in Events, Abort(e) PROVE ServedInv'
  BY <1>4, <1>9 DEF Abort, table
<1>10. CASE Restart
  BY <1>4, <1>10 DEF Restart, table
<1>11. ASSUME NEW e \in Events, NEW s \in Schedules, NEW on \in BOOLEAN, Create(e, s, on)
       PROVE  ServedInv'
  <2>1. row'[e].last_run_at = 0 /\ \A f \in Events \ {e} : row'[f] = row[f]
    BY <1>0, <1>11 DEF Create, TypeOK
  <2>2. served' = {p \in served : p[1] # e} /\ exists' = exists \union {e}
        /\ sweep' = sweep /\ clock' = clock
    BY <1>11 DEF Create
  <2>3. PastOnly'
    <3>1. clock \in Nat
      BY <1>t
    <3>2. ASSUME NEW f \in Events
          PROVE  row'[f].last_run_at <= clock
      <4>1. CASE f = e
        BY <2>1, <3>1, <4>1
      <4>2. CASE f # e
        BY <2>1, <4>2 DEF ServedInv, PastOnly
      <4> QED
        BY <4>1, <4>2
    <3> QED
      BY <2>2, <3>2 DEF PastOnly
  <2>4. ASSUME NEW f \in Events, NEW o \in 0 .. MaxTime, <<f, o>> \in served'
        PROVE  /\ f # e /\ <<f, o>> \in served
               /\ f \in exists' => f \in exists
    BY <2>2, <2>4
  <2>5. ServedBeforeStamp'
    BY <2>1, <2>2, <2>4 DEF ServedInv, ServedBeforeStamp
  <2> QED
    BY <1>0, <2>2, <2>3, <2>5 DEF ServedInv, RunIsDue
<1>12. ASSUME NEW e \in Events, NEW s \in Schedules, NEW on \in BOOLEAN, Save(e, s, on)
       PROVE  ServedInv'
  <2>1. \A f \in Events : row'[f].last_run_at = row[f].last_run_at
    BY <1>0, <1>12 DEF Save, TypeOK, Row
  <2> QED
    BY <1>0, <1>12, <2>1 DEF Save, ServedInv, PastOnly, RunIsDue, ServedBeforeStamp
<1>13. ASSUME NEW e \in Events, Delete(e) PROVE ServedInv'
  <2>1. row'[e].last_run_at = 0 /\ \A f \in Events \ {e} : row'[f] = row[f]
    BY <1>0, <1>13 DEF Delete, TypeOK, NoRow
  <2>2. exists' = exists \ {e} /\ sweep' = sweep /\ clock' = clock /\ served' = served
    BY <1>13 DEF Delete
  <2> QED
    BY <1>0, <1>t, <2>1, <2>2 DEF ServedInv, PastOnly, RunIsDue, ServedBeforeStamp
<1>14. ASSUME UNCHANGED <<clock, row, exists, served, sweep>> PROVE ServedInv'
  BY <1>0, <1>14 DEF ServedInv, PastOnly, RunIsDue, ServedBeforeStamp
<1>15. CASE ManualRecord
  <2>1. /\ manual.event \in exists => manual.event \in Events
        /\ clock' = clock /\ exists' = exists /\ sweep' = sweep /\ served' = served
    BY <1>0, <1>15 DEF ManualRecord, TypeOK
  <2>2. CASE manual.event \in exists /\ Stamp(manual.event)
    <3>1. \A f \in Events : /\ row[f].last_run_at <= row'[f].last_run_at
                            /\ row'[f].last_run_at <= clock
      BY <2>1, <2>2, StampServed
    <3>2. \A f \in Events, o \in 0 .. MaxTime :
            o <= row[f].last_run_at => o <= row'[f].last_run_at
      BY <1>t, <3>1
    <3> QED
      BY <1>0, <2>1, <3>1, <3>2 DEF ServedInv, PastOnly, RunIsDue, ServedBeforeStamp
  <2>3. CASE UNCHANGED row
    BY <1>14, <2>1, <2>3
  <2> QED
    BY <1>15, <2>2, <2>3 DEF ManualRecord
<1> QED
  BY <1>1, <1>2, <1>3, <1>4, <1>5, <1>6, <1>7, <1>8, <1>9, <1>10, <1>11, <1>12, <1>13,
     <1>14, <1>15
     DEF Next, Thread, Sysop, SweepDone, RunNow, ManualReturns, vars, table, bounds

(* A run that starts is for an occurrence later than its row's last run,    *)
(* and so later than anything served.                                       *)
LEMMA StartIsNew ==
  ASSUME ServedInv, NEW e \in Events, Start(e), Current(e).schedule.kind # "unknown"
  PROVE  <<e, sweep'.occ>> \notin served
<1> DEFINE s == Current(e).schedule
           last == Current(e).last_run_at
           next == ComputeNextRun(s, last, clock)
<1>1. /\ s \in Schedules /\ last \in Never .. MaxTime
      /\ IsDue(s, last, clock) /\ s.kind # "unknown"
  BY CurrentType DEF ServedInv, Start
<1>2. next \in 0 .. clock /\ last < next
  BY <1>1, DueBounds DEF ServedInv, TypeOK
<1>3. sweep'.occ = next
  BY DEF Start, ServedInv, TypeOK, Sweep
<1>4. next \in 0 .. MaxTime /\ last \in Nat
  BY <1>1, <1>2, SchedulerAssumption DEF ServedInv, TypeOK
<1>5. ASSUME <<e, next>> \in served PROVE FALSE
  <2>1. next <= last
    <3>1. CASE sweep.expired
      <4>1. e \in exists /\ last = row[e].last_run_at
        BY <3>1 DEF Start, Gone, Current
      <4> HIDE DEF next
      <4> QED
        BY <1>4, <1>5, <4>1 DEF ServedInv, ServedBeforeStamp
    <3>2. CASE ~sweep.expired
      <4>1. e \in sweep.todo /\ last = sweep.rows[e].last_run_at
        BY <3>2 DEF Start, First, Current
      <4> HIDE DEF next
      <4> QED
        BY <1>4, <1>5, <3>2, <4>1 DEF ServedInv, ServedBeforeStamp
    <3> QED
      BY <3>1, <3>2
  <2> HIDE DEF next, last
  <2> QED
    BY <1>2, <1>4, <2>1
<1> QED
  BY <1>3, <1>5

(* No sweep runs an event a second time for an occurrence served already    *)
(* (compute_next_run and fire).                                             *)
THEOREM OncePerOccurrence == Spec => RunsOncePerOccurrence
<1>1. Init => ServedInv
  BY InitServed
<1>2. ServedInv /\ [Next]_vars => ServedInv'
  BY NextServed
<1>3. ServedInv => [\A e \in Events :
                     Start(e) /\ Current(e).schedule.kind # "unknown" =>
                       <<e, sweep'.occ>> \notin served]_vars
  BY StartIsNew
<1> QED
  BY <1>1, <1>2, <1>3, PTL DEF Spec, RunsOncePerOccurrence
=============================================================================
