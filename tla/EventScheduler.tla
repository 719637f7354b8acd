--------------------------- MODULE EventScheduler ---------------------------
(***************************************************************************)
(* Scheduled events: one thread sweeps the enabled rows every minute and   *)
(* runs those that are due, one after the other, while the sysop edits the *)
(* rows and runs events by hand from a web request.                        *)
(*                                                                         *)
(* Time is a count of ticks.  daily, hourly and weekly differ only in      *)
(* their period, so one period stands for all three.                       *)
(*                                                                         *)
(* Sources: events/runner.py and the routes of web/events_admin.py.        *)
(***************************************************************************)
EXTENDS Integers

CONSTANTS
  Events,     \* ids of ScheduledEvent rows, in the order a sweep takes them
  Period,     \* ticks between two occurrences of a clock schedule
  Schedules,  \* the schedules a row may have
  MaxTime,    \* bound: the clock
  MaxEdits,   \* bound: operations of the sysop
  MaxFaults   \* bound: failed commits and restarts of the process

Never == 0    \* last_run_at is NULL; the clock starts later

ASSUME SchedulerAssumption ==
  /\ Events \subseteq Nat
  /\ Period \in Nat \ {0}
  /\ MaxTime \in Nat /\ MaxTime >= Period
  /\ MaxEdits \in Nat /\ MaxFaults \in Nat
  /\ Schedules # {}
  /\ Schedules \subseteq [kind : {"clock", "interval", "bad", "unknown"}, at : 1 .. Period]

VARIABLES
  clock,    \* datetime.utcnow()
  exists,   \* the rows there are
  row,      \* their columns
  sweep,    \* the scheduler thread
  manual,   \* the event a Run now request is running, or nothing
  edits,    \* sysop operations so far
  faults    \* failures so far

(* Not in the program: for the properties.                                  *)
VARIABLES
  served    \* <<event, occurrence>>: sweeps ran it and recorded that

bounds == <<edits, faults>>
table == <<exists, row>>
vars == <<clock, table, sweep, manual, bounds, served>>

Row == [enabled : BOOLEAN, schedule : Schedules, last_run_at : Never .. MaxTime]

(* rows holds what the query of the sweep returned until a commit or        *)
(* rollback of the thread expires it; after that rows are read again.       *)
Sweep ==
  [pc : {"asleep", "sweep", "handler", "record"},
   todo : SUBSET Events,       \* the rest of the rows of this sweep
   rows : [Events -> Row],
   expired : BOOLEAN,
   occ : 0 .. MaxTime]         \* occurrence the running event was due for

NoRow == [enabled |-> FALSE, schedule |-> CHOOSE s \in Schedules : TRUE, last_run_at |-> Never]

NoRows == [e \in Events |-> NoRow]

Asleep == [pc |-> "asleep", todo |-> {}, rows |-> NoRows, expired |-> FALSE, occ |-> 0]

Request == [pc : {"idle", "handler", "record"}, event : Events \union {0}]

NoRequest == [pc |-> "idle", event |-> 0]

-----------------------------------------------------------------------------
(* Schedule arithmetic                                                      *)

(* _latest_at_or_before: the seed lies in the present period.               *)
LatestAtOrBefore(seed, now) == IF seed > now THEN seed - Period ELSE seed

Latest(s, now) == LatestAtOrBefore(now - (now % Period) + (s.at % Period), now)

(* Mutant of ComputeNextRun: a run stamped at the occurrence does not count.*)
NextRunAgain(s, last, now) ==
  CASE s.kind = "interval" -> IF last = Never THEN now ELSE last + s.at
    [] s.kind = "unknown"  -> now
    [] OTHER -> IF last = Never \/ last > Latest(s, now)
                THEN Latest(s, now) + Period ELSE Latest(s, now)

(* compute_next_run.  For a row that never ran latest is not in the future, *)
(* so its next run is a period later.                                       *)
ComputeNextRun(s, last, now) ==
  CASE s.kind = "interval" -> IF last = Never THEN now ELSE last + s.at
    [] s.kind = "unknown"  -> now
    [] OTHER -> IF last = Never \/ last >= Latest(s, now)
                THEN Latest(s, now) + Period ELSE Latest(s, now)

IsDue(s, last, now) == ComputeNextRun(s, last, now) <= now

-----------------------------------------------------------------------------
Init ==
  /\ clock = Period
  /\ exists \in SUBSET Events
  /\ row \in [Events -> [enabled : BOOLEAN, schedule : Schedules, last_run_at : {Never}]]
  /\ \A e \in Events \ exists : row[e] = NoRow
  /\ sweep = Asleep
  /\ manual = NoRequest
  /\ edits = 0 /\ faults = 0
  /\ served = {}

Pass ==
  /\ clock < MaxTime
  /\ clock' = clock + 1
  /\ UNCHANGED <<table, sweep, manual, bounds, served>>

(* _tick: the query for the enabled rows.                                   *)
Load ==
  /\ sweep.pc = "asleep"
  /\ sweep' = [sweep EXCEPT !.pc = "sweep", !.rows = row, !.expired = FALSE,
                            !.todo = {e \in exists : row[e].enabled}]
  /\ UNCHANGED <<clock, table, manual, bounds, served>>

Current(e) == IF sweep.expired THEN row[e] ELSE sweep.rows[e]

First(e) == e \in sweep.todo /\ \A f \in sweep.todo : e <= f

Gone(e) == sweep.expired /\ e \notin exists

(* The next row of the sweep is not due, or its schedule is unevaluable.    *)
Skip(e) ==
  /\ sweep.pc = "sweep" /\ First(e) /\ ~Gone(e)
  /\ \/ Current(e).schedule.kind = "bad"
     \/ ~IsDue(Current(e).schedule, Current(e).last_run_at, clock)
  /\ sweep' = [sweep EXCEPT !.todo = @ \ {e}]
  /\ UNCHANGED <<clock, table, manual, bounds, served>>

(* It is due; whether it has been disabled since the query is not asked.    *)
Start(e) ==
  /\ sweep.pc = "sweep" /\ First(e) /\ ~Gone(e)
  /\ LET s == Current(e).schedule
     IN /\ s.kind # "bad" /\ IsDue(s, Current(e).last_run_at, clock)
        /\ sweep' = [sweep EXCEPT !.pc = "handler",
                                  !.occ = ComputeNextRun(s, Current(e).last_run_at, clock)]
  /\ UNCHANGED <<clock, table, manual, bounds, served>>

(* A handler returns, raises, or hangs until the timeout abandons it.       *)
HandlerReturns ==
  /\ sweep.pc = "handler"
  /\ sweep' = [sweep EXCEPT !.pc = "record"]
  /\ UNCHANGED <<clock, table, manual, bounds, served>>

(* Mutant of HandlerTimesOut: the thread waits for the handler for ever.    *)
HandlerNeverTimesOut == FALSE /\ UNCHANGED vars

HandlerTimesOut ==
  /\ sweep.pc = "handler"
  /\ sweep' = [sweep EXCEPT !.pc = "record"]
  /\ UNCHANGED <<clock, table, manual, bounds, served>>

(* Mutant of Stamp: the time of the next run is recorded.                   *)
StampNext(e) == row' = [row EXCEPT ![e].last_run_at = clock + Period]

(* The end of fire: last_run_at is the time the handler was done.           *)
Stamp(e) == row' = [row EXCEPT ![e].last_run_at = clock]

Record(e) ==
  /\ sweep.pc = "record" /\ First(e) /\ e \in exists
  /\ Stamp(e)
  /\ served' = served \union {<<e, sweep.occ>>}
  /\ sweep' = [sweep EXCEPT !.pc = "sweep", !.todo = @ \ {e},
                            !.rows = NoRows, !.expired = TRUE, !.occ = 0]
  /\ UNCHANGED <<clock, exists, manual, bounds>>

(* The commit fails and is rolled back; the sweep goes on.                  *)
RecordFails(e) ==
  /\ sweep.pc = "record" /\ First(e) /\ e \in exists
  /\ faults < MaxFaults /\ faults' = faults + 1
  /\ sweep' = [sweep EXCEPT !.pc = "sweep", !.todo = @ \ {e},
                            !.rows = NoRows, !.expired = TRUE, !.occ = 0]
  /\ UNCHANGED <<clock, table, manual, edits, served>>

(* Reading a row that has been deleted since the query, or recording a run  *)
(* of it, raises out of the sweep; the loop logs that and sleeps.           *)
Abort(e) ==
  /\ First(e)
  /\ \/ sweep.pc = "sweep" /\ Gone(e)
     \/ sweep.pc = "record" /\ e \notin exists
  /\ sweep' = Asleep
  /\ UNCHANGED <<clock, table, manual, bounds, served>>

SweepDone ==
  /\ sweep.pc = "sweep" /\ sweep.todo = {}
  /\ sweep' = Asleep
  /\ UNCHANGED <<clock, table, manual, bounds, served>>

(* The process dies and is started again: the thread and requests are new.  *)
Restart ==
  /\ faults < MaxFaults /\ faults' = faults + 1
  /\ sweep' = Asleep
  /\ manual' = NoRequest
  /\ UNCHANGED <<clock, table, edits, served>>

-----------------------------------------------------------------------------
(* The sysop                                                                *)

Edit == edits < MaxEdits /\ edits' = edits + 1

Create(e, s, on) ==
  /\ Edit /\ e \notin exists
  /\ exists' = exists \union {e}
  /\ row' = [row EXCEPT ![e] = [enabled |-> on, schedule |-> s, last_run_at |-> Never]]
  /\ served' = {p \in served : p[1] # e}
  /\ UNCHANGED <<clock, sweep, manual, faults>>

(* edit and toggle leave last_run_at alone.                                 *)
Save(e, s, on) ==
  /\ Edit /\ e \in exists
  /\ row' = [row EXCEPT ![e].schedule = s, ![e].enabled = on]
  /\ row' # row
  /\ UNCHANGED <<clock, exists, sweep, manual, faults, served>>

Delete(e) ==
  /\ Edit /\ e \in exists
  /\ exists' = exists \ {e}
  /\ row' = [row EXCEPT ![e] = NoRow]
  /\ UNCHANGED <<clock, sweep, manual, faults, served>>

RunNow(e) ==
  /\ Edit /\ manual.pc = "idle" /\ e \in exists
  /\ manual' = [pc |-> "handler", event |-> e]
  /\ UNCHANGED <<clock, table, sweep, faults, served>>

ManualReturns ==
  /\ manual.pc = "handler"
  /\ manual' = [manual EXCEPT !.pc = "record"]
  /\ UNCHANGED <<clock, table, sweep, bounds, served>>

(* Nothing is recorded of a row deleted meanwhile, or if the commit fails.  *)
ManualRecord ==
  /\ manual.pc = "record"
  /\ \/ manual.event \in exists /\ Stamp(manual.event) /\ UNCHANGED faults
     \/ manual.event \notin exists /\ UNCHANGED <<row, faults>>
     \/ faults < MaxFaults /\ faults' = faults + 1 /\ UNCHANGED row
  /\ manual' = NoRequest
  /\ UNCHANGED <<clock, exists, sweep, edits, served>>

-----------------------------------------------------------------------------
Thread ==
  \/ Load \/ HandlerTimesOut \/ SweepDone
  \/ \E e \in Events : Skip(e) \/ Start(e) \/ Record(e) \/ Abort(e)

Sysop ==
  \/ \E e \in Events :
       \/ \E s \in Schedules, on \in BOOLEAN : Create(e, s, on) \/ Save(e, s, on)
       \/ Delete(e) \/ RunNow(e)
  \/ ManualReturns \/ ManualRecord

Next ==
  \/ Pass \/ Thread \/ HandlerReturns \/ Restart \/ Sysop
  \/ \E e \in Events : RecordFails(e)

Spec == Init /\ [][Next]_vars

(* The thread runs, and a handler that hangs is abandoned; that a handler   *)
(* ever returns is not assumed.                                             *)
FairSpec == Spec /\ WF_vars(Thread)

-----------------------------------------------------------------------------
(* Properties                                                               *)

TypeOK ==
  /\ clock \in Period .. MaxTime
  /\ exists \subseteq Events
  /\ row \in [Events -> Row]
  /\ sweep \in Sweep
  /\ manual \in Request
  /\ edits \in 0 .. MaxEdits /\ faults \in 0 .. MaxFaults
  /\ served \subseteq Events \X (0 .. MaxTime)

(* What a schedule promises, without compute_next_run: the instants at      *)
(* which an event that ran last at the time given is to run again.          *)
Occurrences(s, last) ==
  CASE s.kind = "clock"    -> {t \in 1 .. MaxTime : t % Period = s.at % Period}
    [] s.kind = "interval" -> {t \in 1 .. MaxTime : t >= last + s.at}
    [] OTHER -> {}

Missed(e, since) ==
  /\ e \in exists /\ row[e].enabled
  /\ \E t \in Occurrences(row[e].schedule, since) : since < t /\ t <= clock

(* A sweep never runs an event again for an occurrence a sweep has run and  *)
(* recorded already, whatever is edited, toggled, run by hand or restarted  *)
(* in between; a schedule of an unknown kind runs in every sweep            *)
(* (compute_next_run and fire).                                             *)
RunsOncePerOccurrence ==
  [][\A e \in Events :
       Start(e) /\ Current(e).schedule.kind # "unknown" =>
         <<e, sweep'.occ>> \notin served]_vars

(* An event that has run before and whose time has come runs, or is         *)
(* disabled or deleted: no handler that hangs, unevaluable schedule, row    *)
(* deleted under the sweep, failed commit or restart starves the others     *)
(* (_tick and _run_handler_with_timeout).                                   *)
MissedRunsHappen ==
  \A e \in Events :
    (row[e].last_run_at # Never /\ Missed(e, row[e].last_run_at)) ~>
      ~(row[e].last_run_at # Never /\ Missed(e, row[e].last_run_at))
=============================================================================
