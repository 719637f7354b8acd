--------------------------- MODULE PresenceAlerts ---------------------------
(***************************************************************************)
(* Who is online, and who is told of it.  A terminal connection keeps a    *)
(* UserSession row and writes a PresenceEvent with its login and its       *)
(* logout; web logins and logouts write such events too.  Every terminal   *)
(* session and a relay thread of the web process poll the events and       *)
(* announce those above the last id they saw; a scheduled sweep deletes    *)
(* what is an hour old.                                                    *)
(*                                                                         *)
(* Sources: core/presence.py; the presence watchdog of core/session.py;    *)
(* the login and logout routes of web/auth.py; the two clean-ups of        *)
(* events/handlers.py.                                                     *)
(***************************************************************************)
EXTENDS Naturals, Sequences, FiniteSets

CONSTANTS
  Users,
  MaxConns,   \* bound: terminal connections
  MaxWeb,     \* bound: web logins and logouts
  MaxFaults,  \* bound: commits that fail, processes that die
  Limit       \* most events a poll takes

Conns == 1 .. MaxConns
Relay == 0
Watchers == {Relay} \union Conns

(* Every connection logs in and out once.                                   *)
MaxEvents == 2 * MaxConns + MaxWeb
Ids == 1 .. MaxEvents
Rows == 1 .. MaxConns

ASSUME PresenceAssumption ==
  /\ Users # {}
  /\ MaxConns \in Nat /\ MaxWeb \in Nat /\ MaxFaults \in Nat
  /\ Limit \in Nat \ {0}

VARIABLES
  conn,     \* terminal connections
  sessions, \* UserSession rows: the connection of each id, 0 for no row
  queue,    \* PresenceEvent rows: the event of each id, 0 for no row
  watch,    \* _watch of every session and _relay_loop
  webs, faults

(* Not in the program: user and id of every event there ever was, those that *)
(* a watcher has announced or that happened before it started, and the      *)
(* connections whose first commit failed.                                   *)
VARIABLES log, seen, unrecorded

counters == <<webs, faults>>
history == <<log, seen, unrecorded>>
vars == <<conn, sessions, queue, watch, counters, history>>

(* row is SessionPresence._row_id, 0 for None.                              *)
Conn == [pc : {"away", "in", "over"}, user : Users, row : Rows \union {0}]
Watch == [on : BOOLEAN, last : Ids \union {0}]
Off == [on |-> FALSE, last |-> 0]
Events == 1 .. Len(log)

Init ==
  /\ conn = [c \in Conns |-> [pc |-> "away", user |-> CHOOSE u \in Users : TRUE, row |-> 0]]
  /\ sessions = [i \in Rows |-> 0]
  /\ queue = [i \in Ids |-> 0]
  /\ watch = [w \in Watchers |-> [on |-> w = Relay, last |-> 0]]
  /\ webs = 0 /\ faults = 0
  /\ log = <<>>
  /\ seen = [w \in Watchers |-> {}]
  /\ unrecorded = {}

Fault == faults < MaxFaults /\ faults' = faults + 1

(* SQLite's id for a new row: one more than the largest there is.           *)
Largest(table, i) ==
  /\ i \in {0} \union {j \in DOMAIN table : table[j] # 0}
  /\ \A j \in DOMAIN table : table[j] # 0 => j <= i

(* _record_presence_event, in the transaction of its caller.                *)
Announce(u) ==
  \E i \in Ids :
    /\ Largest(queue, i - 1)
    /\ queue' = [queue EXCEPT ![i] = Len(log) + 1]
    /\ log' = Append(log, [user |-> u, id |-> i])

-----------------------------------------------------------------------------
(* Terminal connections                                                     *)

Connect(c, u) ==
  /\ conn[c].pc = "away" /\ \A d \in 1 .. c - 1 : conn[d].pc # "away"
  /\ conn' = [conn EXCEPT ![c].pc = "in", ![c].user = u]
  /\ UNCHANGED <<sessions, queue, watch, counters, history>>

(* The first heartbeat, or the first whose insert does not fail: the row and *)
(* the login are one transaction.                                           *)
LogIn(c) ==
  /\ conn[c].pc = "in" /\ conn[c].row = 0
  /\ \E i \in Rows :
       /\ Largest(sessions, i - 1)
       /\ conn' = [conn EXCEPT ![c].row = i]
       /\ sessions' = [sessions EXCEPT ![i] = c]
  /\ Announce(conn[c].user)
  /\ UNCHANGED <<watch, counters, seen, unrecorded>>

(* The commit fails after the flush has given the row its id: the connection *)
(* keeps the id of a row that is not there.                                 *)
LogInFails(c) ==
  /\ conn[c].pc = "in" /\ conn[c].row = 0 /\ Fault
  /\ \E i \in Rows :
       /\ Largest(sessions, i - 1)
       /\ conn' = [conn EXCEPT ![c].row = i]
  /\ unrecorded' = unrecorded \union {c}
  /\ UNCHANGED <<sessions, queue, watch, webs, log, seen>>

(* Mutant of Removed: all rows of the user.                                 *)
RemovedOfUser(c) ==
  sessions' = [i \in Rows |->
                 IF sessions[i] # 0 /\ conn[sessions[i]].user = conn[c].user THEN 0 ELSE sessions[i]]

Removed(c) == sessions' = [sessions EXCEPT ![conn[c].row] = 0]

(* disconnect: the row and the logout are one transaction.  The watchdog is  *)
(* cancelled with no await in between.                                      *)
LogOut(c) ==
  /\ conn[c].pc = "in"
  /\ conn' = [conn EXCEPT ![c].pc = "over"]
  /\ watch' = [watch EXCEPT ![c] = Off]
  /\ seen' = [seen EXCEPT ![c] = {}]
  /\ \/ conn[c].row # 0 /\ Removed(c) /\ Announce(conn[c].user) /\ UNCHANGED faults
     \/ conn[c].row = 0 /\ UNCHANGED <<sessions, queue, log, faults>>
     \/ conn[c].row # 0 /\ Fault /\ UNCHANGED <<sessions, queue, log>>
  /\ UNCHANGED <<webs, unrecorded>>

(* The terminal process dies.                                               *)
Crash ==
  /\ Fault /\ \E c \in Conns : conn[c].pc = "in"
  /\ conn' = [c \in Conns |-> IF conn[c].pc = "in" THEN [conn[c] EXCEPT !.pc = "over"] ELSE conn[c]]
  /\ watch' = [w \in Watchers |-> IF w = Relay THEN watch[w] ELSE Off]
  /\ seen' = [w \in Watchers |-> IF w = Relay THEN seen[w] ELSE {}]
  /\ UNCHANGED <<sessions, queue, webs, log, unrecorded>>

(* cleanup_stale_sessions, a day later.                                     *)
SweepSessions ==
  LET stale == {i \in Rows : sessions[i] # 0 /\ conn[sessions[i]].pc = "over"}
  IN /\ stale # {}
     /\ sessions' = [i \in Rows |-> IF i \in stale THEN 0 ELSE sessions[i]]
     /\ UNCHANGED <<conn, queue, watch, counters, history>>

(* login, register and logout of the web.                                   *)
WebEvent(u) ==
  /\ webs < MaxWeb /\ webs' = webs + 1
  /\ Announce(u)
  /\ UNCHANGED <<conn, sessions, watch, faults, seen, unrecorded>>

-----------------------------------------------------------------------------
(* Watchers                                                                 *)

Own(w, u) == w \in Conns /\ u = conn[w].user

(* Mutant of Marker: the watcher starts with what is in the queue.           *)
MarkerAtStart(i) == i = 0

(* The largest id there is when a watcher starts.                           *)
Marker(i) == Largest(queue, i)

Begin(w) ==
  /\ \E i \in Ids \union {0} :
       Marker(i) /\ watch' = [watch EXCEPT ![w] = [on |-> TRUE, last |-> i]]
  /\ seen' = [seen EXCEPT ![w] = Events]

(* The watchdog reads its marker when the loop first gets to it, before or   *)
(* after its own login is recorded.                                         *)
StartWatch(c) ==
  /\ conn[c].pc = "in" /\ ~ watch[c].on
  /\ Begin(c)
  /\ UNCHANGED <<conn, sessions, queue, counters, log, unrecorded>>

(* The web process dies and starts its relay again.                         *)
RestartRelay ==
  /\ Fault
  /\ Begin(Relay)
  /\ UNCHANGED <<conn, sessions, queue, webs, log, unrecorded>>

(* What a poll asks for.                                                    *)
New(w) == {i \in Ids : queue[i] # 0 /\ i > watch[w].last /\ ~ Own(w, log[queue[i]].user)}

Above(w) == {i \in Ids : queue[i] # 0 /\ i > watch[w].last}
First(S) == {i \in S : Cardinality({j \in S : j < i}) < Limit}

(* Mutant of Batch: the limit also counts the user's own events.             *)
BatchOfAll(w) == New(w) \intersect First(Above(w))

(* Mutant of Batch: the newest ones.                                        *)
BatchOfNewest(w) == {i \in New(w) : Cardinality({j \in New(w) : j > i}) < Limit}

Batch(w) == First(New(w))

(* Mutant of MovesTo: one too many.                                         *)
MovesPast(S, i) == i - 1 \in S /\ \A j \in S : j < i

(* The marker becomes the last id of the batch.                             *)
MovesTo(S, i) == i \in S /\ \A j \in S : j <= i

Poll(w) ==
  /\ watch[w].on /\ Batch(w) # {}
  /\ \E i \in Ids \union {MaxEvents + 1} :
       MovesTo(Batch(w), i) /\ watch' = [watch EXCEPT ![w].last = i]
  /\ seen' = [seen EXCEPT ![w] = @ \union {queue[i] : i \in Batch(w)}]
  /\ UNCHANGED <<conn, sessions, queue, counters, log, unrecorded>>

(* cleanup_stale_presence_events: what is an hour old, and so polled by      *)
(* whoever polls every few seconds.                                         *)
SweepEvents(k) ==
  LET old == {i \in Ids : queue[i] # 0 /\ i <= k}
  IN /\ old # {}
     /\ \A w \in Watchers : watch[w].on => old \intersect New(w) = {}
     /\ queue' = [i \in Ids |-> IF i \in old THEN 0 ELSE queue[i]]
     /\ UNCHANGED <<conn, sessions, watch, counters, history>>

-----------------------------------------------------------------------------
Next ==
  \/ \E c \in Conns : LogIn(c) \/ LogInFails(c) \/ LogOut(c) \/ StartWatch(c)
  \/ \E c \in Conns, u \in Users : Connect(c, u)
  \/ \E u \in Users : WebEvent(u)
  \/ \E w \in Watchers : Poll(w)
  \/ \E k \in Ids : SweepEvents(k)
  \/ Crash \/ SweepSessions \/ RestartRelay

(* Watchers poll every two or five seconds.                                 *)
Fairness == \A w \in Watchers : WF_vars(Poll(w))

Spec == Init /\ [][Next]_vars

FairSpec == Spec /\ Fairness

-----------------------------------------------------------------------------
TypeOK ==
  /\ conn \in [Conns -> Conn]
  /\ sessions \in [Rows -> Conns \union {0}]
  /\ queue \in [Ids -> Events \union {0}]
  /\ watch \in [Watchers -> Watch]
  /\ webs \in 0 .. MaxWeb /\ faults \in 0 .. MaxFaults
  /\ log \in Seq([user : Users, id : Ids])
  /\ seen \in [Watchers -> SUBSET Events]
  /\ unrecorded \subseteq Conns

(* Whatever a watcher is still to announce happened after it started and     *)
(* after all it has announced: nobody sees history from before they were     *)
(* there, an alert twice, or a logout before the login.                     *)
OnceAndInOrder ==
  \A w \in Watchers :
    watch[w].on => \A i \in New(w), e \in seen[w] : e < queue[i]

(* The events of others that a watcher neither announced nor will.           *)
Missed(w) ==
  {e \in Events :
     /\ e \notin seen[w] /\ ~ Own(w, log[e].user)
     /\ \A i \in New(w) : queue[i] # e}

(* Everyone on the system sees every other user's login and logout, and the  *)
(* sweep loses no alert that nobody saw.                                    *)
NothingMissed == \A w \in Watchers : watch[w].on => Missed(w) = {}

(* The id of the event, or a higher one, had been given out before.         *)
Reused(e) == \E f \in 1 .. e - 1 : log[f].id >= log[e].id

(* An alert is lost in one way only: a sweep removed the newest events and   *)
(* the database gives their ids out again, below the watchers' markers.      *)
(* Neither the limit of a poll, nor the user's own events, nor what was      *)
(* swept meanwhile makes a watcher pass over one.                           *)
MissedOnlyIfReused ==
  \A w \in Watchers : watch[w].on => \A e \in Missed(w) : Reused(e)

(* Everybody connected is listed as online by a row of their own, unless the *)
(* row was deleted by a connection that took its id for its own when the     *)
(* commit of its first heartbeat failed.                                    *)
OnlineAreListed ==
  \A c \in Conns :
    (conn[c].pc = "in" /\ conn[c].row # 0 /\ c \notin unrecorded)
      => \/ sessions[conn[c].row] = c
         \/ \E d \in unrecorded \ {c} : conn[d].row = conn[c].row

(* What a watcher is to announce it does announce, as long as it runs.       *)
AlertsArrive ==
  \A w \in Watchers : (watch[w].on /\ New(w) # {}) ~> (~ watch[w].on \/ New(w) = {})
=============================================================================
