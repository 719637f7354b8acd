----------------------- MODULE PresenceAlerts_proofs -----------------------
(***************************************************************************)
(* Proofs about PresenceAlerts, for every number of users, connections,    *)
(* web events and failures and every limit: type correctness, that no      *)
(* watcher announces an event twice or out of order, that it misses one    *)
(* only if its id was used before, and that whoever is connected keeps a   *)
(* row.                                                                    *)
(***************************************************************************)
EXTENDS PresenceAlerts, FiniteSetTheorems, TLAPS

LEMMA Bounds ==
  /\ MaxEvents \in Nat /\ Ids \subseteq Nat \ {0} /\ Conns \subseteq Nat \ {0}
  /\ Rows \subseteq Nat \ {0} /\ Relay \notin Conns
  BY PresenceAssumption DEF MaxEvents, Ids, Conns, Rows, Relay

Record == [user : Users, id : Ids]

-----------------------------------------------------------------------------
(* Type correctness                                                         *)

(* An event gets the next serial and an id that no row has.                 *)
LEMMA AnnounceFacts ==
  ASSUME TypeOK, NEW u \in Users, Announce(u)
  PROVE  /\ log' \in Seq(Record) /\ Len(log') = Len(log) + 1 /\ Len(log) \in Nat
         /\ \A e \in Events : log'[e] = log[e]
         /\ Events' = Events \union {Len(log) + 1}
         /\ queue' \in [Ids -> Events' \union {0}]
         /\ \E i \in Ids : /\ log'[Len(log) + 1] = [user |-> u, id |-> i]
                           /\ queue' = [queue EXCEPT ![i] = Len(log) + 1]
                           /\ queue[i] = 0
                           /\ \A j \in Ids : queue[j] # 0 => j < i
<1>1. PICK i \in Ids :
        /\ Largest(queue, i - 1)
        /\ queue' = [queue EXCEPT ![i] = Len(log) + 1]
        /\ log' = Append(log, [user |-> u, id |-> i])
  BY DEF Announce
<1>2. log \in Seq(Record) /\ Len(log) \in Nat /\ [user |-> u, id |-> i] \in Record
  BY DEF TypeOK, Record
<1>3. /\ log' \in Seq(Record) /\ Len(log') = Len(log) + 1
      /\ \A e \in 1 .. Len(log) : log'[e] = log[e]
      /\ log'[Len(log) + 1] = [user |-> u, id |-> i]
  BY <1>1, <1>2
<1>4. Events' = Events \union {Len(log) + 1}
  BY <1>2, <1>3 DEF Events
<1>5. queue' \in [Ids -> Events' \union {0}]
  BY <1>1, <1>4 DEF TypeOK
<1>6. \A j \in Ids : queue[j] # 0 => j <= i - 1
  BY <1>1 DEF Largest, TypeOK
<1>7. \A j \in Ids : queue[j] # 0 => j < i
  BY <1>6, Bounds
<1>8. queue[i] = 0
  BY <1>7, Bounds
<1> QED
  BY <1>1, <1>2, <1>3, <1>4, <1>5, <1>7, <1>8 DEF Events

(* What has been seen stays seen.                                           *)
LEMMA SeenType ==
  ASSUME TypeOK, Events \subseteq Events'
  PROVE  seen \in [Watchers -> SUBSET Events']
  BY DEF TypeOK

LEMMA FaultType ==
  ASSUME TypeOK, Fault
  PROVE  faults' \in 0 .. MaxFaults
  BY PresenceAssumption DEF TypeOK, Fault

LEMMA InitType == Init => TypeOK
<1> SUFFICES ASSUME Init PROVE TypeOK
  OBVIOUS
<1>1. conn \in [Conns -> Conn]
  BY PresenceAssumption DEF Init, Conn
<1>2. watch \in [Watchers -> Watch]
  BY DEF Init, Watch, Relay
<1>3. webs \in 0 .. MaxWeb /\ faults \in 0 .. MaxFaults
  BY PresenceAssumption DEF Init
<1>4. log \in Seq([user : Users, id : Ids]) /\ Events = {}
  BY DEF Init, Events
<1>5. queue \in [Ids -> Events \union {0}] /\ sessions \in [Rows -> Conns \union {0}]
  BY <1>4 DEF Init
<1>6. seen \in [Watchers -> SUBSET Events] /\ unrecorded \subseteq Conns
  BY <1>4 DEF Init
<1> QED
  BY <1>1, <1>2, <1>3, <1>4, <1>5, <1>6 DEF TypeOK

LEMMA ConnectType ==
  ASSUME TypeOK, NEW c \in Conns, NEW u \in Users, Connect(c, u)
  PROVE  TypeOK'
<1>1. conn' \in [Conns -> Conn]
  BY DEF Connect, TypeOK, Conn
<1> QED
  BY <1>1 DEF Connect, TypeOK, Events, counters, history

LEMMA LogInType ==
  ASSUME TypeOK, NEW c \in Conns, LogIn(c)
  PROVE  TypeOK'
<1>1. conn' \in [Conns -> Conn] /\ sessions' \in [Rows -> Conns \union {0}]
  BY DEF LogIn, TypeOK, Conn
<1>2. conn[c].user \in Users
  BY DEF TypeOK, Conn
<1>3. /\ log' \in Seq([user : Users, id : Ids]) /\ Events \subseteq Events'
      /\ queue' \in [Ids -> Events' \union {0}]
  BY <1>2, AnnounceFacts DEF LogIn, Record
<1>4. seen' \in [Watchers -> SUBSET Events']
  BY <1>3, SeenType DEF LogIn
<1> QED
  BY <1>1, <1>3, <1>4 DEF LogIn, TypeOK, counters

LEMMA LogInFailsType ==
  ASSUME TypeOK, NEW c \in Conns, LogInFails(c)
  PROVE  TypeOK'
<1>1. conn' \in [Conns -> Conn]
  BY DEF LogInFails, TypeOK, Conn
<1> QED
  BY <1>1, FaultType DEF LogInFails, TypeOK, Events

LEMMA OffType == Off \in Watch
  BY DEF Off, Watch

LEMMA LogOutType ==
  ASSUME TypeOK, NEW c \in Conns, LogOut(c)
  PROVE  TypeOK'
<1>1. conn' \in [Conns -> Conn] /\ watch' \in [Watchers -> Watch]
  BY OffType DEF LogOut, TypeOK, Conn
<1>2. faults' \in 0 .. MaxFaults
  BY FaultType DEF LogOut, TypeOK
<1>3. sessions' \in [Rows -> Conns \union {0}]
  BY DEF LogOut, Removed, TypeOK
<1>4. conn[c].user \in Users
  BY DEF TypeOK, Conn
<1>5. /\ log' \in Seq([user : Users, id : Ids]) /\ Events \subseteq Events'
      /\ queue' \in [Ids -> Events' \union {0}]
  <2>1. CASE Announce(conn[c].user)
    BY <1>4, <2>1, AnnounceFacts DEF Record
  <2>2. CASE UNCHANGED <<queue, log>>
    BY <2>2 DEF TypeOK, Events
  <2> QED
    BY <2>1, <2>2 DEF LogOut
<1>6. seen' \in [Watchers -> SUBSET Events']
  BY <1>5, SeenType DEF LogOut
<1> QED
  BY <1>1, <1>2, <1>3, <1>5, <1>6 DEF LogOut, TypeOK

LEMMA CrashType ==
  ASSUME TypeOK, Crash
  PROVE  TypeOK'
<1>1. conn' \in [Conns -> Conn]
  BY DEF Crash, TypeOK, Conn
<1>2. watch' \in [Watchers -> Watch] /\ seen' \in [Watchers -> SUBSET Events]
  BY OffType DEF Crash, TypeOK
<1> QED
  BY <1>1, <1>2, FaultType DEF Crash, TypeOK, Events

LEMMA BeginType ==
  ASSUME TypeOK, NEW w \in Watchers, Begin(w)
  PROVE  watch' \in [Watchers -> Watch] /\ seen' \in [Watchers -> SUBSET Events]
  BY DEF Begin, TypeOK, Watch

LEMMA PollType ==
  ASSUME TypeOK, NEW w \in Watchers, Poll(w)
  PROVE  TypeOK'
<1>1. Batch(w) \subseteq Ids /\ \A i \in Batch(w) : queue[i] \in Events
  BY DEF Batch, First, New, TypeOK
<1>2. PICK i \in Batch(w) : watch' = [watch EXCEPT ![w].last = i]
  BY DEF Poll, MovesTo
<1>3. watch' \in [Watchers -> Watch]
  BY <1>1, <1>2 DEF TypeOK, Watch
<1>4. seen' \in [Watchers -> SUBSET Events]
  BY <1>1 DEF Poll, TypeOK
<1> QED
  BY <1>3, <1>4 DEF Poll, TypeOK, Events, counters

LEMMA NextType == TypeOK /\ [Next]_vars => TypeOK'
<1> SUFFICES ASSUME TypeOK, [Next]_vars PROVE TypeOK'
  OBVIOUS
<1>1. ASSUME NEW c \in Conns, StartWatch(c) PROVE TypeOK'
  BY <1>1, BeginType DEF StartWatch, TypeOK, Events, counters, Watchers
<1>2. CASE RestartRelay
  BY <1>2, BeginType, FaultType DEF RestartRelay, TypeOK, Events, Watchers
<1>3. CASE SweepSessions
  <2>1. sessions' \in [Rows -> Conns \union {0}]
    BY <1>3 DEF SweepSessions, TypeOK
  <2> QED
    BY <1>3, <2>1 DEF SweepSessions, TypeOK, Events, counters, history
<1>4. ASSUME NEW k \in Ids, SweepEvents(k) PROVE TypeOK'
  <2>1. queue' \in [Ids -> Events \union {0}]
    BY <1>4 DEF SweepEvents, TypeOK
  <2> QED
    BY <1>4, <2>1 DEF SweepEvents, TypeOK, Events, counters, history
<1>5. ASSUME NEW u \in Users, WebEvent(u) PROVE TypeOK'
  <2>1. /\ log' \in Seq([user : Users, id : Ids]) /\ Events \subseteq Events'
        /\ queue' \in [Ids -> Events' \union {0}]
    BY <1>5, AnnounceFacts DEF WebEvent, Record
  <2>2. webs' \in 0 .. MaxWeb
    BY <1>5, PresenceAssumption DEF WebEvent, TypeOK
  <2> QED
    BY <1>5, <2>1, <2>2, SeenType DEF WebEvent, TypeOK
<1>6. CASE UNCHANGED vars
  BY <1>6 DEF vars, TypeOK, Events, counters, history
<1> QED
  BY <1>1, <1>2, <1>3, <1>4, <1>5, <1>6, ConnectType, LogInType, LogInFailsType,
     LogOutType, CrashType, PollType DEF Next

(* The state of presence and its alerts keeps its types.                    *)
THEOREM TypeCorrect == Spec => []TypeOK
  BY InitType, NextType, PTL DEF Spec

-----------------------------------------------------------------------------
(* What watchers announce                                                   *)

(* Only who is connected watches, beside the relay.                         *)
WatchersIn == \A c \in Conns : watch[c].on => conn[c].pc = "in"

(* The rows of the queue: later ids are later events, and events know theirs. *)
QueueInOrder ==
  \A i, j \in Ids : queue[i] # 0 /\ queue[j] # 0 /\ i < j => queue[i] < queue[j]

QueueIds == \A i \in Ids : queue[i] # 0 => log[queue[i]].id = i

(* A marker is the id of some event.                                        *)
MarkersWere ==
  \A w \in Watchers : watch[w].last = 0 \/ \E f \in Events : log[f].id = watch[w].last

(* An event of others that a watcher has not announced is above its marker  *)
(* and in the queue, or its id had been used before.                        *)
StillThere(w, e) ==
  IF log[e].id > watch[w].last THEN queue[log[e].id] = e ELSE Reused(e)

Unseen(w) == {e \in Events : e \notin seen[w] /\ ~ Own(w, log[e].user)}

NoneForgotten == \A w \in Watchers : watch[w].on => \A e \in Unseen(w) : StillThere(w, e)

AlertInv ==
  TypeOK /\ WatchersIn /\ QueueInOrder /\ QueueIds /\ MarkersWere /\ NoneForgotten
    /\ OnceAndInOrder

LEMMA LogType ==
  ASSUME TypeOK
  PROVE  /\ Len(log) \in Nat /\ Events \subseteq Nat \ {0}
         /\ \A e \in Events : log[e].id \in Ids /\ log[e].user \in Users
         /\ \A i \in Ids : queue[i] # 0 => queue[i] \in Events
         /\ \A w \in Watchers : watch[w].last \in Ids \union {0} /\ seen[w] \subseteq Events
<1>1. Len(log) \in Nat /\ Events \subseteq Nat \ {0}
  BY DEF TypeOK, Events
<1>2. \A e \in Events : log[e] \in Record
  <2>1. log \in Seq(Record)
    BY DEF TypeOK, Record
  <2> QED
    BY <2>1 DEF Events
<1>3. \A i \in Ids : queue[i] # 0 => queue[i] \in Events
  BY DEF TypeOK
<1>4. \A w \in Watchers : watch[w].last \in Ids \union {0} /\ seen[w] \subseteq Events
  BY DEF TypeOK, Watch
<1> QED
  BY <1>1, <1>2, <1>3, <1>4 DEF Record

LEMMA InitAlerts == Init => AlertInv
<1> SUFFICES ASSUME Init PROVE AlertInv
  OBVIOUS
<1>1. Events = {} /\ \A i \in Ids : queue[i] = 0
  BY DEF Init, Events
<1>2. WatchersIn
  BY Bounds DEF Init, WatchersIn, Watchers, Relay
<1>3. \A w \in Watchers : watch[w].last = 0 /\ New(w) = {} /\ Unseen(w) = {}
  BY <1>1 DEF Init, New, Unseen
<1> QED
  BY <1>1, <1>2, <1>3, InitType
  DEF AlertInv, QueueInOrder, QueueIds, MarkersWere, NoneForgotten, OnceAndInOrder

(* A step that announces nothing and moves no marker, whatever it deletes   *)
(* from the queue that no watcher is waiting for.                           *)
LEMMA QuietStep ==
  ASSUME AlertInv, TypeOK', WatchersIn', log' = log,
         \A i \in Ids : queue'[i] = queue[i] \/ queue'[i] = 0,
         \A w \in Watchers :
           watch'[w].on =>
             /\ watch'[w] = watch[w] /\ seen'[w] = seen[w]
             /\ \A u \in Users : Own(w, u)' <=> Own(w, u)
             /\ \A i \in New(w) : queue'[i] = queue[i],
         \A w \in Watchers : watch'[w].last \in {0, watch[w].last}
  PROVE  AlertInv'
<1> USE DEF AlertInv
<1>1. Events' = Events
  BY DEF Events
<1>2. QueueInOrder' /\ QueueIds' /\ MarkersWere'
  BY <1>1 DEF QueueInOrder, QueueIds, MarkersWere
<1>3. ASSUME NEW w \in Watchers, watch'[w].on
      PROVE  /\ Unseen(w)' = Unseen(w) /\ New(w)' = New(w)
             /\ watch[w].on /\ watch'[w].last = watch[w].last
  <2>1. \A e \in Events : Own(w, log[e].user)' <=> Own(w, log[e].user)
    BY <1>3, LogType
  <2>2. Unseen(w)' = Unseen(w)
    BY <1>1, <1>3, <2>1 DEF Unseen
  <2>3. \A i \in Ids : i \in New(w)' <=> i \in New(w)
    BY <1>3, <2>1, LogType DEF New
  <2> QED
    BY <1>3, <2>2, <2>3 DEF New
<1>4. NoneForgotten'
  <2> SUFFICES ASSUME NEW w \in Watchers, watch'[w].on, NEW e \in Unseen(w)'
               PROVE  StillThere(w, e)'
    BY DEF NoneForgotten
  <2>1. /\ e \in Unseen(w) /\ e \in Events /\ watch[w].on
        /\ watch'[w].last = watch[w].last /\ log[e].id \in Ids
    BY <1>3, LogType DEF Unseen
  <2>2. StillThere(w, e)
    BY <2>1 DEF NoneForgotten
  <2>3. CASE log[e].id > watch[w].last
    <3>1. queue[log[e].id] = e /\ e # 0
      BY <2>1, <2>2, <2>3, LogType DEF StillThere
    <3>2. log[e].id \in New(w)
      BY <2>1, <2>3, <3>1 DEF New, Unseen
    <3> QED
      BY <2>1, <2>3, <3>1, <3>2 DEF StillThere
  <2>4. CASE ~ (log[e].id > watch[w].last)
    BY <2>1, <2>2, <2>4 DEF StillThere, Reused
  <2> QED
    BY <2>3, <2>4
<1>5. OnceAndInOrder'
  <2> SUFFICES ASSUME NEW w \in Watchers, watch'[w].on, NEW i \in New(w)', NEW e \in seen'[w]
               PROVE  e < queue'[i]
    BY DEF OnceAndInOrder
  <2>1. i \in New(w) /\ e \in seen[w] /\ queue'[i] = queue[i] /\ watch[w].on
    BY <1>3
  <2> QED
    BY <2>1 DEF OnceAndInOrder
<1> QED
  BY <1>2, <1>4, <1>5

(* An event is announced: its id is above all there are, and in use by no   *)
(* row; if it is not above a marker, it was used before.                    *)
LEMMA AnnounceStep ==
  ASSUME AlertInv, TypeOK', WatchersIn', NEW u \in Users, Announce(u),
         \A w \in Watchers :
           watch'[w].on =>
             /\ watch'[w] = watch[w] /\ seen'[w] = seen[w]
             /\ \A v \in Users : Own(w, v)' <=> Own(w, v),
         \A w \in Watchers : watch'[w].last \in {0, watch[w].last}
  PROVE  AlertInv'
<1> USE DEF AlertInv
<1>1. PICK n \in Ids : /\ log'[Len(log) + 1] = [user |-> u, id |-> n]
                       /\ queue' = [queue EXCEPT ![n] = Len(log) + 1]
                       /\ queue[n] = 0
                       /\ \A j \in Ids : queue[j] # 0 => j < n
  BY AnnounceFacts
<1> DEFINE new == Len(log) + 1
<1>2. /\ new \in Nat /\ Events' = Events \union {new} /\ new \notin Events
      /\ \A e \in Events : e < new /\ log'[e] = log[e]
      /\ log'[new].user = u /\ log'[new].id = n
  BY <1>1, AnnounceFacts DEF Events
<1>3. queue'[n] = new /\ \A i \in Ids \ {n} : queue'[i] = queue[i]
  BY <1>1 DEF TypeOK
<1>a. Ids \subseteq Nat
  BY Bounds
<1> HIDE DEF new
<1>4. QueueInOrder'
  <2> SUFFICES ASSUME NEW i \in Ids, NEW j \in Ids, queue'[i] # 0, queue'[j] # 0, i < j
               PROVE  queue'[i] < queue'[j]
    BY DEF QueueInOrder
  <2>1. i # n
    BY <1>a, <1>1, <1>3
  <2>2. queue[i] # 0 /\ queue'[i] = queue[i] /\ queue[i] \in Events
    BY <2>1, <1>3, LogType
  <2> QED
    BY <1>2, <1>3, <2>2 DEF QueueInOrder
<1>5. QueueIds'
  BY <1>2, <1>3, LogType DEF QueueIds
<1>6. MarkersWere'
  BY <1>2 DEF MarkersWere
<1>7. ASSUME NEW e \in Events, Reused(e) PROVE Reused(e)'
  <2>1. PICK f \in 1 .. e - 1 : log[f].id >= log[e].id
    BY <1>7 DEF Reused
  <2>2. f \in Events
    BY <2>1, LogType DEF Events
  <2> QED
    BY <1>2, <2>1, <2>2 DEF Reused
<1>8. NoneForgotten'
  <2> SUFFICES ASSUME NEW w \in Watchers, watch'[w].on, NEW e \in Unseen(w)'
               PROVE  StillThere(w, e)'
    BY DEF NoneForgotten
  <2>1. watch'[w] = watch[w] /\ watch[w].on /\ seen'[w] = seen[w]
    OBVIOUS
  <2>2. CASE e = new
    <3>1. CASE n > watch[w].last
      BY <1>2, <1>3, <2>1, <2>2, <3>1 DEF StillThere
    <3>2. CASE ~ (n > watch[w].last)
      <4>0. watch[w].last \in Ids \union {0}
        BY LogType
      <4>1. watch[w].last \in Nat /\ n \in Nat /\ n # 0
        <5> HIDE DEF AlertInv
        <5>1. \A i \in Ids : i \in Nat /\ i # 0
          BY Bounds
        <5> QED
          BY <4>0, <5>1
      <4>2. PICK f \in Events : log[f].id = watch[w].last
        BY <3>2, <4>1 DEF MarkersWere
      <4>3. f \in 1 .. new - 1 /\ log'[f].id >= n
        BY <1>2, <3>2, <4>1, <4>2, LogType
      <4> QED
        BY <1>2, <2>1, <2>2, <3>2, <4>3 DEF StillThere, Reused
    <3> QED
      BY <3>1, <3>2
  <2>3. CASE e # new
    <3>1. e \in Events /\ log'[e] = log[e] /\ log[e].user \in Users /\ log[e].id \in Ids
      BY <1>2, <2>3, LogType DEF Unseen
    <3>2. e \in Unseen(w)
      BY <2>1, <3>1 DEF Unseen
    <3>3. StillThere(w, e)
      BY <2>1, <3>2 DEF NoneForgotten
    <3>4. CASE log[e].id > watch[w].last
      <4>1. queue[log[e].id] = e /\ e # 0
        BY <3>1, <3>3, <3>4, LogType DEF StillThere
      <4>2. log[e].id # n
        BY <1>1, <4>1
      <4> QED
        BY <1>3, <2>1, <3>1, <3>4, <4>1, <4>2 DEF StillThere
    <3>5. CASE ~ (log[e].id > watch[w].last)
      BY <1>7, <2>1, <3>1, <3>3, <3>5 DEF StillThere
    <3> QED
      BY <3>4, <3>5
  <2> QED
    BY <2>2, <2>3
<1>9. OnceAndInOrder'
  <2> SUFFICES ASSUME NEW w \in Watchers, watch'[w].on, NEW i \in New(w)', NEW e \in seen'[w]
               PROVE  e < queue'[i]
    BY DEF OnceAndInOrder
  <2>1. watch'[w] = watch[w] /\ watch[w].on /\ e \in seen[w] /\ e \in Events
    BY LogType
  <2>2. CASE i = n
    BY <1>2, <1>3, <2>1, <2>2
  <2>3. CASE i # n
    <3>1. i \in Ids /\ queue'[i] = queue[i] /\ queue[i] # 0
      BY <1>3, <2>3 DEF New
    <3>2. queue[i] \in Events /\ log'[queue[i]] = log[queue[i]]
      BY <1>2, <3>1, LogType
    <3>3. i \in New(w)
      BY <2>1, <3>1, <3>2, LogType DEF New
    <3> QED
      BY <2>1, <3>1, <3>3 DEF OnceAndInOrder
  <2> QED
    BY <2>2, <2>3
<1> QED
  BY <1>4, <1>5, <1>6, <1>8, <1>9

(* A watcher that starts has nothing to announce and nothing behind it.     *)
LEMMA BeginStep ==
  ASSUME AlertInv, TypeOK', WatchersIn', NEW w \in Watchers, Begin(w),
         log' = log, queue' = queue, conn' = conn
  PROVE  AlertInv'
<1> USE DEF AlertInv
<1>1. PICK i \in Ids \union {0} :
        Marker(i) /\ watch' = [watch EXCEPT ![w] = [on |-> TRUE, last |-> i]]
  BY DEF Begin
<1>2. /\ watch'[w].on /\ watch'[w].last = i
      /\ \A v \in Watchers \ {w} : watch'[v] = watch[v] /\ seen'[v] = seen[v]
      /\ seen'[w] = Events
  BY <1>1 DEF Begin, TypeOK
<1>3. /\ i = 0 \/ queue[i] # 0
      /\ \A j \in Ids : queue[j] # 0 => j <= i
  BY <1>1 DEF Marker, Largest, TypeOK
<1>4. Events' = Events
  BY DEF Events
<1>5. QueueInOrder' /\ QueueIds'
  BY DEF QueueInOrder, QueueIds
<1>6. MarkersWere'
  <2>1. i = 0 \/ (i \in Ids /\ queue[i] \in Events /\ log[queue[i]].id = i)
    BY <1>3, LogType DEF QueueIds
  <2> SUFFICES ASSUME NEW v \in Watchers
               PROVE  watch'[v].last = 0 \/ \E f \in Events : log[f].id = watch'[v].last
    BY <1>4 DEF MarkersWere
  <2>2. CASE v = w
    BY <1>2, <2>1, <2>2
  <2>3. CASE v # w
    BY <1>2, <2>3 DEF MarkersWere
  <2> QED
    BY <2>2, <2>3
<1>7. Unseen(w)' = {} /\ New(w)' = {}
  <2>1. \A j \in Ids : queue[j] # 0 => ~ (j > i)
    <3>1. i \in Nat /\ \A j \in Ids : j \in Nat
      BY <1>1, Bounds
    <3> QED
      BY <1>3, <3>1
  <2>2. New(w)' = {}
    BY <1>2, <2>1 DEF New
  <2>3. Unseen(w)' = {}
    BY <1>2, <1>4 DEF Unseen
  <2> QED
    BY <2>2, <2>3
<1>8. ASSUME NEW v \in Watchers \ {w}, watch'[v].on
      PROVE  /\ watch[v].on /\ Unseen(v)' = Unseen(v) /\ New(v)' = New(v)
             /\ \A e \in Events : StillThere(v, e)' <=> StillThere(v, e)
  <2>1. watch'[v] = watch[v] /\ seen'[v] = seen[v]
    BY <1>2
  <2>2. \A u : Own(v, u)' <=> Own(v, u)
    BY DEF Own
  <2>3. Unseen(v)' = Unseen(v) /\ New(v)' = New(v)
    BY <1>4, <2>1, <2>2 DEF Unseen, New
  <2> QED
    BY <1>8, <2>1, <2>3 DEF StillThere, Reused
<1>9. NoneForgotten'
  <2> SUFFICES ASSUME NEW v \in Watchers, watch'[v].on, NEW e \in Unseen(v)'
               PROVE  StillThere(v, e)'
    BY DEF NoneForgotten
  <2>1. v # w
    BY <1>7
  <2> QED
    BY <1>8, <2>1 DEF NoneForgotten, Unseen
<1>10. OnceAndInOrder'
  <2> SUFFICES ASSUME NEW v \in Watchers, watch'[v].on, NEW j \in New(v)', NEW e \in seen'[v]
               PROVE  e < queue'[j]
    BY DEF OnceAndInOrder
  <2>1. v # w
    BY <1>7
  <2> QED
    BY <1>2, <1>8, <2>1 DEF OnceAndInOrder
<1> QED
  BY <1>5, <1>6, <1>9, <1>10

(* The batch of a poll has everything up to its last id.                    *)
LEMMA FirstIsInitial ==
  ASSUME NEW S \in SUBSET Ids, NEW i \in First(S), NEW j \in S, j <= i
  PROVE  j \in First(S)
<1>1. Ids \subseteq Nat /\ Limit \in Nat
  BY Bounds, PresenceAssumption
<1>2. IsFiniteSet(Ids)
  BY Bounds, FS_Interval DEF Ids
<1> DEFINE A == {k \in S : k < i}
           B == {k \in S : k < j}
<1>3. i \in S /\ Cardinality(A) < Limit
  BY DEF First
<1>4. IsFiniteSet(A) /\ B \in SUBSET A
  <2>1. \A k \in S : k < j => k < i
    <3>1. \A k \in S : k \in Nat
      BY <1>1
    <3> QED
      BY <1>3, <3>1
  <2>2. B \subseteq A
    BY <2>1
  <2>3. A \in SUBSET Ids
    OBVIOUS
  <2> HIDE DEF A, B
  <2> QED
    BY <1>2, <2>2, <2>3, FS_Subset
<1>5. /\ Cardinality(B) <= Cardinality(A) /\ Cardinality(A) \in Nat
      /\ Cardinality(B) \in Nat
  <2> HIDE DEF A, B
  <2> QED
    BY <1>4, FS_Subset, FS_CardinalityType
<1>6. Cardinality(B) < Limit
  <2> HIDE DEF A, B
  <2> QED
    BY <1>1, <1>3, <1>5
<1> QED
  BY <1>6 DEF First

LEMMA PollStep ==
  ASSUME AlertInv, NEW w \in Watchers, Poll(w)
  PROVE  AlertInv'
<1> USE DEF AlertInv
<1>t. TypeOK'
  BY PollType
<1>1. PICK i \in Batch(w) : /\ \A j \in Batch(w) : j <= i
                            /\ watch' = [watch EXCEPT ![w].last = i]
  BY DEF Poll, MovesTo
<1>2. /\ watch'[w].last = i /\ watch'[w].on = watch[w].on /\ watch[w].on
      /\ \A v \in Watchers \ {w} : watch'[v] = watch[v] /\ seen'[v] = seen[v]
      /\ \A v \in Watchers : watch'[v].on = watch[v].on
      /\ seen'[w] = seen[w] \union {queue[j] : j \in Batch(w)}
  BY <1>1 DEF Poll, TypeOK, Watch
<1>3. log' = log /\ queue' = queue /\ conn' = conn /\ Events' = Events
  BY DEF Poll, Events
<1>4. /\ Batch(w) \subseteq New(w) /\ i \in New(w) /\ i \in Ids /\ i > watch[w].last
      /\ queue[i] # 0 /\ New(w) \in SUBSET Ids
  BY <1>1 DEF Batch, First, New
<1>a. i \in Nat /\ watch[w].last \in Nat /\ \A j \in Ids : j \in Nat /\ j # 0
  <2>1. watch[w].last \in Ids \union {0}
    BY LogType
  <2>2. \A j \in Ids : j \in Nat /\ j # 0
    BY Bounds
  <2> HIDE DEF AlertInv
  <2> QED
    BY <1>4, <2>1, <2>2
<1>b. \A j \in Ids : j > i => j > watch[w].last
  <2> DEFINE last == watch[w].last
  <2>1. last \in Nat /\ i > last
    BY <1>4, <1>a
  <2> HIDE DEF AlertInv, last
  <2>2. \A j \in Ids : j > i => j > last
    BY <1>a, <2>1
  <2> QED
    BY <2>2 DEF last
<1>5. WatchersIn' /\ QueueInOrder' /\ QueueIds'
  BY <1>2, <1>3 DEF WatchersIn, QueueInOrder, QueueIds, Watchers
<1>6. MarkersWere'
  <2> SUFFICES ASSUME NEW v \in Watchers
               PROVE  watch'[v].last = 0 \/ \E f \in Events : log[f].id = watch'[v].last
    BY <1>3 DEF MarkersWere
  <2>1. queue[i] \in Events /\ log[queue[i]].id = i
    BY <1>4, LogType DEF QueueIds
  <2>2. CASE v = w
    BY <1>2, <2>1, <2>2
  <2>3. CASE v # w
    BY <1>2, <2>3 DEF MarkersWere
  <2> QED
    BY <2>2, <2>3
<1>7. \A v \in Watchers : \A u : Own(v, u)' <=> Own(v, u)
  BY <1>3 DEF Own
<1>8. ASSUME NEW v \in Watchers \ {w}
      PROVE  /\ Unseen(v)' = Unseen(v) /\ New(v)' = New(v)
             /\ \A e \in Events : StillThere(v, e)' <=> StillThere(v, e)
  BY <1>2, <1>3, <1>7 DEF Unseen, New, StillThere, Reused
<1>9. New(w)' = {j \in New(w) : j > i}
  <2>1. ASSUME NEW j \in Ids PROVE j \in New(w)' <=> j \in New(w) /\ j > i
    <3>1. j > i => j > watch[w].last
      BY <1>b
    <3> QED
      BY <1>2, <1>3, <1>7, <3>1 DEF New
  <2> QED
    BY <1>4, <2>1 DEF New
<1>10. NoneForgotten'
  <2> SUFFICES ASSUME NEW v \in Watchers, watch'[v].on, NEW e \in Unseen(v)'
               PROVE  StillThere(v, e)'
    BY DEF NoneForgotten
  <2>1. CASE v # w
    BY <1>2, <1>8, <2>1 DEF NoneForgotten, Unseen
  <2>2. CASE v = w
    <3>1. /\ e \in Unseen(w) /\ e \in Events /\ log[e].id \in Ids /\ e # 0
          /\ e \notin {queue[j] : j \in Batch(w)}
      BY <1>2, <1>3, <1>7, <2>2, LogType DEF Unseen
    <3>2. StillThere(w, e)
      BY <1>2, <3>1 DEF NoneForgotten
    <3>3. CASE log[e].id > i
      <4>1. log[e].id > watch[w].last
        BY <1>b, <3>1, <3>3
      <4> QED
        BY <1>2, <1>3, <2>2, <3>2, <3>3, <4>1 DEF StillThere
    <3>4. CASE ~ (log[e].id > i)
      <4>1. ASSUME log[e].id > watch[w].last PROVE FALSE
        <5>1. queue[log[e].id] = e
          BY <3>2, <4>1 DEF StillThere
        <5>2. log[e].id \in New(w)
          BY <3>1, <4>1, <5>1 DEF New, Unseen
        <5>3. log[e].id <= i
          BY <1>a, <3>1, <3>4
        <5>4. log[e].id \in Batch(w)
          BY <1>1, <1>4, <5>2, <5>3, FirstIsInitial DEF Batch
        <5> QED
          BY <3>1, <5>1, <5>4
      <4>2. Reused(e)
        BY <3>2, <4>1 DEF StillThere
      <4> QED
        BY <1>2, <1>3, <2>2, <3>4, <4>2 DEF StillThere, Reused
    <3> QED
      BY <3>3, <3>4
  <2> QED
    BY <2>1, <2>2
<1>11. OnceAndInOrder'
  <2> SUFFICES ASSUME NEW v \in Watchers, watch'[v].on, NEW j \in New(v)', NEW e \in seen'[v]
               PROVE  e < queue[j]
    BY <1>3 DEF OnceAndInOrder
  <2>1. CASE v # w
    BY <1>2, <1>8, <2>1 DEF OnceAndInOrder
  <2>2. CASE v = w
    <3>1. j \in New(w) /\ j > i /\ j \in Ids /\ queue[j] # 0
      BY <1>9, <2>2 DEF New
    <3>2. CASE e \in seen[w]
      BY <1>2, <3>1, <3>2 DEF OnceAndInOrder
    <3>3. CASE e \notin seen[w]
      <4>1. PICK k \in Batch(w) : e = queue[k]
        BY <1>2, <2>2, <3>3
      <4>2. k \in Ids /\ k <= i /\ queue[k] # 0
        BY <1>1, <1>4, <4>1 DEF New
      <4>3. k < j
        BY <1>a, <3>1, <4>2
      <4> QED
        BY <3>1, <4>1, <4>2, <4>3 DEF QueueInOrder
    <3> QED
      BY <3>2, <3>3
  <2> QED
    BY <2>1, <2>2
<1> QED
  BY <1>t, <1>5, <1>6, <1>10, <1>11

LEMMA NextWatchersIn == AlertInv /\ [Next]_vars => WatchersIn'
<1> SUFFICES ASSUME AlertInv, [Next]_vars, NEW c \in Conns, watch'[c].on
             PROVE  conn'[c].pc = "in"
  BY DEF WatchersIn
<1> USE DEF AlertInv
<1>0. /\ c \in Watchers /\ c # Relay /\ ~ Off.on
      /\ watch[c].on => conn[c].pc = "in"
  BY Bounds DEF Watchers, WatchersIn, Off
<1>1. ASSUME NEW d \in Conns, NEW u \in Users, Connect(d, u) PROVE conn'[c].pc = "in"
  BY <1>0, <1>1 DEF Connect, TypeOK, Conn
<1>2. ASSUME NEW d \in Conns, LogIn(d) \/ LogInFails(d) PROVE conn'[c].pc = "in"
  BY <1>0, <1>2 DEF LogIn, LogInFails, TypeOK, Conn
<1>3. ASSUME NEW d \in Conns, LogOut(d) PROVE conn'[c].pc = "in"
  BY <1>0, <1>3 DEF LogOut, TypeOK, Conn, Watchers
<1>4. ASSUME NEW d \in Conns, StartWatch(d) PROVE conn'[c].pc = "in"
  BY <1>0, <1>4 DEF StartWatch, Begin, TypeOK, Watch
<1>5. CASE Crash
  BY <1>0, <1>5 DEF Crash, TypeOK
<1>6. CASE RestartRelay
  BY <1>0, <1>6 DEF RestartRelay, Begin, TypeOK, Watch
<1>7. ASSUME NEW w \in Watchers, Poll(w) PROVE conn'[c].pc = "in"
  BY <1>0, <1>7 DEF Poll, TypeOK, Watch
<1>8. ASSUME UNCHANGED <<conn, watch>> PROVE conn'[c].pc = "in"
  BY <1>0, <1>8
<1> QED
  BY <1>1, <1>2, <1>3, <1>4, <1>5, <1>6, <1>7, <1>8
  DEF Next, WebEvent, SweepEvents, SweepSessions, vars

(* A step that leaves the events and every watcher that still runs alone.   *)
LEMMA StillStep ==
  ASSUME AlertInv, TypeOK', WatchersIn', log' = log, queue' = queue,
         \A w \in Watchers :
           watch'[w].on =>
             /\ watch'[w] = watch[w] /\ seen'[w] = seen[w]
             /\ w \in Conns => conn'[w].user = conn[w].user,
         \A w \in Watchers : watch'[w].last \in {0, watch[w].last}
  PROVE  AlertInv'
<1>1. \A w \in Watchers : watch'[w].on => \A u \in Users : Own(w, u)' <=> Own(w, u)
  BY DEF Own
<1> QED
  BY <1>1, QuietStep DEF New

LEMMA LogOutStep ==
  ASSUME AlertInv, TypeOK', WatchersIn', NEW c \in Conns, LogOut(c)
  PROVE  AlertInv'
<1>1. TypeOK /\ c \in Watchers /\ ~ Off.on /\ Off.last = 0
  BY DEF AlertInv, Watchers, Off
<1>2. \A w \in Watchers :
        /\ watch'[w].on => /\ watch'[w] = watch[w] /\ seen'[w] = seen[w]
                           /\ w \in Conns => conn'[w].user = conn[w].user
        /\ watch'[w].last \in {0, watch[w].last}
  BY <1>1 DEF LogOut, TypeOK
<1>3. CASE Announce(conn[c].user)
  <2>1. conn[c].user \in Users
    BY <1>1 DEF TypeOK, Conn
  <2>2. \A w \in Watchers : watch'[w].on => \A u \in Users : Own(w, u)' <=> Own(w, u)
    BY <1>2 DEF Own
  <2> QED
    BY <1>2, <1>3, <2>1, <2>2, AnnounceStep
<1>4. CASE UNCHANGED <<queue, log>>
  BY <1>2, <1>4, StillStep
<1> QED
  BY <1>3, <1>4 DEF LogOut

LEMMA NextAlerts == AlertInv /\ [Next]_vars => AlertInv'
<1> SUFFICES ASSUME AlertInv, [Next]_vars PROVE AlertInv'
  OBVIOUS
<1>1. TypeOK /\ TypeOK' /\ WatchersIn'
  BY NextType, NextWatchersIn DEF AlertInv
<1>2. ASSUME NEW c \in Conns, NEW u \in Users, Connect(c, u) PROVE AlertInv'
  <2>1. ~ watch[c].on
    BY <1>2 DEF Connect, AlertInv, WatchersIn
  <2>2. \A w \in Watchers \ {c} : w \in Conns => conn'[w].user = conn[w].user
    BY <1>1, <1>2 DEF Connect, TypeOK
  <2> QED
    BY <1>1, <1>2, <2>1, <2>2, StillStep DEF Connect, history
<1>3. ASSUME NEW c \in Conns, LogIn(c) PROVE AlertInv'
  <2>1. conn[c].user \in Users
    BY <1>1 DEF TypeOK, Conn
  <2>2. \A w \in Watchers : \A u : Own(w, u)' <=> Own(w, u)
    BY <1>1, <1>3 DEF LogIn, TypeOK, Own
  <2> QED
    BY <1>1, <1>3, <2>1, <2>2, AnnounceStep DEF LogIn
<1>4. ASSUME NEW c \in Conns, LogInFails(c) PROVE AlertInv'
  <2>1. \A w \in Conns : conn'[w].user = conn[w].user
    BY <1>1, <1>4 DEF LogInFails, TypeOK
  <2> QED
    BY <1>1, <1>4, <2>1, StillStep DEF LogInFails
<1>5. CASE Crash
  <2>1. \A w \in Watchers :
          /\ watch'[w].on => /\ watch'[w] = watch[w] /\ seen'[w] = seen[w]
                             /\ w \in Conns => conn'[w].user = conn[w].user
          /\ watch'[w].last \in {0, watch[w].last}
    BY <1>1, <1>5, Bounds DEF Crash, TypeOK, Off, Watchers
  <2> QED
    BY <1>1, <1>5, <2>1, StillStep DEF Crash
<1>6. CASE SweepSessions
  BY <1>1, <1>6, StillStep DEF SweepSessions, history
<1>7. ASSUME NEW u \in Users, WebEvent(u) PROVE AlertInv'
  <2>1. \A w \in Watchers : \A v : Own(w, v)' <=> Own(w, v)
    BY <1>7 DEF WebEvent, Own
  <2> QED
    BY <1>1, <1>7, <2>1, AnnounceStep DEF WebEvent
<1>8. ASSUME NEW k \in Ids, SweepEvents(k) PROVE AlertInv'
  <2>1. \A i \in Ids : queue'[i] = queue[i] \/ queue'[i] = 0
    BY <1>8 DEF SweepEvents
  <2>2. \A w \in Watchers : watch[w].on => \A i \in New(w) : queue'[i] = queue[i]
    BY <1>8 DEF SweepEvents, New
  <2>3. \A w \in Watchers : \A v : Own(w, v)' <=> Own(w, v)
    BY <1>8 DEF SweepEvents, Own
  <2> QED
    BY <1>1, <1>8, <2>1, <2>2, <2>3, QuietStep DEF SweepEvents, history
<1>9. ASSUME NEW c \in Conns, StartWatch(c) PROVE AlertInv'
  BY <1>1, <1>9, BeginStep DEF StartWatch, Watchers
<1>10. CASE RestartRelay
  BY <1>1, <1>10, BeginStep DEF RestartRelay, Watchers
<1>11. CASE UNCHANGED vars
  BY <1>1, <1>11, StillStep DEF vars, history
<1> QED
  BY <1>1, <1>2, <1>3, <1>4, <1>5, <1>6, <1>7, <1>8, <1>9, <1>10, <1>11,
     LogOutStep, PollStep DEF Next

LEMMA AlertsInv == Spec => []AlertInv
  BY InitAlerts, NextAlerts, PTL DEF Spec

(* No watcher announces an event twice, one from before it started, or one   *)
(* after a later one.                                                       *)
THEOREM AlertsInOrder == Spec => []OnceAndInOrder
<1>1. AlertInv => OnceAndInOrder
  BY DEF AlertInv
<1> QED
  BY <1>1, AlertsInv, PTL

(* The limit of a poll, the user's own events and the sweep lose no alert:   *)
(* a watcher misses one only if its id had been given out before.           *)
THEOREM MissedSafe == Spec => []MissedOnlyIfReused
<1>1. AlertInv => MissedOnlyIfReused
  <2> SUFFICES ASSUME AlertInv, NEW w \in Watchers, watch[w].on, NEW e \in Missed(w)
               PROVE  Reused(e)
    BY DEF MissedOnlyIfReused
  <2>1. e \in Unseen(w) /\ \A i \in New(w) : queue[i] # e
    BY DEF Missed, Unseen
  <2>2. StillThere(w, e)
    BY <2>1 DEF AlertInv, NoneForgotten
  <2>3. ASSUME log[e].id > watch[w].last PROVE FALSE
    <3>1. log[e].id \in Ids /\ e # 0
      BY <2>1, LogType DEF AlertInv, Unseen
    <3>2. log[e].id \in New(w)
      BY <2>1, <2>2, <2>3, <3>1 DEF StillThere, New, Unseen
    <3> QED
      BY <2>1, <2>2, <2>3, <3>2 DEF StillThere
  <2> QED
    BY <2>2, <2>3 DEF StillThere
<1> QED
  BY <1>1, AlertsInv, PTL

-----------------------------------------------------------------------------
(* Who is listed                                                            *)

(* Nobody has a row before the first heartbeat; a failed one leaves an id.   *)
RowsTaken ==
  /\ \A c \in Conns : conn[c].pc = "away" => conn[c].row = 0
  /\ \A c \in unrecorded : conn[c].row # 0

Excused(c) == \E d \in unrecorded \ {c} : conn[d].row = conn[c].row

ListedInv == TypeOK /\ RowsTaken /\ OnlineAreListed

LEMMA InitListed == Init => ListedInv
<1> SUFFICES ASSUME Init PROVE ListedInv
  OBVIOUS
<1>1. RowsTaken /\ OnlineAreListed
  BY DEF Init, RowsTaken, OnlineAreListed
<1> QED
  BY <1>1, InitType DEF ListedInv

(* A step that records or removes no row, except of those who are gone.      *)
LEMMA ListedQuiet ==
  ASSUME ListedInv, TypeOK', unrecorded' = unrecorded,
         \A c \in Conns : /\ conn'[c].row = conn[c].row
                          /\ conn'[c].pc = "away" => conn[c].pc = "away"
                          /\ conn'[c].pc = "in" => conn[c].pc = "in" \/ conn[c].row = 0,
         \A c \in Conns : conn'[c].pc = "in" =>
           \A i \in Rows : sessions[i] = c => sessions'[i] = c
  PROVE  ListedInv'
<1> USE DEF ListedInv
<1>1. unrecorded \subseteq Conns
  BY DEF TypeOK
<1>2. RowsTaken'
  BY <1>1 DEF RowsTaken
<1>3. OnlineAreListed'
  <2> SUFFICES ASSUME NEW c \in Conns, conn'[c].pc = "in", conn'[c].row # 0, c \notin unrecorded
               PROVE  sessions'[conn[c].row] = c \/ Excused(c)'
    BY DEF OnlineAreListed, Excused
  <2>1. conn[c].pc = "in" /\ conn[c].row \in Rows
    BY DEF TypeOK, Conn
  <2>2. sessions[conn[c].row] = c \/ Excused(c)
    BY <2>1 DEF OnlineAreListed, Excused
  <2> QED
    BY <1>1, <2>1, <2>2 DEF Excused
<1> QED
  BY <1>2, <1>3

LEMMA LogInListed ==
  ASSUME ListedInv, TypeOK', NEW c \in Conns, LogIn(c)
  PROVE  ListedInv'
<1> USE DEF ListedInv
<1>1. PICK i \in Rows : /\ Largest(sessions, i - 1)
                        /\ conn' = [conn EXCEPT ![c].row = i]
                        /\ sessions' = [sessions EXCEPT ![i] = c]
  BY DEF LogIn
<1>2. sessions[i] = 0
  <2>1. sessions[i] # 0 => i <= i - 1
    BY <1>1 DEF Largest, TypeOK
  <2>2. i \in Nat
    BY Bounds
  <2> QED
    BY <2>1, <2>2
<1>3. /\ unrecorded' = unrecorded /\ unrecorded \subseteq Conns /\ c \notin unrecorded
      /\ conn[c].pc = "in" /\ conn'[c].pc = "in" /\ conn'[c].row = i /\ i # 0
      /\ sessions'[i] = c
      /\ \A d \in Conns \ {c} : conn'[d] = conn[d]
      /\ \A j \in Rows \ {i} : sessions'[j] = sessions[j]
  BY <1>1, Bounds DEF LogIn, RowsTaken, TypeOK, Conn
<1>4. RowsTaken'
  BY <1>3 DEF RowsTaken
<1>5. OnlineAreListed'
  <2> SUFFICES ASSUME NEW d \in Conns, conn'[d].pc = "in", conn'[d].row # 0, d \notin unrecorded
               PROVE  sessions'[conn'[d].row] = d \/ Excused(d)'
    BY <1>3 DEF OnlineAreListed, Excused
  <2>1. CASE d = c
    BY <1>3, <2>1
  <2>2. CASE d # c
    <3>1. conn'[d] = conn[d] /\ conn[d].row \in Rows
      BY <1>3, <2>2 DEF TypeOK, Conn
    <3>2. sessions[conn[d].row] = d \/ Excused(d)
      BY <3>1 DEF OnlineAreListed, Excused
    <3>3. Excused(d) => Excused(d)'
      BY <1>3, <3>1 DEF Excused
    <3>4. sessions[conn[d].row] = d => conn[d].row # i
      BY <1>2, Bounds
    <3> QED
      BY <1>3, <3>1, <3>2, <3>3, <3>4
  <2> QED
    BY <2>1, <2>2
<1> QED
  BY <1>4, <1>5

LEMMA LogInFailsListed ==
  ASSUME ListedInv, TypeOK', NEW c \in Conns, LogInFails(c)
  PROVE  ListedInv'
<1> USE DEF ListedInv
<1>1. PICK i \in Rows : conn' = [conn EXCEPT ![c].row = i]
  BY DEF LogInFails
<1>2. /\ unrecorded' = unrecorded \union {c} /\ unrecorded \subseteq Conns
      /\ c \notin unrecorded /\ conn'[c].pc = "in" /\ conn'[c].row = i /\ i # 0
      /\ sessions' = sessions
      /\ \A d \in Conns \ {c} : conn'[d] = conn[d]
  BY <1>1, Bounds DEF LogInFails, RowsTaken, TypeOK, Conn
<1>3. RowsTaken'
  BY <1>2 DEF RowsTaken
<1>4. OnlineAreListed'
  <2> SUFFICES ASSUME NEW d \in Conns, conn'[d].pc = "in", conn'[d].row # 0, d \notin unrecorded'
               PROVE  sessions[conn'[d].row] = d \/ Excused(d)'
    BY <1>2 DEF OnlineAreListed, Excused
  <2>1. d # c /\ d \notin unrecorded /\ conn'[d] = conn[d]
    BY <1>2
  <2>2. sessions[conn[d].row] = d \/ Excused(d)
    BY <2>1 DEF OnlineAreListed, Excused
  <2>3. Excused(d) => Excused(d)'
    BY <1>2, <2>1 DEF Excused
  <2> QED
    BY <2>1, <2>2, <2>3
<1> QED
  BY <1>3, <1>4

(* The row a connection removes is its own, or one of the two has no row.    *)
LEMMA LogOutListed ==
  ASSUME ListedInv, TypeOK', NEW c \in Conns, LogOut(c)
  PROVE  ListedInv'
<1> USE DEF ListedInv
<1>1. /\ unrecorded' = unrecorded /\ unrecorded \subseteq Conns
      /\ conn[c].pc = "in" /\ conn'[c].pc = "over" /\ conn'[c].row = conn[c].row
      /\ \A d \in Conns \ {c} : conn'[d] = conn[d]
  BY DEF LogOut, TypeOK, Conn
<1>2. CASE sessions' = sessions
  BY <1>1, <1>2, ListedQuiet
<1>3. CASE conn[c].row # 0 /\ Removed(c)
  <2>1. \A j \in Rows : j # conn[c].row => sessions'[j] = sessions[j]
    BY <1>3 DEF Removed, TypeOK
  <2>2. RowsTaken'
    BY <1>1 DEF RowsTaken
  <2>3. OnlineAreListed'
    <3> SUFFICES ASSUME NEW d \in Conns, conn'[d].pc = "in", conn'[d].row # 0, d \notin unrecorded
                 PROVE  sessions'[conn[d].row] = d \/ Excused(d)'
      BY <1>1 DEF OnlineAreListed, Excused
    <3>1. d # c /\ conn'[d] = conn[d] /\ conn[d].row \in Rows
      BY <1>1 DEF TypeOK, Conn
    <3>2. sessions[conn[d].row] = d \/ Excused(d)
      BY <3>1 DEF OnlineAreListed, Excused
    <3>3. Excused(d) => Excused(d)'
      BY <1>1, <3>1 DEF Excused
    <3>4. ASSUME sessions[conn[d].row] = d, conn[d].row = conn[c].row PROVE Excused(d)
      <4>1. CASE c \in unrecorded
        BY <3>1, <3>4, <4>1 DEF Excused
      <4>2. CASE c \notin unrecorded
        <5>1. sessions[conn[c].row] = c \/ Excused(c)
          BY <1>1, <1>3, <4>2 DEF OnlineAreListed, Excused
        <5> QED
          BY <3>1, <3>4, <5>1 DEF Excused
      <4> QED
        BY <4>1, <4>2
    <3> QED
      BY <2>1, <3>1, <3>2, <3>3, <3>4
  <2> QED
    BY <2>2, <2>3
<1> QED
  BY <1>2, <1>3 DEF LogOut

LEMMA NextListed == ListedInv /\ [Next]_vars => ListedInv'
<1> SUFFICES ASSUME ListedInv, [Next]_vars PROVE ListedInv'
  OBVIOUS
<1>1. TypeOK /\ TypeOK'
  BY NextType DEF ListedInv
<1>2. ASSUME NEW c \in Conns, NEW u \in Users, Connect(c, u) PROVE ListedInv'
  <2>1. \A d \in Conns \ {c} : conn'[d] = conn[d]
    BY <1>1, <1>2 DEF Connect, TypeOK
  <2>2. conn[c].row = 0 /\ conn'[c].row = 0 /\ conn'[c].pc = "in"
    BY <1>1, <1>2 DEF Connect, TypeOK, Conn, ListedInv, RowsTaken
  <2> QED
    BY <1>1, <1>2, <2>1, <2>2, ListedQuiet DEF Connect, history
<1>3. ASSUME NEW c \in Conns, StartWatch(c) PROVE ListedInv'
  BY <1>1, <1>3, ListedQuiet DEF StartWatch
<1>4. CASE Crash
  <2>1. \A c \in Conns : conn'[c].row = conn[c].row /\ (conn'[c].pc # conn[c].pc => conn'[c].pc = "over")
    BY <1>1, <1>4 DEF Crash, TypeOK, Conn
  <2> QED
    BY <1>1, <1>4, <2>1, ListedQuiet DEF Crash
<1>5. CASE SweepSessions
  <2>1. \A c \in Conns : conn'[c].pc = "in" =>
          \A i \in Rows : sessions[i] = c => sessions'[i] = c
    BY <1>5, Bounds DEF SweepSessions
  <2> QED
    BY <1>1, <1>5, <2>1, ListedQuiet DEF SweepSessions, history
<1>6. CASE UNCHANGED <<conn, sessions, unrecorded>>
  BY <1>1, <1>6, ListedQuiet
<1> QED
  BY <1>1, <1>2, <1>3, <1>4, <1>5, <1>6, LogInListed, LogInFailsListed, LogOutListed
  DEF Next, RestartRelay, WebEvent, Poll, SweepEvents, vars, history

(* Who is connected keeps the row of their first heartbeat, unless a         *)
(* connection without one of its own took its id.                           *)
THEOREM ListedSafe == Spec => []OnlineAreListed
<1>1. ListedInv => OnlineAreListed
  BY DEF ListedInv
<1> QED
  BY <1>1, InitListed, NextListed, PTL DEF Spec
=============================================================================
