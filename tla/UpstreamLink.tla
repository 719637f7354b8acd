---------------------------- MODULE UpstreamLink ----------------------------
(***************************************************************************)
(* Mail written here on its way to the upstream hub of a network.  The     *)
(* poller dials the hub, one poll at a time if its guard holds; the hub    *)
(* may also call in.  A message gets its MSGID when it is first packed,    *)
(* and the hub drops what comes with an MSGID it knows, as our own import  *)
(* does.                                                                   *)
(*                                                                         *)
(* Sources: _do_poll of echomail/poller.py, poll, _send_messages and       *)
(* _build_ftn_packet of echomail/binkp.py, make_msgid of                   *)
(* echomail/kludges.py and the network branch of _handle_connection in     *)
(* echomail/binkp_server.py.                                               *)
(***************************************************************************)
EXTENDS Naturals, Sequences, SequencesExt

CONSTANTS
  MaxMsg,     \* bound: messages
  Workers,    \* the poller, Poll Now threads and listener sessions
  Callers,    \* the workers a call of the hub can occupy
  Nobody,     \* owner of the poll log row of a process that died
  MaxSecond,  \* bound: the seconds of the clock
  MaxFaults   \* bound: processes that die

ASSUME LinkAssumption ==
  /\ MaxMsg \in Nat /\ MaxFaults \in Nat
  /\ MaxSecond \in Nat \ {0}
  /\ Nobody \notin Workers /\ Callers \subseteq Workers

Msgs == 1 .. MaxMsg

(* An MSGID is our address and the epoch second it was made in.             *)
NoId == 0
MsgIds == 1 .. MaxSecond

VARIABLES
  second,    \* int(time.time())
  queued,    \* outbound EchomailMessage rows
  msgid,     \* their msg_id
  stamped,   \* those with sent_at
  log,       \* EchomailPollLog rows with status running, oldest first
  ses,       \* what every worker is doing
  hub,       \* MSGIDs the hub has seen
  faults     \* failures so far

(* Not in the program: for the properties.                                  *)
VARIABLES
  received,  \* messages that reached the hub in a packet
  copies,    \* how often the hub imported every message
  excused    \* packed twice with nothing saved of the first MSGID

ours == <<queued, msgid, stamped>>
history == <<received, copies, excused>>
vars == <<second, ours, log, ses, hub, faults, history>>

Session ==
  [pc    : {"idle", "insert", "gather", "pack", "send", "end"},
   kind  : {"dial", "listen"},
   batch : SUBSET Msgs,
   ids   : [Msgs -> MsgIds \union {NoId}],   \* msg_id as loaded, then as packed
   made  : SUBSET Msgs,                      \* MSGIDs made here, not yet committed
   acked : BOOLEAN]

NoSession ==
  [pc |-> "idle", kind |-> "dial", batch |-> {}, ids |-> [m \in Msgs |-> NoId],
   made |-> {}, acked |-> FALSE]

Running(w) == [owner |-> w, stale |-> FALSE]

Rows == [owner : Workers \union {Nobody}, stale : BOOLEAN]

(* A session closes the row it has written, which the next poll may have    *)
(* closed before it as stale.                                               *)
Without(w) ==
  IF \E i \in DOMAIN log : log[i].owner = w
  THEN RemoveAt(log, CHOOSE i \in DOMAIN log : log[i].owner = w)
  ELSE log

-----------------------------------------------------------------------------
Init ==
  /\ second = 1
  /\ queued = {} /\ msgid = [m \in Msgs |-> NoId] /\ stamped = {}
  /\ log = <<>>
  /\ ses = [w \in Workers |-> NoSession]
  /\ hub = {}
  /\ faults = 0
  /\ received = {} /\ copies = [m \in Msgs |-> 0] /\ excused = {}

Pass ==
  /\ second < MaxSecond
  /\ second' = second + 1
  /\ UNCHANGED <<ours, log, ses, hub, faults, history>>

(* Half an hour later a row still running counts as abandoned.              *)
Age(i) ==
  /\ i \in DOMAIN log /\ ~log[i].stale
  /\ log' = [log EXCEPT ![i].stale = TRUE]
  /\ UNCHANGED <<second, ours, ses, hub, faults, history>>

Compose ==
  /\ \E m \in Msgs \ queued :
       /\ \A k \in Msgs \ queued : m <= k
       /\ queued' = queued \union {m}
  /\ UNCHANGED <<second, msgid, stamped, log, ses, hub, faults, history>>

(* Mutant of PollCheck: a running row blocks, however old.                  *)
PollCheckForever(w) ==
  /\ ses[w].pc = "idle"
  /\ log = <<>>
  /\ ses' = [ses EXCEPT ![w].pc = "insert"]
  /\ UNCHANGED <<second, ours, log, hub, faults, history>>

(* _do_poll looks at the first running row only; a stale one is closed, a   *)
(* fresh one ends the poll.                                                 *)
PollCheck(w) ==
  /\ ses[w].pc = "idle"
  /\ \/ log = <<>> /\ UNCHANGED log
     \/ log # <<>> /\ log[1].stale /\ log' = Tail(log)
  /\ ses' = [ses EXCEPT ![w].pc = "insert"]
  /\ UNCHANGED <<second, ours, hub, faults, history>>

(* The running row is committed in a transaction of its own.                *)
PollStart(w) ==
  /\ ses[w].pc = "insert"
  /\ log' = Append(log, Running(w))
  /\ ses' = [ses EXCEPT ![w].pc = "gather"]
  /\ UNCHANGED <<second, ours, hub, faults, history>>

(* The hub calls in: the listener writes a running row and asks for none.   *)
Listen(w) ==
  /\ w \in Callers /\ ses[w].pc = "idle"
  /\ log' = Append(log, Running(w))
  /\ ses' = [ses EXCEPT ![w].pc = "gather", ![w].kind = "listen"]
  /\ UNCHANGED <<second, ours, hub, faults, history>>

(* The unsent rows are loaded; one that another session has loaded or       *)
(* packed without an MSGID will get two of them.                            *)
Gather(w) ==
  /\ ses[w].pc = "gather"
  /\ LET batch == queued \ stamped
         blank == {m \in batch : msgid[m] = NoId}
     IN /\ ses' = [ses EXCEPT ![w].pc = IF batch = {} THEN "end" ELSE "pack",
                              ![w].batch = batch,
                              ![w].ids = [m \in Msgs |-> IF m \in batch THEN msgid[m] ELSE NoId]]
        /\ excused' = excused \union
             {m \in blank : \E v \in Workers : m \in ses[v].batch}
  /\ UNCHANGED <<second, ours, log, hub, faults, received, copies>>

(* Mutant of Pack: the serial runs ahead of the clock.                       *)
PackAhead(w) ==
  /\ ses[w].pc = "pack"
  /\ LET blank == {m \in ses[w].batch : ses[w].ids[m] = NoId}
     IN ses' = [ses EXCEPT ![w].pc = "send",
                           ![w].made = blank,
                           ![w].ids = [m \in Msgs |-> IF m \in blank THEN second + 1 ELSE @[m]]]
  /\ UNCHANGED <<second, ours, log, hub, faults, history>>

(* _build_ftn_packet: whatever has no MSGID gets one of this second.        *)
Pack(w) ==
  /\ ses[w].pc = "pack"
  /\ LET blank == {m \in ses[w].batch : ses[w].ids[m] = NoId}
     IN ses' = [ses EXCEPT ![w].pc = "send",
                           ![w].made = blank,
                           ![w].ids = [m \in Msgs |-> IF m \in blank THEN second ELSE @[m]]]
  /\ UNCHANGED <<second, ours, log, hub, faults, history>>

(* External: the hub imports the packet in order and drops duplicates.      *)
HubImports(w) ==
  LET s == ses[w]
      new(m) == /\ m \in s.batch /\ s.ids[m] \notin hub
                /\ \A k \in s.batch : k < m => s.ids[k] # s.ids[m]
  IN /\ hub' = hub \union {s.ids[m] : m \in s.batch}
     /\ received' = received \union s.batch
     /\ copies' = [m \in Msgs |-> IF new(m) THEN copies[m] + 1 ELSE copies[m]]

(* Rows a session writes back: sent_at, and the MSGIDs it made.             *)
Save(w) ==
  msgid' = [m \in Msgs |-> IF m \in ses[w].made THEN ses[w].ids[m] ELSE msgid[m]]

(* The listener stamps and commits at once, the poller at its end.          *)
SendAccepted(w) ==
  /\ ses[w].pc = "send"
  /\ HubImports(w)
  /\ IF ses[w].kind = "listen"
     THEN /\ Save(w) /\ stamped' = stamped \union ses[w].batch
          /\ ses' = [ses EXCEPT ![w].pc = "end", ![w].batch = {}, ![w].made = {}]
     ELSE /\ UNCHANGED <<msgid, stamped>>
          /\ ses' = [ses EXCEPT ![w].pc = "end", ![w].acked = TRUE]
  /\ UNCHANGED <<second, queued, log, faults, excused>>

(* What becomes of a batch that was not acknowledged: the poller commits    *)
(* the MSGIDs with its log; the listener does if its file transfers commit, *)
(* and else they are forgotten with its transaction.                        *)
Unacked(w) ==
  \/ /\ ses[w].kind = "dial"
     /\ ses' = [ses EXCEPT ![w].pc = "end"]
     /\ UNCHANGED <<msgid, excused>>
  \/ /\ ses[w].kind = "listen"
     /\ ses' = [ses EXCEPT ![w].pc = "end", ![w].batch = {}, ![w].made = {}]
     /\ \/ Save(w) /\ UNCHANGED excused
        \/ UNCHANGED msgid /\ excused' = excused \union ses[w].made

(* The hub has the packet but its M_GOT does not arrive.                    *)
SendAckLost(w) ==
  /\ ses[w].pc = "send"
  /\ HubImports(w)
  /\ Unacked(w)
  /\ UNCHANGED <<second, queued, stamped, log, faults>>

(* Mutant of SendRefused: the poller counts the packet as delivered.        *)
SendRefusedCounts(w) ==
  /\ ses[w].pc = "send"
  /\ ses' = [ses EXCEPT ![w].pc = "end", ![w].acked = TRUE]
  /\ UNCHANGED <<second, ours, log, hub, faults, history>>

SendRefused(w) ==
  /\ ses[w].pc = "send"
  /\ Unacked(w)
  /\ UNCHANGED <<second, queued, stamped, log, hub, faults, received, copies>>

(* The session is over and its row closed; the poller stamps its batch if   *)
(* the hub acknowledged it.                                                 *)
Finish(w) ==
  /\ ses[w].pc = "end"
  /\ Save(w)
  /\ stamped' = IF ses[w].acked THEN stamped \union ses[w].batch ELSE stamped
  /\ log' = Without(w)
  /\ ses' = [ses EXCEPT ![w] = NoSession]
  /\ UNCHANGED <<second, queued, hub, faults, history>>

(* Mutant of PollFails: the failed poll is rolled back.                     *)
PollFailsRollsBack(w) ==
  /\ ses[w].kind = "dial" /\ ses[w].pc \in {"pack", "send", "end"}
  /\ log' = Without(w)
  /\ ses' = [ses EXCEPT ![w] = NoSession]
  /\ UNCHANGED <<second, ours, hub, faults, history>>

(* Mutant of PollFails: a poll stamps its batch however it ends.            *)
PollFailsStamps(w) ==
  /\ ses[w].kind = "dial" /\ ses[w].pc \in {"pack", "send", "end"}
  /\ Save(w)
  /\ stamped' = stamped \union ses[w].batch
  /\ log' = Without(w)
  /\ ses' = [ses EXCEPT ![w] = NoSession]
  /\ UNCHANGED <<second, queued, hub, faults, history>>

(* The connection fails, or something after the batch raises: what was      *)
(* acknowledged is forgotten, but the commit that closes the log row also   *)
(* saves the MSGIDs.                                                        *)
PollFails(w) ==
  /\ ses[w].kind = "dial" /\ ses[w].pc \in {"pack", "send", "end"}
  /\ Save(w)
  /\ log' = Without(w)
  /\ ses' = [ses EXCEPT ![w] = NoSession]
  /\ UNCHANGED <<second, queued, stamped, hub, faults, history>>

(* The caller hangs up before the listener has sent anything.               *)
ListenFails(w) ==
  /\ ses[w].kind = "listen" /\ ses[w].pc = "gather"
  /\ log' = Without(w)
  /\ ses' = [ses EXCEPT ![w] = NoSession]
  /\ UNCHANGED <<second, ours, hub, faults, history>>

(* The process dies: its row stays running, its MSGIDs are forgotten.       *)
Die(w) ==
  /\ ses[w].pc # "idle" /\ faults < MaxFaults
  /\ faults' = faults + 1
  /\ log' = [i \in DOMAIN log |->
               IF log[i].owner = w THEN [log[i] EXCEPT !.owner = Nobody] ELSE log[i]]
  /\ excused' = excused \union ses[w].made
  /\ ses' = [ses EXCEPT ![w] = NoSession]
  /\ UNCHANGED <<second, ours, hub, received, copies>>

-----------------------------------------------------------------------------
Step(w) ==
  \/ PollStart(w) \/ Gather(w) \/ Pack(w)
  \/ SendAccepted(w) \/ SendAckLost(w) \/ SendRefused(w)
  \/ Finish(w) \/ PollFails(w) \/ ListenFails(w)

Next ==
  \/ Pass \/ Compose
  \/ \E i \in DOMAIN log : Age(i)
  \/ \E w \in Workers : PollCheck(w) \/ Listen(w) \/ Step(w) \/ Die(w)

Spec == Init /\ [][Next]_vars

(* The poller keeps polling, time passes, sessions end by their timeouts,   *)
(* and a hub that is polled again and again is reached, and accepts and     *)
(* acknowledges a packet, in the end.  Nothing makes the hub call in.       *)
Dialled(w) == ses[w].kind = "dial"

FairSpec ==
  /\ Spec
  /\ WF_vars(Age(1))
  /\ \A w \in Workers : WF_vars(Step(w))
  /\ SF_vars(\E w \in Workers : PollCheck(w))
  /\ SF_vars(\E w \in Workers : Dialled(w) /\ Pack(w))
  /\ SF_vars(\E w \in Workers : Dialled(w) /\ SendAccepted(w))
  /\ SF_vars(\E w \in Workers : Dialled(w) /\ ses[w].acked /\ Finish(w))

-----------------------------------------------------------------------------
(* Properties                                                               *)

TypeOK ==
  /\ second \in 1 .. MaxSecond
  /\ queued \subseteq Msgs /\ stamped \subseteq queued
  /\ msgid \in [Msgs -> MsgIds \union {NoId}]
  /\ log \in Seq(Rows)
  /\ ses \in [Workers -> Session]
  /\ hub \subseteq MsgIds
  /\ faults \in 0 .. MaxFaults
  /\ received \subseteq queued /\ excused \subseteq queued
  /\ copies \in [Msgs -> Nat]

(* A message is stamped sent only when the hub has received a packet with   *)
(* it, whatever polls overlap, fail, are refused or lose their              *)
(* acknowledgement (the ack gating of _do_poll and _handle_connection).     *)
StampedImpliesReceived == stamped \subseteq received

(* The hub imports a message twice only if two sessions packed it before    *)
(* either had saved an MSGID for it, or the MSGID was lost with its         *)
(* session: any other retry of a batch the hub had already is recognised    *)
(* by its MSGID (_build_ftn_packet and the commits of _do_poll).            *)
RetriesRecognised == \A m \in Msgs : copies[m] > 1 => m \in excused

(* A message queued for the hub is never forgotten: it is gathered again    *)
(* until the hub has it (the query for unsent rows and the stamping).       *)
Promise == INSTANCE Forwarding WITH
  Deliveries <- Msgs, owed <- queued \ stamped, withdrawn <- {}
ForwardingSpec == Promise!Spec

(* Every queued message is stamped sent in the end: no poll that died with  *)
(* its running row in the log blocks the network for ever.                  *)
QueuedMailGoesOut == \A m \in Msgs : m \in queued ~> m \in stamped
=============================================================================
