------------------------ MODULE UpstreamLink_proofs ------------------------
(***************************************************************************)
(* Stamping, retries, types and the promise of Forwarding, proved for      *)
(* every number of messages, workers, seconds and failures.                *)
(***************************************************************************)
EXTENDS UpstreamLink, SequenceTheorems, TLAPS

(* The part of TypeOK the argument needs.                                   *)
Typed ==
  /\ second \in 1 .. MaxSecond
  /\ queued \subseteq Msgs
  /\ msgid \in [Msgs -> MsgIds \union {NoId}]
  /\ ses \in [Workers -> Session]

(* A session believes its batch acknowledged only at its end, and the hub   *)
(* has it then.                                                             *)
AckedReceived ==
  \A w \in Workers :
    ses[w].acked => ses[w].pc = "end" /\ ses[w].batch \subseteq received

LinkInv == Typed /\ AckedReceived /\ StampedImpliesReceived

LEMMA NoSessionTyped == NoSession \in Session /\ ~NoSession.acked
  BY DEF NoSession, Session, NoId

LEMMA InitHolds == Init => LinkInv
  BY NoSessionTyped, LinkAssumption
  DEF Init, LinkInv, Typed, AckedReceived, StampedImpliesReceived, NoId

(* The history only grows.                                                  *)
LEMMA ImportReceives ==
  ASSUME NEW w \in Workers, HubImports(w)
  PROVE  received' = received \union ses[w].batch
  BY DEF HubImports

LEMMA SaveTyped ==
  ASSUME Typed, NEW w \in Workers, Save(w)
  PROVE  msgid' \in [Msgs -> MsgIds \union {NoId}]
  BY DEF Typed, Save, Session

(* A step that gives one session a new state which is well-formed and       *)
(* rightly acknowledged keeps both parts for all.                           *)
LEMMA OneSession ==
  ASSUME LinkInv, NEW w \in Workers, NEW s \in Session,
         ses' = [ses EXCEPT ![w] = s],
         second' \in 1 .. MaxSecond, queued' = queued,
         msgid' \in [Msgs -> MsgIds \union {NoId}],
         received \subseteq received',
         s.acked => s.pc = "end" /\ s.batch \subseteq received',
         stamped' \subseteq received'
  PROVE  LinkInv'
<1>1. Typed'
  BY DEF LinkInv, Typed
<1>2. AckedReceived'
  BY DEF LinkInv, Typed, AckedReceived
<1> QED BY <1>1, <1>2 DEF LinkInv, StampedImpliesReceived

LEMMA StepHolds == LinkInv /\ [Next]_vars => LinkInv'
<1> SUFFICES ASSUME LinkInv, [Next]_vars PROVE LinkInv'
  OBVIOUS
<1> USE LinkAssumption
<1>t. Typed /\ AckedReceived /\ stamped \subseteq received
  BY DEF LinkInv, StampedImpliesReceived
<1>s. \A w \in Workers : ses[w] \in Session
  BY <1>t DEF Typed
<1>q. queued \subseteq Msgs
  BY <1>t DEF Typed
<1>m. second \in 1 .. MaxSecond /\ msgid \in [Msgs -> MsgIds \union {NoId}]
  BY <1>t DEF Typed
<1>1. CASE Pass
  BY <1>1, <1>t DEF Pass, LinkInv, Typed, AckedReceived, StampedImpliesReceived, ours, history
<1>2. CASE Compose
  BY <1>2, <1>t DEF Compose, LinkInv, Typed, AckedReceived, StampedImpliesReceived, history
<1>3. ASSUME NEW i \in DOMAIN log, Age(i) PROVE LinkInv'
  BY <1>3, <1>t DEF Age, LinkInv, Typed, AckedReceived, StampedImpliesReceived, ours, history
<1>4. ASSUME NEW w \in Workers, PollCheck(w) PROVE LinkInv'
  <2> DEFINE s == [ses[w] EXCEPT !.pc = "insert"]
  <2>1. s \in Session /\ ~s.acked
    BY <1>4, <1>s, <1>t DEF PollCheck, AckedReceived, Session
  <2>2. ses' = [ses EXCEPT ![w] = s]
    BY <1>4 DEF PollCheck
  <2> HIDE DEF s
  <2> QED BY <2>1, <2>2, <1>4, <1>t, <1>m, OneSession DEF PollCheck, ours, history
<1>5. ASSUME NEW w \in Workers, PollStart(w) PROVE LinkInv'
  <2> DEFINE s == [ses[w] EXCEPT !.pc = "gather"]
  <2>1. s \in Session /\ ~s.acked
    BY <1>5, <1>s, <1>t DEF PollStart, AckedReceived, Session
  <2>2. ses' = [ses EXCEPT ![w] = s]
    BY <1>5 DEF PollStart
  <2> HIDE DEF s
  <2> QED BY <2>1, <2>2, <1>5, <1>t, <1>m, OneSession DEF PollStart, ours, history
<1>6. ASSUME NEW w \in Workers, Listen(w) PROVE LinkInv'
  <2> DEFINE s == [ses[w] EXCEPT !.pc = "gather", !.kind = "listen"]
  <2>1. s \in Session /\ ~s.acked
    BY <1>6, <1>s, <1>t DEF Listen, AckedReceived, Session
  <2>2. ses' = [ses EXCEPT ![w] = s]
    BY <1>6 DEF Listen
  <2> HIDE DEF s
  <2> QED BY <2>1, <2>2, <1>6, <1>t, <1>m, OneSession DEF Listen, ours, history
<1>7. ASSUME NEW w \in Workers, Gather(w) PROVE LinkInv'
  <2> DEFINE batch == queued \ stamped
             s == [ses[w] EXCEPT !.pc = IF batch = {} THEN "end" ELSE "pack",
                                 !.batch = batch,
                                 !.ids = [m \in Msgs |-> IF m \in batch THEN msgid[m] ELSE NoId]]
  <2>0. queued \subseteq Msgs
    BY <1>q
  <2>1. s \in Session /\ ~s.acked
    BY <1>7, <1>s, <1>t, <1>m, <2>0 DEF Gather, AckedReceived, Session, NoId
  <2>2. ses' = [ses EXCEPT ![w] = s]
    BY <1>7 DEF Gather
  <2> HIDE DEF s
  <2> QED BY <2>1, <2>2, <1>7, <1>t, <1>m, OneSession DEF Gather, ours
<1>8. ASSUME NEW w \in Workers, Pack(w) PROVE LinkInv'
  <2> DEFINE blank == {m \in ses[w].batch : ses[w].ids[m] = NoId}
             s == [ses[w] EXCEPT !.pc = "send", !.made = blank,
                     !.ids = [m \in Msgs |-> IF m \in blank THEN second ELSE ses[w].ids[m]]]
  <2>1. s \in Session /\ ~s.acked
    BY <1>8, <1>s, <1>t, <1>m DEF Pack, AckedReceived, Session, MsgIds
  <2>2. ses' = [ses EXCEPT ![w] = s]
    BY <1>8 DEF Pack
  <2> HIDE DEF s
  <2> QED BY <2>1, <2>2, <1>8, <1>t, <1>m, OneSession DEF Pack, ours, history
<1>9. ASSUME NEW w \in Workers, SendAccepted(w) PROVE LinkInv'
  <2>1. received' = received \union ses[w].batch
    BY <1>9, ImportReceives DEF SendAccepted
  <2>2. CASE ses[w].kind = "listen"
    <3> DEFINE s == [ses[w] EXCEPT !.pc = "end", !.batch = {}, !.made = {}]
    <3>1. s \in Session /\ ~s.acked
      BY <1>9, <1>s, <1>t DEF SendAccepted, AckedReceived, Session
    <3>2. /\ ses' = [ses EXCEPT ![w] = s]
          /\ stamped' = stamped \union ses[w].batch
          /\ second' = second /\ queued' = queued /\ Save(w)
      BY <1>9, <2>2 DEF SendAccepted
    <3>3. msgid' \in [Msgs -> MsgIds \union {NoId}]
      BY <3>2, <1>t, SaveTyped
    <3> HIDE DEF s
    <3> QED BY <3>1, <3>2, <3>3, <2>1, <1>t, <1>m, OneSession
  <2>3. CASE ses[w].kind # "listen"
    <3> DEFINE s == [ses[w] EXCEPT !.pc = "end", !.acked = TRUE]
    <3>1. s \in Session /\ s.pc = "end" /\ s.batch = ses[w].batch
      BY <1>s DEF Session
    <3>2. /\ ses' = [ses EXCEPT ![w] = s]
          /\ stamped' = stamped /\ second' = second
          /\ queued' = queued /\ msgid' = msgid
      BY <1>9, <2>3 DEF SendAccepted
    <3> HIDE DEF s
    <3> QED BY <3>1, <3>2, <2>1, <1>t, <1>m, OneSession
  <2> QED BY <2>2, <2>3
<1>10. ASSUME NEW w \in Workers, ses[w].pc = "send", Unacked(w),
              received \subseteq received', second' = second,
              queued' = queued, stamped' = stamped
       PROVE  LinkInv'
  <2>1. CASE ses[w].kind = "dial"
    <3> DEFINE s == [ses[w] EXCEPT !.pc = "end"]
    <3>1. s \in Session /\ ~s.acked
      BY <1>10, <1>s, <1>t DEF AckedReceived, Session
    <3>2. ses' = [ses EXCEPT ![w] = s] /\ msgid' = msgid
      BY <1>10, <2>1 DEF Unacked
    <3> HIDE DEF s
    <3> QED BY <3>1, <3>2, <1>10, <1>t, <1>m, OneSession
  <2>2. CASE ses[w].kind = "listen"
    <3> DEFINE s == [ses[w] EXCEPT !.pc = "end", !.batch = {}, !.made = {}]
    <3>1. s \in Session /\ ~s.acked
      BY <1>10, <1>s, <1>t DEF AckedReceived, Session
    <3>2. ses' = [ses EXCEPT ![w] = s] /\ (Save(w) \/ msgid' = msgid)
      BY <1>10, <2>2 DEF Unacked
    <3>3. msgid' \in [Msgs -> MsgIds \union {NoId}]
      BY <3>2, <1>t, <1>m, SaveTyped
    <3> HIDE DEF s
    <3> QED BY <3>1, <3>2, <3>3, <1>10, <1>t, <1>m, OneSession
  <2> QED BY <2>1, <2>2, <1>10 DEF Unacked
<1>11. ASSUME NEW w \in Workers, SendAckLost(w) PROVE LinkInv'
  BY <1>11, <1>10, ImportReceives DEF SendAckLost
<1>12. ASSUME NEW w \in Workers, SendRefused(w) PROVE LinkInv'
  BY <1>12, <1>10 DEF SendRefused
<1>13. ASSUME NEW w \in Workers, Finish(w) PROVE LinkInv'
  <2>1. msgid' \in [Msgs -> MsgIds \union {NoId}]
    BY <1>13, <1>t, SaveTyped DEF Finish
  <2>2. stamped' \subseteq received
    BY <1>13, <1>t DEF Finish, AckedReceived
  <2>3. /\ ses' = [ses EXCEPT ![w] = NoSession]
        /\ second' = second /\ queued' = queued /\ received' = received
    BY <1>13 DEF Finish, history
  <2> QED BY <2>1, <2>2, <2>3, <1>m, NoSessionTyped, OneSession
<1>14. ASSUME NEW w \in Workers, PollFails(w) PROVE LinkInv'
  <2>1. msgid' \in [Msgs -> MsgIds \union {NoId}]
    BY <1>14, <1>t, SaveTyped DEF PollFails
  <2>2. /\ ses' = [ses EXCEPT ![w] = NoSession]
        /\ second' = second /\ queued' = queued
        /\ received' = received /\ stamped' = stamped
    BY <1>14 DEF PollFails, history
  <2> QED BY <2>1, <2>2, <1>t, <1>m, NoSessionTyped, OneSession
<1>15. ASSUME NEW w \in Workers, ListenFails(w) PROVE LinkInv'
  BY <1>15, <1>t, <1>m, NoSessionTyped, OneSession DEF ListenFails, ours, history
<1>16. ASSUME NEW w \in Workers, Die(w) PROVE LinkInv'
  BY <1>16, <1>t, <1>m, NoSessionTyped, OneSession DEF Die, ours
<1>17. CASE UNCHANGED vars
  BY <1>17, <1>t DEF vars, ours, history, LinkInv, Typed, AckedReceived, StampedImpliesReceived
<1>18. CASE Next
  <2>1. ASSUME NEW w \in Workers, Step(w) PROVE LinkInv'
    BY <2>1, <1>5, <1>7, <1>8, <1>9, <1>11, <1>12, <1>13, <1>14, <1>15 DEF Step
  <2> QED BY <2>1, <1>18, <1>1, <1>2, <1>3, <1>4, <1>6, <1>16 DEF Next
<1> QED BY <1>17, <1>18

(* A message is stamped sent only when the hub has received it, for every   *)
(* number of overlapping sessions and failures (_do_poll and                *)
(* _handle_connection).                                                     *)
THEOREM StampedSafe == Spec => []StampedImpliesReceived
<1>1. LinkInv => StampedImpliesReceived
  BY DEF LinkInv
<1> QED BY <1>1, InitHolds, StepHolds, PTL DEF Spec

-----------------------------------------------------------------------------
(* Retries                                                                  *)

(* A session holds messages between gathering and giving up its batch, and  *)
(* has made MSGIDs only once it has packed.                                 *)
BatchesHeld ==
  \A w \in Workers :
    /\ ses[w].made \subseteq ses[w].batch
    /\ ses[w].pc \in {"idle", "insert", "gather"} => ses[w].batch = {}
    /\ ses[w].pc = "pack" => ses[w].made = {}

(* One session at most holds a message that has no MSGID yet, and it has    *)
(* made one unless it is still to pack; ...                                 *)
Unsaved(m) ==
  /\ \A w \in Workers : m \in ses[w].batch =>
       IF m \in ses[w].made THEN ses[w].ids[m] # NoId
       ELSE ses[w].pc = "pack" /\ ses[w].ids[m] = NoId
  /\ \A v, w \in Workers : m \in ses[v].batch /\ m \in ses[w].batch => v = w

(* ... every session that holds one that has an MSGID sends it with that.   *)
Saved(m) ==
  \A w \in Workers :
    m \in ses[w].batch => ses[w].ids[m] = msgid[m] /\ m \notin ses[w].made

(* The MSGIDs h tell the hub what it has: n copies of m.                    *)
Known(m, h) ==
  IF msgid[m] = NoId
  THEN \E w \in Workers : m \in ses[w].made /\ ses[w].ids[m] \in h
  ELSE msgid[m] \in h

Counted(m, h, n) == n = 0 \/ (n = 1 /\ Known(m, h))

Held(m) == IF msgid[m] = NoId THEN Unsaved(m) ELSE Saved(m)

Tracked(m) == Held(m) /\ Counted(m, hub, copies[m])

RetryInv ==
  LinkInv /\ BatchesHeld /\ copies \in [Msgs -> Nat] /\ \A m \in Msgs \ excused : Tracked(m)

LEMMA RetryTypes ==
  ASSUME RetryInv
  PROVE  /\ \A w \in Workers : ses[w] \in Session /\ ses[w].batch \subseteq Msgs
         /\ ses \in [Workers -> Session] /\ second \in MsgIds /\ NoId \notin MsgIds
         /\ msgid \in [Msgs -> MsgIds \union {NoId}]
  BY DEF RetryInv, LinkInv, Typed, Session, MsgIds, NoId

LEMMA InitRetry == Init => RetryInv
  BY InitHolds DEF Init, RetryInv, BatchesHeld, Tracked, Held, Unsaved, Counted, NoSession

(* A session that goes on with the messages it has.                         *)
LEMMA KeepSession ==
  ASSUME RetryInv, NEW m \in Msgs \ excused, NEW w \in Workers, NEW s \in Session,
         ses' = [ses EXCEPT ![w] = s], msgid'[m] = msgid[m],
         Counted(m, hub', copies'[m]),
         m \in s.batch <=> m \in ses[w].batch, m \in s.made <=> m \in ses[w].made,
         m \in s.batch => s.ids[m] = ses[w].ids[m] /\ (ses[w].pc = "pack" => s.pc = "pack")
  PROVE  Tracked(m)'
<1>1. /\ ses'[w] = s /\ \A v \in Workers \ {w} : ses'[v] = ses[v]
      /\ m \in ses[w].made => m \in ses[w].batch
  BY RetryTypes DEF RetryInv, BatchesHeld
<1>2. Held(m)
  BY DEF RetryInv, Tracked
<1>3. Held(m)'
  BY <1>1, <1>2 DEF Held, Unsaved, Saved
<1>4. Counted(m, hub, copies[m])'
  <2>1. CASE msgid[m] = NoId
    BY <1>1, <2>1 DEF Counted, Known
  <2>2. CASE msgid[m] # NoId
    BY <2>2 DEF Counted, Known
  <2> QED
    BY <2>1, <2>2
<1> QED
  BY <1>3, <1>4 DEF Tracked, Counted, Known

(* A session that gives its messages up, with what it made saved.           *)
LEMMA DropSession ==
  ASSUME RetryInv, NEW m \in Msgs \ excused, NEW w \in Workers, NEW s \in Session,
         ses' = [ses EXCEPT ![w] = s], s.batch = {}, s.made = {},
         msgid'[m] = IF m \in ses[w].made THEN ses[w].ids[m] ELSE msgid[m],
         Counted(m, hub', copies'[m])
  PROVE  Tracked(m)'
<1>1. /\ ses'[w] = s /\ \A v \in Workers \ {w} : ses'[v] = ses[v]
      /\ \A v \in Workers : m \in ses[v].made => m \in ses[v].batch
  BY RetryTypes DEF RetryInv, BatchesHeld
<1>2. Held(m)
  BY DEF RetryInv, Tracked
<1>3. CASE m \in ses[w].made
  <2>1. msgid[m] = NoId /\ Unsaved(m)
    BY <1>1, <1>2, <1>3 DEF Held, Saved
  <2>2. msgid'[m] = ses[w].ids[m] /\ msgid'[m] # NoId
    BY <1>1, <1>3, <2>1 DEF Unsaved
  <2>3. \A v \in Workers : m \notin ses'[v].batch
    BY <1>1, <1>3, <2>1 DEF Unsaved
  <2>4. Held(m)'
    BY <2>2, <2>3 DEF Held, Saved
  <2>5. \A v \in Workers : m \in ses[v].made => v = w
    BY <1>1, <1>3, <2>1 DEF Unsaved
  <2>6. Known(m, hub') => msgid'[m] \in hub'
    BY <2>1, <2>2, <2>5 DEF Known
  <2> QED
    BY <2>2, <2>4, <2>6 DEF Tracked, Counted, Known
<1>4. CASE m \notin ses[w].made
  <2>1. msgid'[m] = msgid[m]
    BY <1>4
  <2>2. Held(m)'
    BY <1>1, <1>2, <2>1 DEF Held, Unsaved, Saved
  <2>3. Known(m, hub') => Known(m, hub)'
    <3>1. CASE msgid[m] = NoId
      BY <1>1, <1>4, <2>1, <3>1 DEF Known
    <3>2. CASE msgid[m] # NoId
      BY <2>1, <3>2 DEF Known
    <3> QED
      BY <3>1, <3>2
  <2> QED
    BY <2>2, <2>3 DEF Tracked, Counted, Known
<1> QED
  BY <1>3, <1>4

(* The hub takes in what it does not know, once.                            *)
LEMMA ImportCounts ==
  ASSUME RetryInv, NEW m \in Msgs \ excused, NEW w \in Workers,
         ses[w].pc = "send", HubImports(w)
  PROVE  Counted(m, hub', copies'[m]) /\ copies' \in [Msgs -> Nat]
<1>1. Held(m) /\ Counted(m, hub, copies[m]) /\ hub \subseteq hub' /\ copies \in [Msgs -> Nat]
  BY DEF RetryInv, Tracked, HubImports
<1>2. copies' \in [Msgs -> Nat]
  BY <1>1 DEF HubImports
<1> SUFFICES Counted(m, hub', copies'[m])
  BY <1>2
<1>3. Known(m, hub) => Known(m, hub')
  BY <1>1 DEF Known
<1>4. CASE copies'[m] = copies[m]
  BY <1>1, <1>3, <1>4 DEF Counted
<1>5. CASE copies'[m] # copies[m]
  <2>1. /\ m \in ses[w].batch /\ ses[w].ids[m] \notin hub /\ ses[w].ids[m] \in hub'
        /\ copies'[m] = copies[m] + 1
    BY <1>5 DEF HubImports, RetryInv
  <2>2. CASE msgid[m] = NoId
    <3>1. m \in ses[w].made /\ \A v \in Workers : m \in ses[v].batch => v = w
      BY <1>1, <2>1, <2>2 DEF Held, Unsaved
    <3>2. ~ Known(m, hub)
      BY <2>1, <2>2, <3>1 DEF Known, RetryInv, BatchesHeld
    <3>3. Known(m, hub')
      BY <2>1, <2>2, <3>1 DEF Known
    <3> QED
      BY <1>1, <2>1, <3>2, <3>3 DEF Counted
  <2>3. CASE msgid[m] # NoId
    <3>1. ses[w].ids[m] = msgid[m]
      BY <1>1, <2>1, <2>3 DEF Held, Saved
    <3> QED
      BY <1>1, <2>1, <2>3, <3>1 DEF Counted, Known
  <2> QED
    BY <2>2, <2>3
<1> QED
  BY <1>2, <1>4, <1>5

(* What one session does to the shape of all.                               *)
LEMMA HeldBatches ==
  ASSUME RetryInv, NEW w \in Workers, NEW s \in Session, ses' = [ses EXCEPT ![w] = s],
         s.made \subseteq s.batch,
         s.pc \in {"idle", "insert", "gather"} => s.batch = {},
         s.pc = "pack" => s.made = {}
  PROVE  BatchesHeld'
  BY RetryTypes DEF RetryInv, BatchesHeld

LEMMA NothingHeld == NoSession \in Session /\ NoSession.batch = {} /\ NoSession.made = {}
  BY NoSessionTyped DEF NoSession

LEMMA SameCount ==
  ASSUME RetryInv, NEW m \in Msgs \ excused, hub' = hub, copies' = copies
  PROVE  Counted(m, hub', copies'[m])
  BY DEF RetryInv, Tracked

(* A session without a batch that stays so, or a batch that is sent again    *)
(* or not at all.                                                           *)
LEMMA IdleStep ==
  ASSUME RetryInv, LinkInv', NEW w \in Workers, NEW s \in Session,
         ses' = [ses EXCEPT ![w] = s], ses[w].batch = {}, s.batch = {}, s.made = {},
         UNCHANGED <<msgid, hub, copies, excused>>
  PROVE  RetryInv'
<1>1. BatchesHeld'
  BY HeldBatches
<1>2. ses[w].made = {}
  BY DEF RetryInv, BatchesHeld
<1>3. ASSUME NEW m \in Msgs \ excused PROVE Tracked(m)'
  BY <1>2, KeepSession, SameCount
<1> QED
  BY <1>1, <1>3 DEF RetryInv

LEMMA GatherStep ==
  ASSUME RetryInv, LinkInv', NEW w \in Workers, Gather(w)
  PROVE  RetryInv'
<1> DEFINE batch == queued \ stamped
           s == [ses[w] EXCEPT !.pc = IF batch = {} THEN "end" ELSE "pack",
                               !.batch = batch,
                               !.ids = [m \in Msgs |-> IF m \in batch THEN msgid[m] ELSE NoId]]
<1>1. batch \subseteq Msgs
  BY DEF RetryInv, LinkInv, Typed
<1>2. /\ s \in Session /\ s.batch = batch /\ s.made = ses[w].made
      /\ s.pc = IF batch = {} THEN "end" ELSE "pack"
      /\ \A m \in batch : s.ids[m] = msgid[m]
  BY <1>1, RetryTypes DEF Session, NoId
<1>3. ses' = [ses EXCEPT ![w] = s]
  BY DEF Gather
<1>4. ses[w].batch = {} /\ ses[w].made = {}
  BY DEF Gather, RetryInv, BatchesHeld
<1>5. /\ UNCHANGED <<msgid, hub, copies>> /\ excused \subseteq excused'
      /\ \A m \in batch : msgid[m] = NoId /\ (\E v \in Workers : m \in ses[v].batch)
                            => m \in excused'
  BY DEF Gather, ours
<1> HIDE DEF s, batch
<1>6. BatchesHeld'
  BY <1>2, <1>3, <1>4, HeldBatches
<1>7. ses'[w] = s /\ \A v \in Workers \ {w} : ses'[v] = ses[v]
  BY <1>3, RetryTypes
<1>8. ASSUME NEW m \in Msgs \ excused' PROVE Tracked(m)'
  <2>1. m \in Msgs \ excused
    BY <1>5
  <2>2. CASE m \notin batch
    BY <1>2, <1>3, <1>4, <1>5, <2>1, <2>2, KeepSession, SameCount
  <2>3. CASE m \in batch
    <3>1. Held(m) /\ Counted(m, hub, copies[m])
      BY <2>1 DEF RetryInv, Tracked
    <3>2. CASE msgid[m] = NoId
      <4>1. \A v \in Workers : m \notin ses[v].batch /\ m \notin ses[v].made
        BY <1>5, <1>8, <2>3, <3>2 DEF RetryInv, BatchesHeld
      <4>2. copies[m] = 0
        BY <3>1, <3>2, <4>1 DEF Counted, Known
      <4>3. s.pc = "pack" /\ s.ids[m] = NoId /\ m \notin s.made
        BY <1>2, <1>4, <2>3, <3>2
      <4>4. Unsaved(m)'
        BY <1>7, <4>1, <4>3 DEF Unsaved
      <4> QED
        BY <1>5, <3>2, <4>2, <4>4 DEF Tracked, Held, Counted
    <3>3. CASE msgid[m] # NoId
      <4>1. Saved(m)'
        BY <1>2, <1>4, <1>5, <1>7, <2>3, <3>1, <3>3 DEF Held, Saved
      <4> QED
        BY <1>5, <3>1, <3>3, <4>1 DEF Tracked, Held, Counted, Known
    <3> QED
      BY <3>2, <3>3
  <2> QED
    BY <2>2, <2>3
<1> QED
  BY <1>5, <1>6, <1>8 DEF RetryInv

LEMMA PackStep ==
  ASSUME RetryInv, LinkInv', NEW w \in Workers, Pack(w)
  PROVE  RetryInv'
<1> DEFINE blank == {m \in ses[w].batch : ses[w].ids[m] = NoId}
           s == [ses[w] EXCEPT !.pc = "send", !.made = blank,
                   !.ids = [m \in Msgs |-> IF m \in blank THEN second ELSE ses[w].ids[m]]]
<1>1. /\ s \in Session /\ s.batch = ses[w].batch /\ s.made = blank /\ s.pc = "send"
      /\ \A m \in Msgs : s.ids[m] = IF m \in blank THEN second ELSE ses[w].ids[m]
  BY RetryTypes DEF Session
<1>2. ses' = [ses EXCEPT ![w] = s] /\ ses[w].pc = "pack" /\ blank \subseteq ses[w].batch
  BY DEF Pack
<1>3. \A m \in ses[w].batch : m \in blank <=> ses[w].ids[m] = NoId
  OBVIOUS
<1>4. UNCHANGED <<msgid, hub, copies, excused>> /\ ses[w].made = {} /\ second # NoId
  BY <1>2, RetryTypes DEF Pack, ours, history, RetryInv, BatchesHeld
<1> HIDE DEF s, blank
<1>5. BatchesHeld'
  BY <1>1, <1>2, HeldBatches
<1>6. ses'[w] = s /\ \A v \in Workers \ {w} : ses'[v] = ses[v]
  BY <1>2, RetryTypes
<1>7. ASSUME NEW m \in Msgs \ excused PROVE Tracked(m)'
  <2>1. Held(m) /\ Counted(m, hub, copies[m])
    BY DEF RetryInv, Tracked
  <2>2. CASE m \in blank
    <3>1. m \in ses[w].batch /\ ses[w].ids[m] = NoId /\ m \notin ses[w].made
      BY <1>2, <1>3, <1>4, <2>2
    <3>2. msgid[m] = NoId /\ Unsaved(m)
      BY <2>1, <3>1 DEF Held, Saved
    <3>3. \A v \in Workers : m \notin ses[v].made
      BY <3>1, <3>2 DEF Unsaved, RetryInv, BatchesHeld
    <3>4. copies[m] = 0
      BY <2>1, <3>2, <3>3 DEF Counted, Known
    <3>5. s.ids[m] # NoId /\ m \in s.made
      BY <1>1, <1>4, <2>2
    <3>6. Unsaved(m)'
      BY <1>1, <1>6, <3>1, <3>2, <3>5 DEF Unsaved
    <3> QED
      BY <1>4, <3>2, <3>4, <3>6 DEF Tracked, Held, Counted
  <2>3. CASE m \notin blank
    <3>1. CASE m \in ses[w].batch
      <4>1. ses[w].ids[m] # NoId /\ s.ids[m] = ses[w].ids[m] /\ m \notin s.made
        BY <1>1, <1>3, <2>3, <3>1
      <4>2. msgid[m] # NoId /\ Saved(m)
        BY <1>4, <2>1, <3>1, <4>1 DEF Held, Unsaved
      <4>3. Saved(m)'
        BY <1>1, <1>4, <1>6, <4>1, <4>2 DEF Saved
      <4> QED
        BY <1>4, <2>1, <4>2, <4>3 DEF Tracked, Held, Counted, Known
    <3>2. CASE m \notin ses[w].batch
      BY <1>1, <1>2, <1>4, <2>3, <3>2, KeepSession, SameCount
    <3> QED
      BY <3>1, <3>2
  <2> QED
    BY <2>2, <2>3
<1> QED
  BY <1>4, <1>5, <1>7 DEF RetryInv

(* A session that ends keeps its batch, or saves and gives it up, or loses   *)
(* with it what it made, in which case that is excused.                     *)
LEMMA EndStep ==
  ASSUME RetryInv, LinkInv', NEW w \in Workers, NEW s \in Session,
         ses' = [ses EXCEPT ![w] = s], s.pc \notin {"pack"},
         copies' \in [Msgs -> Nat], excused \subseteq excused',
         \A m \in Msgs \ excused : Counted(m, hub', copies'[m]),
         \/ /\ msgid' = msgid /\ s.pc = "end" /\ ses[w].pc = "send"
            /\ s.batch = ses[w].batch /\ s.made = ses[w].made /\ s.ids = ses[w].ids
         \/ Save(w) /\ s.batch = {} /\ s.made = {}
         \/ /\ msgid' = msgid /\ ses[w].made \subseteq excused'
            /\ s.batch = {} /\ s.made = {}
  PROVE  RetryInv'
<1>1. ses[w].made \subseteq ses[w].batch
  BY DEF RetryInv, BatchesHeld
<1>2. BatchesHeld'
  BY <1>1, HeldBatches
<1>3. ASSUME NEW m \in Msgs \ excused' PROVE Tracked(m)'
  <2>1. m \in Msgs \ excused /\ Counted(m, hub', copies'[m])
    OBVIOUS
  <2>2. CASE Save(w) /\ s.batch = {} /\ s.made = {}
    BY <2>1, <2>2, DropSession DEF Save
  <2>3. CASE msgid' = msgid /\ ses[w].made \subseteq excused' /\ s.batch = {} /\ s.made = {}
    BY <1>3, <2>1, <2>3, DropSession
  <2>4. CASE /\ msgid' = msgid /\ s.pc = "end" /\ ses[w].pc = "send"
             /\ s.batch = ses[w].batch /\ s.made = ses[w].made /\ s.ids = ses[w].ids
    BY <2>1, <2>4, KeepSession
  <2> QED
    BY <2>2, <2>3, <2>4
<1> QED
  BY <1>2, <1>3 DEF RetryInv

LEMMA UnackedStep ==
  ASSUME RetryInv, LinkInv', NEW w \in Workers, ses[w].pc = "send", Unacked(w),
         copies' \in [Msgs -> Nat],
         \A m \in Msgs \ excused : Counted(m, hub', copies'[m])
  PROVE  RetryInv'
<1>1. ses[w] \in Session
  BY RetryTypes
<1>2. CASE ses[w].kind = "dial"
  <2> DEFINE s == [ses[w] EXCEPT !.pc = "end"]
  <2>1. /\ s \in Session /\ s.pc = "end" /\ s.batch = ses[w].batch
        /\ s.made = ses[w].made /\ s.ids = ses[w].ids
    BY <1>1 DEF Session
  <2>2. ses' = [ses EXCEPT ![w] = s] /\ msgid' = msgid /\ excused' = excused
    BY <1>2 DEF Unacked
  <2> HIDE DEF s
  <2> QED
    BY <2>1, <2>2, EndStep
<1>3. CASE ses[w].kind = "listen"
  <2> DEFINE s == [ses[w] EXCEPT !.pc = "end", !.batch = {}, !.made = {}]
  <2>1. s \in Session /\ s.pc = "end" /\ s.batch = {} /\ s.made = {}
    BY <1>1 DEF Session
  <2>2. /\ ses' = [ses EXCEPT ![w] = s] /\ excused \subseteq excused'
        /\ Save(w) \/ (msgid' = msgid /\ ses[w].made \subseteq excused')
    BY <1>3 DEF Unacked
  <2> HIDE DEF s
  <2> QED
    BY <2>1, <2>2, EndStep
<1> QED
  BY <1>2, <1>3 DEF Unacked

LEMMA AcceptedStep ==
  ASSUME RetryInv, LinkInv', NEW w \in Workers, SendAccepted(w)
  PROVE  RetryInv'
<1>1. ses[w] \in Session
  BY RetryTypes
<1>2. ses[w].pc = "send" /\ HubImports(w) /\ excused' = excused
  BY DEF SendAccepted
<1>3. \A m \in Msgs \ excused : Counted(m, hub', copies'[m])
  BY <1>2, ImportCounts
<1>4. copies' \in [Msgs -> Nat]
  BY <1>2 DEF HubImports, RetryInv
<1>5. CASE ses[w].kind = "listen"
  <2> DEFINE s == [ses[w] EXCEPT !.pc = "end", !.batch = {}, !.made = {}]
  <2>1. s \in Session /\ s.pc = "end" /\ s.batch = {} /\ s.made = {}
    BY <1>1 DEF Session
  <2>2. ses' = [ses EXCEPT ![w] = s] /\ Save(w)
    BY <1>5 DEF SendAccepted
  <2> HIDE DEF s
  <2> QED
    BY <1>2, <1>3, <1>4, <2>1, <2>2, EndStep
<1>6. CASE ses[w].kind # "listen"
  <2> DEFINE s == [ses[w] EXCEPT !.pc = "end", !.acked = TRUE]
  <2>1. /\ s \in Session /\ s.pc = "end" /\ s.batch = ses[w].batch
        /\ s.made = ses[w].made /\ s.ids = ses[w].ids
    BY <1>1 DEF Session
  <2>2. ses' = [ses EXCEPT ![w] = s] /\ msgid' = msgid
    BY <1>6 DEF SendAccepted
  <2> HIDE DEF s
  <2> QED
    BY <1>2, <1>3, <1>4, <2>1, <2>2, EndStep
<1> QED
  BY <1>5, <1>6

LEMMA StepRetries == RetryInv /\ [Next]_vars => RetryInv'
<1> SUFFICES ASSUME RetryInv, [Next]_vars PROVE RetryInv'
  OBVIOUS
<1>t. LinkInv' /\ copies \in [Msgs -> Nat]
  BY StepHolds DEF RetryInv
<1>s. /\ \A w \in Workers : ses[w] \in Session
      /\ \A w \in Workers : ses[w].pc \in {"idle", "insert", "gather"} =>
           ses[w].batch = {} /\ ses[w].made = {}
  BY RetryTypes DEF RetryInv, BatchesHeld
<1>0. ASSUME UNCHANGED <<ses, msgid, hub, copies, excused>> PROVE RetryInv'
  BY <1>0, <1>t DEF RetryInv, BatchesHeld, Tracked, Held, Unsaved, Saved, Counted, Known
<1>1. ASSUME NEW w \in Workers, NEW s \in Session, ses' = [ses EXCEPT ![w] = s],
             ses[w].pc \in {"idle", "insert", "gather"}, s.batch = {}, s.made = {},
             UNCHANGED <<msgid, hub, copies, excused>>
      PROVE  RetryInv'
  BY <1>1, <1>s, <1>t, IdleStep
<1>2. ASSUME NEW w \in Workers, PollCheck(w) PROVE RetryInv'
  <2> DEFINE s == [ses[w] EXCEPT !.pc = "insert"]
  <2>1. s \in Session /\ s.batch = {} /\ s.made = {}
    BY <1>2, <1>s DEF PollCheck, Session
  <2>2. ses' = [ses EXCEPT ![w] = s]
    BY <1>2 DEF PollCheck
  <2> HIDE DEF s
  <2> QED
    BY <1>1, <1>2, <2>1, <2>2 DEF PollCheck, ours, history
<1>3. ASSUME NEW w \in Workers, PollStart(w) PROVE RetryInv'
  <2> DEFINE s == [ses[w] EXCEPT !.pc = "gather"]
  <2>1. s \in Session /\ s.batch = {} /\ s.made = {}
    BY <1>3, <1>s DEF PollStart, Session
  <2>2. ses' = [ses EXCEPT ![w] = s]
    BY <1>3 DEF PollStart
  <2> HIDE DEF s
  <2> QED
    BY <1>1, <1>3, <2>1, <2>2 DEF PollStart, ours, history
<1>4. ASSUME NEW w \in Workers, Listen(w) PROVE RetryInv'
  <2> DEFINE s == [ses[w] EXCEPT !.pc = "gather", !.kind = "listen"]
  <2>1. s \in Session /\ s.batch = {} /\ s.made = {}
    BY <1>4, <1>s DEF Listen, Session
  <2>2. ses' = [ses EXCEPT ![w] = s]
    BY <1>4 DEF Listen
  <2> HIDE DEF s
  <2> QED
    BY <1>1, <1>4, <2>1, <2>2 DEF Listen, ours, history
<1>5. ASSUME NEW w \in Workers, ListenFails(w) PROVE RetryInv'
  BY <1>1, <1>5, NothingHeld DEF ListenFails, ours, history
<1>6. ASSUME NEW w \in Workers, SendAckLost(w) PROVE RetryInv'
  <2>1. ses[w].pc = "send" /\ HubImports(w) /\ Unacked(w)
    BY <1>6 DEF SendAckLost
  <2>2. copies' \in [Msgs -> Nat]
    BY <1>t, <2>1 DEF HubImports
  <2> QED
    BY <1>t, <2>1, <2>2, ImportCounts, UnackedStep
<1>7. ASSUME NEW w \in Workers, SendRefused(w) PROVE RetryInv'
  BY <1>7, <1>t, SameCount, UnackedStep DEF SendRefused
<1>8. ASSUME NEW w \in Workers, Finish(w) \/ PollFails(w) PROVE RetryInv'
  <2>1. /\ ses' = [ses EXCEPT ![w] = NoSession] /\ Save(w)
        /\ UNCHANGED <<hub, copies, excused>>
    BY <1>8 DEF Finish, PollFails, history
  <2> QED
    BY <1>t, <2>1, NothingHeld, SameCount, EndStep DEF NoSession
<1>9. ASSUME NEW w \in Workers, Die(w) PROVE RetryInv'
  <2>1. /\ ses' = [ses EXCEPT ![w] = NoSession] /\ excused' = excused \union ses[w].made
        /\ UNCHANGED <<msgid, hub, copies>>
    BY <1>9 DEF Die, ours
  <2> QED
    BY <1>t, <2>1, NothingHeld, SameCount, EndStep DEF NoSession
<1>10. CASE Pass
  BY <1>0, <1>10 DEF Pass, ours, history
<1>11. CASE Compose
  BY <1>0, <1>11 DEF Compose, history
<1>12. ASSUME NEW i \in DOMAIN log, Age(i) PROVE RetryInv'
  BY <1>0, <1>12 DEF Age, ours, history
<1>13. CASE UNCHANGED vars
  BY <1>0, <1>13 DEF vars, ours, history
<1>14. ASSUME NEW w \in Workers, Step(w) PROVE RetryInv'
  BY <1>3, <1>5, <1>6, <1>7, <1>8, <1>14, <1>t, GatherStep, PackStep, AcceptedStep DEF Step
<1> QED
  BY <1>2, <1>4, <1>9, <1>10, <1>11, <1>12, <1>13, <1>14 DEF Next

(* The hub imports a message twice only if two sessions packed it before an  *)
(* MSGID was saved, or the MSGID was lost with its session, for every number *)
(* of messages, sessions, seconds and failures.                             *)
THEOREM RetriesSafe == Spec => []RetriesRecognised
<1>1. RetryInv => RetriesRecognised
  <2> SUFFICES ASSUME RetryInv, NEW m \in Msgs, copies[m] > 1, m \notin excused PROVE FALSE
    BY DEF RetriesRecognised
  <2> QED
    BY DEF RetryInv, Tracked, Counted
<1> QED
  BY <1>1, InitRetry, StepRetries, PTL DEF Spec
-----------------------------------------------------------------------------
(* Types                                                                    *)

(* A session holds messages that were queued, and what it sends has MSGIDs. *)
BatchesTyped ==
  \A w \in Workers :
    /\ ses[w].batch \subseteq queued
    /\ ses[w].pc = "send" => \A m \in ses[w].batch : ses[w].ids[m] \in MsgIds

TypeInv == RetryInv /\ TypeOK /\ BatchesTyped

(* What is left of the poll log when a row has been closed.                 *)
LEMMA RowsLeft ==
  ASSUME log \in Seq(Rows), NEW w
  PROVE  Without(w) \in Seq(Rows)
<1>1. ASSUME NEW i \in DOMAIN log PROVE RemoveAt(log, i) \in Seq(Rows)
  <2>1. i \in 1 .. Len(log) /\ Len(log) \in Nat
    BY LenProperties
  <2>2. SubSeq(log, 1, i - 1) \in Seq(Rows)
    BY <2>1, SubSeqProperties
  <2>3. SubSeq(log, i + 1, Len(log)) \in Seq(Rows)
    BY <2>1, SubSeqProperties
  <2> QED
    BY <2>2, <2>3, ConcatProperties DEF RemoveAt
<1> QED
  BY <1>1 DEF Without

LEMMA NewRow ==
  ASSUME log \in Seq(Rows), NEW w \in Workers
  PROVE  Append(log, Running(w)) \in Seq(Rows)
  BY AppendProperties DEF Running, Rows

(* What RetryInv' says already.                                             *)
LEMMA TypedNow ==
  ASSUME RetryInv
  PROVE  /\ second \in 1 .. MaxSecond /\ queued \subseteq Msgs
         /\ msgid \in [Msgs -> MsgIds \union {NoId}]
         /\ ses \in [Workers -> Session] /\ copies \in [Msgs -> Nat]
         /\ \A w \in Workers : ses[w].made \subseteq ses[w].batch
  BY DEF RetryInv, LinkInv, Typed, BatchesHeld

LEMMA TypedNext ==
  ASSUME RetryInv'
  PROVE  (/\ second \in 1 .. MaxSecond /\ queued \subseteq Msgs
          /\ msgid \in [Msgs -> MsgIds \union {NoId}]
          /\ ses \in [Workers -> Session] /\ copies \in [Msgs -> Nat])'
  BY DEF RetryInv, LinkInv, Typed

LEMMA InitTypes == Init => TypeInv
<1> SUFFICES ASSUME Init PROVE TypeInv
  OBVIOUS
<1>1. RetryInv
  BY InitRetry
<1>2. log \in Seq(Rows)
  BY DEF Init
<1>3. faults \in 0 .. MaxFaults
  BY LinkAssumption DEF Init
<1> QED
  BY <1>1, <1>2, <1>3, TypedNow DEF Init, TypeInv, TypeOK, BatchesTyped, NoSession

(* A step that gives one session a new state.                               *)
LEMMA OneTyped ==
  ASSUME TypeInv, RetryInv', NEW w \in Workers, NEW s \in Session,
         ses' = [ses EXCEPT ![w] = s], UNCHANGED queued,
         s.batch \subseteq queued,
         s.pc = "send" => \A m \in s.batch : s.ids[m] \in MsgIds,
         log' \in Seq(Rows), faults' \in 0 .. MaxFaults,
         stamped' \subseteq queued, hub' \subseteq MsgIds,
         received' \subseteq queued, excused' \subseteq queued
  PROVE  TypeInv'
<1>1. (/\ second \in 1 .. MaxSecond /\ queued \subseteq Msgs
       /\ msgid \in [Msgs -> MsgIds \union {NoId}]
       /\ ses \in [Workers -> Session] /\ copies \in [Msgs -> Nat])'
  BY TypedNext
<1>2. \A v \in Workers : ses'[v] = IF v = w THEN s ELSE ses[v]
  BY TypedNow DEF TypeInv
<1>3. BatchesTyped'
  BY <1>2 DEF TypeInv, BatchesTyped
<1> QED
  BY <1>1, <1>3 DEF TypeInv, TypeOK

LEMMA ImportTypes ==
  ASSUME TypeInv, NEW w \in Workers, ses[w].pc = "send", HubImports(w)
  PROVE  hub' \subseteq MsgIds /\ received' \subseteq queued
  BY DEF TypeInv, TypeOK, BatchesTyped, HubImports

LEMMA StepTypes == TypeInv /\ [Next]_vars => TypeInv'
<1> SUFFICES ASSUME TypeInv, [Next]_vars PROVE TypeInv'
  OBVIOUS
<1>r. RetryInv'
  BY StepRetries DEF TypeInv
<1>t. /\ stamped \subseteq queued /\ log \in Seq(Rows) /\ hub \subseteq MsgIds
      /\ faults \in 0 .. MaxFaults /\ received \subseteq queued /\ excused \subseteq queued
  BY DEF TypeInv, TypeOK
<1>s. \A w \in Workers :
        /\ ses[w] \in Session /\ ses[w].batch \subseteq queued
        /\ ses[w].made \subseteq ses[w].batch
        /\ ses[w].pc = "send" => \A m \in ses[w].batch : ses[w].ids[m] \in MsgIds
  BY TypedNow DEF TypeInv, BatchesTyped
<1>n. /\ NoSession \in Session /\ NoSession.batch = {} /\ NoSession.pc = "idle"
  BY NoSessionTyped DEF NoSession
<1>1. ASSUME UNCHANGED <<queued, stamped, hub, faults, received, excused, ses>>,
             log' \in Seq(Rows)
      PROVE  TypeInv'
  <2>1. (/\ second \in 1 .. MaxSecond /\ queued \subseteq Msgs
         /\ msgid \in [Msgs -> MsgIds \union {NoId}]
         /\ ses \in [Workers -> Session] /\ copies \in [Msgs -> Nat])'
    BY <1>r, TypedNext
  <2>2. BatchesTyped'
    BY <1>1 DEF TypeInv, BatchesTyped
  <2> QED
    BY <1>1, <1>r, <1>t, <2>1, <2>2 DEF TypeInv, TypeOK
<1>2. CASE Pass
  BY <1>1, <1>2, <1>t DEF Pass, ours, history
<1>3. CASE Compose
  <2>1. queued \subseteq queued' /\ UNCHANGED <<stamped, log, ses, hub, faults, received, excused>>
    BY <1>3 DEF Compose, history
  <2>2. (/\ second \in 1 .. MaxSecond /\ queued \subseteq Msgs
         /\ msgid \in [Msgs -> MsgIds \union {NoId}]
         /\ ses \in [Workers -> Session] /\ copies \in [Msgs -> Nat])'
    BY <1>r, TypedNext
  <2>3. BatchesTyped'
    BY <2>1, <1>s DEF BatchesTyped
  <2> QED
    BY <1>r, <1>t, <2>1, <2>2, <2>3 DEF TypeInv, TypeOK
<1>4. ASSUME NEW i \in DOMAIN log, Age(i) PROVE TypeInv'
  <2>1. log' \in Seq(Rows)
    <3>1. /\ i \in 1 .. Len(log) /\ Len(log) \in Nat
          /\ log \in [1 .. Len(log) -> Rows]
      BY <1>t, LenProperties
    <3>2. [log[i] EXCEPT !.stale = TRUE] \in Rows
      BY <3>1 DEF Rows
    <3>3. log' = [log EXCEPT ![i] = [log[i] EXCEPT !.stale = TRUE]]
      BY <1>4 DEF Age
    <3>4. log' \in [1 .. Len(log) -> Rows]
      BY <3>1, <3>2, <3>3
    <3> QED
      BY <3>1, <3>4, SeqDef
  <2> QED
    BY <1>1, <1>4, <2>1 DEF Age, ours, history
<1>5. ASSUME NEW w \in Workers, PollCheck(w) PROVE TypeInv'
  <2> DEFINE s == [ses[w] EXCEPT !.pc = "insert"]
  <2>1. s \in Session /\ s.batch \subseteq queued /\ s.pc # "send"
    BY <1>s DEF Session
  <2>2. ses' = [ses EXCEPT ![w] = s]
    BY <1>5 DEF PollCheck
  <2>3. log' \in Seq(Rows)
    BY <1>5, <1>t, HeadTailProperties DEF PollCheck
  <2> HIDE DEF s
  <2> QED
    BY <1>5, <1>r, <1>t, <2>1, <2>2, <2>3, OneTyped DEF PollCheck, ours, history
<1>6. ASSUME NEW w \in Workers, PollStart(w) PROVE TypeInv'
  <2> DEFINE s == [ses[w] EXCEPT !.pc = "gather"]
  <2>1. s \in Session /\ s.batch \subseteq queued /\ s.pc # "send"
    BY <1>s DEF Session
  <2>2. ses' = [ses EXCEPT ![w] = s]
    BY <1>6 DEF PollStart
  <2>3. log' \in Seq(Rows)
    BY <1>6, <1>t, NewRow DEF PollStart
  <2> HIDE DEF s
  <2> QED
    BY <1>6, <1>r, <1>t, <2>1, <2>2, <2>3, OneTyped DEF PollStart, ours, history
<1>7. ASSUME NEW w \in Workers, Listen(w) PROVE TypeInv'
  <2> DEFINE s == [ses[w] EXCEPT !.pc = "gather", !.kind = "listen"]
  <2>1. s \in Session /\ s.batch \subseteq queued /\ s.pc # "send"
    BY <1>s DEF Session
  <2>2. ses' = [ses EXCEPT ![w] = s]
    BY <1>7 DEF Listen
  <2>3. log' \in Seq(Rows)
    BY <1>7, <1>t, NewRow DEF Listen
  <2> HIDE DEF s
  <2> QED
    BY <1>7, <1>r, <1>t, <2>1, <2>2, <2>3, OneTyped DEF Listen, ours, history
<1>8. ASSUME NEW w \in Workers, Gather(w) PROVE TypeInv'
  <2> DEFINE batch == queued \ stamped
             s == [ses[w] EXCEPT !.pc = IF batch = {} THEN "end" ELSE "pack",
                                 !.batch = batch,
                                 !.ids = [m \in Msgs |-> IF m \in batch THEN msgid[m] ELSE NoId]]
  <2>1. queued \subseteq Msgs /\ msgid \in [Msgs -> MsgIds \union {NoId}]
    BY TypedNow DEF TypeInv
  <2>2. s \in Session /\ s.batch \subseteq queued /\ s.pc # "send"
    BY <1>s, <2>1 DEF Session, NoId
  <2>3. ses' = [ses EXCEPT ![w] = s] /\ excused' \subseteq queued
    BY <1>8, <1>t DEF Gather
  <2> HIDE DEF s
  <2> QED
    BY <1>8, <1>r, <1>t, <2>2, <2>3, OneTyped DEF Gather, ours
<1>9. ASSUME NEW w \in Workers, Pack(w) PROVE TypeInv'
  <2> DEFINE blank == {m \in ses[w].batch : ses[w].ids[m] = NoId}
             s == [ses[w] EXCEPT !.pc = "send", !.made = blank,
                     !.ids = [m \in Msgs |-> IF m \in blank THEN second ELSE ses[w].ids[m]]]
  <2>1. second \in MsgIds /\ ses[w] \in Session /\ ses[w].batch \subseteq queued
    BY <1>s, TypedNow DEF TypeInv, MsgIds
  <2>2. /\ s \in Session /\ s.batch = ses[w].batch
        /\ \A m \in s.batch : s.ids[m] \in MsgIds
    BY <2>1 DEF Session
  <2>3. ses' = [ses EXCEPT ![w] = s]
    BY <1>9 DEF Pack
  <2> HIDE DEF s
  <2> QED
    BY <1>9, <1>r, <1>t, <2>1, <2>2, <2>3, OneTyped DEF Pack, ours, history
<1>10. ASSUME NEW w \in Workers, SendAccepted(w) PROVE TypeInv'
  <2>1. /\ hub' \subseteq MsgIds /\ received' \subseteq queued
        /\ UNCHANGED <<queued, log, faults, excused>>
    BY <1>10, ImportTypes DEF SendAccepted
  <2>2. CASE ses[w].kind = "listen"
    <3> DEFINE s == [ses[w] EXCEPT !.pc = "end", !.batch = {}, !.made = {}]
    <3>1. s \in Session /\ s.batch \subseteq queued /\ s.pc # "send"
      BY <1>s DEF Session
    <3>2. ses' = [ses EXCEPT ![w] = s] /\ stamped' \subseteq queued
      BY <1>10, <1>s, <1>t, <2>2 DEF SendAccepted
    <3> HIDE DEF s
    <3> QED
      BY <1>r, <1>t, <2>1, <3>1, <3>2, OneTyped
  <2>3. CASE ses[w].kind # "listen"
    <3> DEFINE s == [ses[w] EXCEPT !.pc = "end", !.acked = TRUE]
    <3>1. s \in Session /\ s.batch \subseteq queued /\ s.pc # "send"
      BY <1>s DEF Session
    <3>2. ses' = [ses EXCEPT ![w] = s] /\ stamped' = stamped
      BY <1>10, <2>3 DEF SendAccepted
    <3> HIDE DEF s
    <3> QED
      BY <1>r, <1>t, <2>1, <3>1, <3>2, OneTyped
  <2> QED
    BY <2>2, <2>3
<1>11. ASSUME NEW w \in Workers, Unacked(w), hub' \subseteq MsgIds,
              received' \subseteq queued, UNCHANGED <<queued, stamped, log, faults>>
       PROVE  TypeInv'
  <2>1. excused' \subseteq queued
    BY <1>11, <1>s, <1>t DEF Unacked
  <2>2. CASE ses[w].kind = "dial"
    <3> DEFINE s == [ses[w] EXCEPT !.pc = "end"]
    <3>1. s \in Session /\ s.batch \subseteq queued /\ s.pc # "send"
      BY <1>s DEF Session
    <3>2. ses' = [ses EXCEPT ![w] = s]
      BY <1>11, <2>2 DEF Unacked
    <3> HIDE DEF s
    <3> QED
      BY <1>11, <1>r, <1>t, <2>1, <3>1, <3>2, OneTyped
  <2>3. CASE ses[w].kind = "listen"
    <3> DEFINE s == [ses[w] EXCEPT !.pc = "end", !.batch = {}, !.made = {}]
    <3>1. s \in Session /\ s.batch \subseteq queued /\ s.pc # "send"
      BY <1>s DEF Session
    <3>2. ses' = [ses EXCEPT ![w] = s]
      BY <1>11, <2>3 DEF Unacked
    <3> HIDE DEF s
    <3> QED
      BY <1>11, <1>r, <1>t, <2>1, <3>1, <3>2, OneTyped
  <2> QED
    BY <1>11, <2>2, <2>3 DEF Unacked
<1>12. ASSUME NEW w \in Workers, SendAckLost(w) PROVE TypeInv'
  BY <1>11, <1>12, <1>t, ImportTypes DEF SendAckLost
<1>13. ASSUME NEW w \in Workers, SendRefused(w) PROVE TypeInv'
  BY <1>11, <1>13, <1>t DEF SendRefused
<1>14. ASSUME NEW w \in Workers, Finish(w) \/ PollFails(w) \/ ListenFails(w)
       PROVE  TypeInv'
  <2>1. /\ ses' = [ses EXCEPT ![w] = NoSession] /\ log' = Without(w)
        /\ stamped' \subseteq stamped \union ses[w].batch
        /\ UNCHANGED <<queued, hub, faults, received, excused>>
    BY <1>14 DEF Finish, PollFails, ListenFails, ours, history
  <2>2. log' \in Seq(Rows) /\ stamped' \subseteq queued
    BY <1>s, <1>t, <2>1, RowsLeft
  <2> QED
    BY <1>n, <1>r, <1>t, <2>1, <2>2, OneTyped
<1>15. ASSUME NEW w \in Workers, Die(w) PROVE TypeInv'
  <2>1. /\ ses' = [ses EXCEPT ![w] = NoSession]
        /\ excused' = excused \union ses[w].made
        /\ UNCHANGED <<queued, stamped, hub, received>>
    BY <1>15 DEF Die, ours
  <2>2. faults' \in 0 .. MaxFaults
    BY <1>15, <1>t, LinkAssumption DEF Die
  <2>3. log' \in Seq(Rows)
    <3>1. Len(log) \in Nat /\ DOMAIN log = 1 .. Len(log) /\ log \in [1 .. Len(log) -> Rows]
      BY <1>t, LenProperties
    <3>2. \A i \in 1 .. Len(log) : [log[i] EXCEPT !.owner = Nobody] \in Rows
      BY <3>1 DEF Rows
    <3>3. log' \in [1 .. Len(log) -> Rows]
      BY <1>15, <3>1, <3>2 DEF Die
    <3> QED
      BY <3>1, <3>3, SeqDef
  <2>4. excused' \subseteq queued
    BY <1>s, <1>t, <2>1
  <2> QED
    BY <1>n, <1>r, <1>t, <2>1, <2>2, <2>3, <2>4, OneTyped
<1>16. CASE UNCHANGED vars
  BY <1>1, <1>16, <1>t DEF vars, ours, history
<1>17. ASSUME NEW w \in Workers, Step(w) PROVE TypeInv'
  BY <1>6, <1>8, <1>9, <1>10, <1>12, <1>13, <1>14, <1>17 DEF Step
<1> QED
  BY <1>2, <1>3, <1>4, <1>5, <1>7, <1>15, <1>16, <1>17 DEF Next

(* The types of the link's state hold for every number of messages, workers, *)
(* seconds and failures; among them that only queued messages are stamped    *)
(* or received (_do_poll, _handle_connection).                               *)
THEOREM TypeCorrect == Spec => []TypeOK
<1>1. TypeInv => TypeOK
  BY DEF TypeInv
<1> QED
  BY <1>1, InitTypes, StepTypes, PTL DEF Spec
-----------------------------------------------------------------------------
(* Forwarding                                                               *)

PromiseInv == LinkInv /\ TypeInv

PromiseStep == [Promise!Next]_(Promise!vars)

LEMMA QuietPromise ==
  ASSUME UNCHANGED <<queued, stamped, received>>
  PROVE  PromiseStep
BY DEF PromiseStep, Promise!vars

(* A batch is made of messages.                                             *)
LEMMA BatchInMsgs ==
  ASSUME PromiseInv, NEW w \in Workers
  PROVE  ses[w].batch \in SUBSET Msgs
BY DEF PromiseInv, LinkInv, Typed, Session

LEMMA ComposePromise ==
  ASSUME PromiseInv, Compose
  PROVE  PromiseStep
<1>1. PICK m \in Msgs \ queued : queued' = queued \union {m}
  BY DEF Compose
<1>2. stamped' = stamped /\ received' = received /\ stamped \subseteq queued
  BY DEF Compose, history, PromiseInv, TypeInv, TypeOK
<1>3. Promise!Owe({m}) /\ {m} \in SUBSET Msgs
  BY <1>1, <1>2 DEF Promise!Owe
<1> QED
  BY <1>3 DEF PromiseStep, Promise!Next

(* The hub imports the packet; only the listener stamps at once.            *)
LEMMA SendPromise ==
  ASSUME PromiseInv, NEW w \in Workers, SendAccepted(w) \/ SendAckLost(w)
  PROVE  PromiseStep
<1> DEFINE D == ses[w].batch
<1>1. D \in SUBSET Msgs /\ received' = received \union D /\ queued' = queued
  BY BatchInMsgs, ImportReceives DEF SendAccepted, SendAckLost
<1>2. stamped' = stamped \/ stamped' = stamped \union D
  BY DEF SendAccepted, SendAckLost
<1> HIDE DEF D
<1>3. CASE stamped' = stamped
  <2>1. Promise!Receive(D)
    BY <1>1, <1>3 DEF Promise!Receive
  <2> QED
    BY <1>1, <2>1 DEF PromiseStep, Promise!Next
<1>4. CASE stamped' = stamped \union D
  <2>1. Promise!Deliver(D)
    BY <1>1, <1>4 DEF Promise!Deliver
  <2> QED
    BY <1>1, <2>1 DEF PromiseStep, Promise!Next
<1> QED
  BY <1>2, <1>3, <1>4

(* The poller stamps what the hub acknowledged, and therefore has.          *)
LEMMA FinishPromise ==
  ASSUME PromiseInv, NEW w \in Workers, Finish(w)
  PROVE  PromiseStep
<1>1. queued' = queued /\ received' = received
  BY DEF Finish, history
<1>2. CASE ses[w].acked
  <2> DEFINE D == ses[w].batch
  <2>1. D \in SUBSET Msgs /\ D \subseteq received /\ stamped' = stamped \union D
    BY <1>2, BatchInMsgs DEF Finish, PromiseInv, LinkInv, AckedReceived
  <2> HIDE DEF D
  <2>2. Promise!Settle(D)
    BY <1>1, <2>1 DEF Promise!Settle
  <2> QED
    BY <2>1, <2>2 DEF PromiseStep, Promise!Next
<1>3. CASE ~ ses[w].acked
  BY <1>1, <1>3, QuietPromise DEF Finish
<1> QED
  BY <1>2, <1>3

LEMMA StepPromise == PromiseInv /\ [Next]_vars => PromiseInv' /\ PromiseStep
<1> SUFFICES ASSUME PromiseInv, [Next]_vars PROVE PromiseStep
  BY StepHolds, StepTypes DEF PromiseInv
<1> USE DEF ours, history
<1>1. CASE Compose
  BY <1>1, ComposePromise
<1>2. ASSUME NEW w \in Workers, SendAccepted(w) \/ SendAckLost(w) PROVE PromiseStep
  BY <1>2, SendPromise
<1>3. ASSUME NEW w \in Workers, Finish(w) PROVE PromiseStep
  BY <1>3, FinishPromise
<1>4. ASSUME NEW w \in Workers,
             \/ PollCheck(w) \/ Listen(w) \/ PollStart(w) \/ Gather(w) \/ Pack(w)
             \/ SendRefused(w) \/ PollFails(w) \/ ListenFails(w) \/ Die(w)
      PROVE  PromiseStep
  <2>1. UNCHANGED <<queued, stamped, received>>
    BY <1>4 DEF PollCheck, Listen, PollStart, Gather, Pack, SendRefused, PollFails,
       ListenFails, Die
  <2> QED
    BY <2>1, QuietPromise
<1>5. CASE Pass \/ (\E i \in DOMAIN log : Age(i)) \/ UNCHANGED vars
  <2>1. UNCHANGED <<queued, stamped, received>>
    BY <1>5 DEF Pass, Age, vars
  <2> QED
    BY <2>1, QuietPromise
<1> QED
  BY <1>1, <1>2, <1>3, <1>4, <1>5 DEF Next, Step

(* A message queued for the hub stays queued until the hub has it: every    *)
(* behaviour of the link is one of Forwarding, whatever polls and calls     *)
(* overlap, fail or die (UpstreamLink!ForwardingSpec).                      *)
THEOREM ImplementsForwarding == Spec => ForwardingSpec
<1>1. Init => PromiseInv /\ Promise!Init
  <2>1. Init => PromiseInv
    BY InitHolds, InitTypes DEF PromiseInv
  <2>2. Init => Promise!Init
    BY DEF Init, Promise!Init
  <2> QED
    BY <2>1, <2>2
<1>2. PromiseInv /\ [Next]_vars => PromiseInv' /\ [Promise!Next]_(Promise!vars)
  BY StepPromise DEF PromiseStep
<1> QED
  BY <1>1, <1>2, PTL DEF Spec, ForwardingSpec, Promise!Spec
=============================================================================
