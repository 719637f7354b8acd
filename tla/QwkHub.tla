------------------------------- MODULE QwkHub -------------------------------
(***************************************************************************)
(* The hub side of QWK: a node fetches a packet with the messages above    *)
(* the high-water mark of each of its subscriptions, over HTTP or as a     *)
(* file written when it logs in over FTP, and uploads REP packets the same *)
(* two ways.  HTTP requests run side by side; the FTP server answers all   *)
(* its clients from one thread, so its handler runs one at a time, but     *)
(* beside the HTTP requests.  A request reads the marks, builds, and       *)
(* writes the marks back later: the two halves are separate actions.       *)
(*                                                                         *)
(* Sources: web/qwk_hub.py, echomail/qwk_hub_ftp.py, the callbacks of      *)
(* ftp/server.py, the subscription routes of web/hub_admin.py and          *)
(* delete_message of web/echomail.py.                                      *)
(***************************************************************************)
EXTENDS Naturals, FiniteSets, Sequences, Functions

CONSTANTS
  Nodes,       \* QWK nodes (QWKNode rows)
  Areas,       \* echo areas
  TagNumber,   \* the number an area's tag spells, 0 if it spells none
  Keys,        \* MSGIDs a node's own messages carry
  StartRows,   \* subscriptions made before, in the order of their ids
  Reps,        \* the REP packets nodes upload: sequences of [conf, key]
  Composed,    \* the MSGID of no uploaded message: mail from elsewhere
  Requests,    \* HTTP requests that can be open at once
  Ftp,         \* the FTP server's thread
  Batch,       \* messages of one area an FTP packet takes at most (500)
  MaxMessages, \* bound: messages ever stored
  MaxRows,     \* bound: ids of subscription rows
  MaxEdits,    \* bound: operations of the sysop
  MaxFaults,   \* bound: requests that die, tosses that raise
  EditsDuringDownload, \* the sysop may act between the halves of a download
  OverlappingUploads   \* two uploads may be open at once

Workers == Requests \union {Ftp}
Ids == 1 .. MaxMessages
Marks == 0 .. MaxMessages          \* 0 stands for NULL: nothing sent yet
RowIds == 1 .. MaxRows

ASSUME QwkBounds ==
  /\ Batch \in Nat \ {0}
  /\ MaxMessages \in Nat /\ MaxRows \in Nat /\ MaxEdits \in Nat /\ MaxFaults \in Nat
  /\ EditsDuringDownload \in BOOLEAN /\ OverlappingUploads \in BOOLEAN

ASSUME QwkNames ==
  /\ Nodes # {} /\ IsFiniteSet(Requests)
  /\ Ftp \notin Requests
  /\ Composed \notin Keys
  /\ TagNumber \in [Areas -> Nat]
  /\ Reps \subseteq Seq([conf : Nat, key : Keys])
  /\ \A rep \in Reps : Len(rep) <= MaxMessages

(* serial tells two messages that got the same id apart; it is not stored.  *)
Message == [area : Areas, key : Keys \union {Composed}, serial : Ids]

(* A QWKNodeLastSent row: the subscription and its high-water mark.         *)
Subscription == [node : Nodes, area : Areas, conf : Nat, mark : Marks]

ASSUME QwkStart ==
  /\ DOMAIN StartRows \subseteq RowIds
  /\ StartRows \in [DOMAIN StartRows -> Subscription]
  /\ \A i \in DOMAIN StartRows : StartRows[i].mark = 0

(* The mark a download is going to write, to the row it was computed from.  *)
NewMark == [row : RowIds, area : Areas, upto : Ids]

VARIABLES
  messages, \* the EchomailMessage rows by id
  rows,     \* the QWKNodeLastSent rows by id
  open,     \* areas with is_active
  work,     \* what each request and the FTP thread are doing
  file,     \* serials in the packet file of each node's directory
  edits, faults

(* Not in the program: what happened.                                       *)
VARIABLES
  serials,  \* messages ever stored
  packed,   \* <<node, serial>>: put into a packet built for the node
  received, \* <<node, serial>>: in a packet that reached the node
  lost,     \* in an answer that did not, or in a file replaced by the next
  uploaded, \* serials stored from REP packets
  tossed    \* of these, the ones handed to the tosser

boundVars == <<edits, faults>>
historyVars == <<serials, packed, received, lost, uploaded, tossed>>
vars == <<messages, rows, open, work, file, boundVars, historyVars>>

Work ==
  [pc     : {"idle", "built", "answer", "read", "stored"},
   node   : Nodes,
   packet : SUBSET Ids,         \* serials of the packet being built or sent
   marks  : SUBSET NewMark,
   rep    : UNION {[S -> [area : Areas, key : Keys]] : S \in SUBSET Ids},
                                \* still to be stored, by the place in the packet
   known  : BOOLEAN,            \* the first of rep was found in the database
   fresh  : SUBSET Ids]         \* serials stored, for the tosser

Idle ==
  [pc |-> "idle", node |-> CHOOSE n \in Nodes : TRUE, packet |-> {}, marks |-> {},
   rep |-> << >>, known |-> FALSE, fresh |-> {}]

Finish(w) == work' = [work EXCEPT ![w] = Idle]

NewestOf(S) == CHOOSE m \in S : \A k \in S : k <= m

(* Mutant of NextId: the first id is 0, which stands for NULL.              *)
NextIdFromZero(S) == IF S = {} THEN 0 ELSE NewestOf(S) + 1

(* An INTEGER PRIMARY KEY without AUTOINCREMENT: one above the largest.     *)
NextId(S) == IF S = {} THEN 1 ELSE NewestOf(S) + 1

(* Room for more messages, those of open uploads counted (a bound).         *)
Room(n) ==
  LET due == {p \in Workers \X Ids : p[2] \in DOMAIN work[p[1]].rep}
  IN serials + n + Cardinality(due) <= MaxMessages

RowsOf(n) == {i \in DOMAIN rows : rows[i].node = n}

(* Mutant of Unsent: the mark is compared even when it is NULL, and in SQL  *)
(* no id is above NULL.                                                     *)
UnsentIfMarked(i) ==
  {m \in DOMAIN messages :
     messages[m].area = rows[i].area /\ rows[i].mark # 0 /\ m > rows[i].mark}

(* Messages of a row's area above its mark.                                 *)
Unsent(i) ==
  {m \in DOMAIN messages : messages[m].area = rows[i].area /\ m > rows[i].mark}

Serials(S) == {messages[m].serial : m \in S}

(* The rows whose messages make it into a packet: both builders keep one    *)
(* list per conference number, so of two areas with one number the later    *)
(* one replaces the other.                                                  *)
OnePerConf(S) ==
  {T \in SUBSET S : \A i \in S : \E j \in T : /\ rows[j].conf = rows[i].conf
                                             /\ \A k \in T : rows[k].conf = rows[j].conf => k = j}

(* Mutant of MarksFor: the newest message of the area, taken or not.        *)
MarksForNewest(S, taken) ==
  {[row |-> i, area |-> rows[i].area, upto |-> NewestOf(Unsent(i))] : i \in S}

(* The mark each row gets: the last message taken from its area.            *)
MarksFor(S, taken) ==
  {[row |-> i, area |-> rows[i].area, upto |-> NewestOf(taken[i])] : i \in S}

AdminMayAct == EditsDuringDownload \/ \A w \in Workers : work[w].pc # "built"

-----------------------------------------------------------------------------
Init ==
  /\ messages = << >>
  /\ rows = StartRows
  /\ open = Areas
  /\ work = [w \in Workers |-> Idle]
  /\ file = [n \in Nodes |-> {}]
  /\ edits = 0 /\ faults = 0
  /\ serials = 0
  /\ packed = {} /\ received = {} /\ lost = {} /\ uploaded = {} /\ tossed = {}

(* Mail from a user or another peer.                                        *)
Post(a) ==
  /\ Room(1)
  /\ serials' = serials + 1
  /\ messages' = [m \in DOMAIN messages \union {NextId(DOMAIN messages)} |->
                    IF m \in DOMAIN messages THEN messages[m]
                    ELSE [area |-> a, key |-> Composed, serial |-> serials + 1]]
  /\ UNCHANGED <<rows, open, work, file, boundVars, packed, received, lost, uploaded, tossed>>

-----------------------------------------------------------------------------
(* Downloads                                                                *)

Built(w, n, winners, marked, taken) ==
  LET packet == UNION {Serials(taken[i]) : i \in winners}
  IN /\ work' = [work EXCEPT ![w] = [Idle EXCEPT !.pc = "built", !.node = n,
                                       !.packet = packet,
                                       !.marks = MarksFor(marked, taken)]]
     /\ packed' = packed \union ({n} \X packet)

(* _build_qwk_hub_packet: everything unsent of the active areas.  Only what *)
(* went into the packet is marked.                                          *)
HttpBuild(w, n) ==
  /\ w \in Requests /\ work[w].pc = "idle"
  /\ \E winners \in OnePerConf({i \in RowsOf(n) : rows[i].area \in open}) :
       Built(w, n, winners, {i \in winners : Unsent(i) # {}},
             [i \in DOMAIN rows |-> Unsent(i)])
  /\ UNCHANGED <<messages, rows, open, file, boundVars, serials, received, lost, uploaded, tossed>>

(* The first Batch of them.                                                 *)
Oldest(S) == {m \in S : Cardinality({k \in S : k <= m}) <= Batch}

(* generate_node_packet: at most Batch messages of an area.  Every area     *)
(* that has some is marked.  A node without subscriptions gets an empty     *)
(* packet.  The file replaces the one of the last login.                    *)
FtpBuild(n) ==
  LET taken == [i \in DOMAIN rows |-> Oldest(Unsent(i))]
      some == {i \in RowsOf(n) : rows[i].area \in open /\ Unsent(i) # {}}
  IN /\ work[Ftp].pc = "idle"
     /\ \E winners \in OnePerConf(some) :
          /\ Built(Ftp, n, winners, some, taken)
          /\ file' = [file EXCEPT ![n] = UNION {Serials(taken[i]) : i \in winners}]
     /\ lost' = lost \union (({n} \X file[n]) \ received)
     /\ UNCHANGED <<messages, rows, open, boundVars, serials, received, uploaded, tossed>>

(* Every row is given one of its new marks, if it has any.                  *)
SetMarks(new) ==
  rows' = [i \in DOMAIN rows |->
             IF new[i] = {} THEN rows[i]
             ELSE [rows[i] EXCEPT !.mark = (CHOOSE k \in new[i] : TRUE).upto]]

(* mark_qwk_sent: assigns the marks, on the rows the node has by now, and   *)
(* commits; the answer goes out after that.                                 *)
HttpMark(w) ==
  /\ w \in Requests /\ work[w].pc = "built"
  /\ SetMarks([i \in DOMAIN rows |->
                {k \in work[w].marks : rows[i].node = work[w].node /\ rows[i].area = k.area}])
  /\ work' = [work EXCEPT ![w].pc = "answer", ![w].marks = {}]
  /\ UNCHANGED <<messages, open, file, boundVars, historyVars>>

HttpAnswered(w) ==
  /\ w \in Requests /\ work[w].pc = "answer"
  /\ received' = received \union ({work[w].node} \X work[w].packet)
  /\ Finish(w)
  /\ UNCHANGED <<messages, rows, open, file, boundVars, serials, packed, lost, uploaded, tossed>>

(* The process dies, or the connection breaks before the node has it all.   *)
HttpLost(w) ==
  /\ w \in Requests /\ work[w].pc \in {"built", "answer"}
  /\ faults < MaxFaults /\ faults' = faults + 1
  /\ lost' = IF work[w].pc = "answer" THEN lost \union ({work[w].node} \X work[w].packet)
             ELSE lost
  /\ Finish(w)
  /\ UNCHANGED <<messages, rows, open, file, edits, serials, packed, received, uploaded, tossed>>

(* The rows read before are written by their ids.  When one is gone the     *)
(* whole flush fails and no mark moves; the file stays.                     *)
FtpMark ==
  /\ work[Ftp].pc = "built"
  /\ LET new == work[Ftp].marks
         there == {k.row : k \in new} \subseteq DOMAIN rows
     IN \/ there /\ SetMarks([i \in DOMAIN rows |-> {k \in new : k.row = i}])
        \/ ~ there /\ UNCHANGED rows
  /\ Finish(Ftp)
  /\ UNCHANGED <<messages, open, file, boundVars, historyVars>>

(* Writing the file or committing raises.                                   *)
FtpMarkFails ==
  /\ work[Ftp].pc = "built"
  /\ faults < MaxFaults /\ faults' = faults + 1
  /\ Finish(Ftp)
  /\ UNCHANGED <<messages, rows, open, file, edits, historyVars>>

(* RETR of whatever file is there; the node may also hang up without it.    *)
FtpFetch(n) ==
  /\ work[Ftp].pc = "idle" /\ file[n] # {}
  /\ received' = received \union ({n} \X file[n])
  /\ UNCHANGED <<messages, rows, open, work, file, boundVars, serials, packed, lost, uploaded, tossed>>

-----------------------------------------------------------------------------
(* Uploads                                                                  *)

(* The areas a conference number of the node may stand for.                 *)
AreasOf(n, c) == {rows[i].area : i \in {j \in RowsOf(n) : rows[j].conf = c}}

Stored(a, key) == \E m \in DOMAIN messages : messages[m].area = a /\ messages[m].key = key

(* The messages of a packet whose conference has an area, by their place.   *)
Addressed(rep, area) ==
  [i \in {j \in DOMAIN rep : rep[j].conf \in DOMAIN area} |->
     [area |-> area[rep[i].conf], key |-> rep[i].key]]

IsFirst(i, rep) == \A j \in DOMAIN rep : i <= j

(* The packet is parsed, messages of unknown conferences are dropped, and   *)
(* the first one is looked up.  Nothing is locked yet.                      *)
RepRead(w, n, rep) ==
  /\ work[w].pc = "idle" /\ Room(Len(rep))
  /\ OverlappingUploads \/ \A v \in Workers : work[v].pc # "read"
  /\ \E area \in [{c \in {rep[i].conf : i \in DOMAIN rep} : AreasOf(n, c) # {}} -> Areas] :
       /\ \A c \in DOMAIN area : area[c] \in AreasOf(n, c)
       /\ LET todo == Addressed(rep, area)
          IN \E i \in DOMAIN todo :
               /\ IsFirst(i, todo)
               /\ work' = [work EXCEPT ![w] = [Idle EXCEPT !.pc = "read", !.node = n,
                                                 !.rep = todo,
                                                 !.known = Stored(todo[i].area, todo[i].key)]]
  /\ UNCHANGED <<messages, rows, open, file, boundVars, historyVars>>

(* Mutant of Kept: uploads are stored without looking the MSGID up.         *)
KeptBlind(rep, known) == DOMAIN rep

(* The indexes of rep that are new: the first as looked up before the write *)
(* lock was taken, the others as they are found under it.                   *)
Kept(rep, known) ==
  {i \in DOMAIN rep :
     IF IsFirst(i, rep) THEN ~ known
     ELSE /\ ~ Stored(rep[i].area, rep[i].key)
          /\ \A j \in DOMAIN rep : j < i => rep[j] # rep[i]}

(* All of the packet's messages are inserted and committed.                 *)
RepStore(w) ==
  /\ work[w].pc = "read"
  /\ LET rep == work[w].rep
         kept == Kept(rep, work[w].known)
         rank(i) == Cardinality({j \in kept : j < i})
         first == NextId(DOMAIN messages)
         new == [m \in {first + rank(i) : i \in kept} |->
                   LET i == CHOOSE j \in kept : first + rank(j) = m
                   IN [area |-> rep[i].area, key |-> rep[i].key,
                       serial |-> serials + 1 + rank(i)]]
         fresh == {new[m].serial : m \in DOMAIN new}
     IN /\ serials + Cardinality(kept) <= MaxMessages
        /\ serials' = serials + Cardinality(kept)
        /\ messages' = [m \in DOMAIN messages \union DOMAIN new |->
                          IF m \in DOMAIN new THEN new[m] ELSE messages[m]]
        /\ uploaded' = uploaded \union fresh
        /\ work' = [work EXCEPT ![w] = [Idle EXCEPT !.pc = "stored", !.node = work[w].node,
                                          !.fresh = fresh]]
  /\ UNCHANGED <<rows, open, file, boundVars, packed, received, lost, tossed>>

(* process_rep_upload tosses what it stored, in order, until one raises.    *)
FtpToss ==
  /\ work[Ftp].pc = "stored"
  /\ tossed' = tossed \union work[Ftp].fresh
  /\ Finish(Ftp)
  /\ UNCHANGED <<messages, rows, open, file, boundVars, serials, packed, received, lost, uploaded>>

FtpTossFails ==
  /\ work[Ftp].pc = "stored" /\ work[Ftp].fresh # {}
  /\ faults < MaxFaults /\ faults' = faults + 1
  /\ \E s \in work[Ftp].fresh : tossed' = tossed \union {k \in work[Ftp].fresh : k < s}
  /\ Finish(Ftp)
  /\ UNCHANGED <<messages, rows, open, file, edits, serials, packed, received, lost, uploaded>>

(* import_rep_packet means to toss the new objects of the session, but the  *)
(* savepoints have flushed them all: there are none left to toss.           *)
HttpToss(w) ==
  /\ w \in Requests /\ work[w].pc = "stored"
  /\ Finish(w)
  /\ UNCHANGED <<messages, rows, open, file, boundVars, historyVars>>

-----------------------------------------------------------------------------
(* The sysop                                                                *)

(* _qwk_conf_number_for: the tag's number, else one above the node's        *)
(* largest.                                                                 *)
ConfFor(n, a) ==
  IF TagNumber[a] # 0 THEN TagNumber[a]
  ELSE NextId({rows[i].conf : i \in RowsOf(n)})

Edit == edits < MaxEdits /\ edits' = edits + 1 /\ AdminMayAct

Subscribe(n, a) ==
  /\ Edit
  /\ \A i \in RowsOf(n) : rows[i].area # a
  /\ NextId(DOMAIN rows) \in RowIds
  /\ rows' = [i \in DOMAIN rows \union {NextId(DOMAIN rows)} |->
                IF i \in DOMAIN rows THEN rows[i]
                ELSE [node |-> n, area |-> a, conf |-> ConfFor(n, a), mark |-> 0]]
  /\ UNCHANGED <<messages, open, work, file, faults, historyVars>>

Unsubscribe(i) ==
  /\ Edit /\ i \in DOMAIN rows
  /\ rows' = Restrict(rows, DOMAIN rows \ {i})
  /\ UNCHANGED <<messages, open, work, file, faults, historyVars>>

(* qwk_reset_hwm                                                            *)
ResetMark(i) ==
  /\ Edit /\ i \in DOMAIN rows
  /\ rows' = [rows EXCEPT ![i].mark = 0]
  /\ UNCHANGED <<messages, open, work, file, faults, historyVars>>

SwitchArea(a) ==
  /\ Edit
  /\ open' = IF a \in open THEN open \ {a} ELSE open \union {a}
  /\ UNCHANGED <<messages, rows, work, file, faults, historyVars>>

(* Mutant of WithoutMark: deleting a message leaves the marks alone.        *)
MarksKept(m) == rows

(* Every mark that points at the message becomes NULL.                      *)
WithoutMark(m) ==
  [i \in DOMAIN rows |-> IF rows[i].mark = m THEN [rows[i] EXCEPT !.mark = 0] ELSE rows[i]]

(* delete_message                                                           *)
Delete(m) ==
  /\ Edit /\ m \in DOMAIN messages
  /\ messages' = Restrict(messages, DOMAIN messages \ {m})
  /\ rows' = WithoutMark(m)
  /\ UNCHANGED <<open, work, file, faults, historyVars>>

-----------------------------------------------------------------------------
Download(w) ==
  \/ \E n \in Nodes : HttpBuild(w, n)
  \/ HttpMark(w) \/ HttpAnswered(w) \/ HttpLost(w)

Login ==
  \/ \E n \in Nodes : FtpBuild(n) \/ FtpFetch(n)
  \/ FtpMark \/ FtpMarkFails

Upload(w) ==
  \/ \E n \in Nodes, rep \in Reps : RepRead(w, n, rep)
  \/ RepStore(w) \/ HttpToss(w)

Sysop ==
  \/ \E n \in Nodes, a \in Areas : Subscribe(n, a)
  \/ \E i \in RowIds : Unsubscribe(i) \/ ResetMark(i)
  \/ \E a \in Areas : SwitchArea(a)
  \/ \E m \in Ids : Delete(m)

Next ==
  \/ \E a \in Areas : Post(a)
  \/ \E w \in Requests : Download(w)
  \/ Login
  \/ \E w \in Workers : Upload(w)
  \/ FtpToss \/ FtpTossFails
  \/ Sysop

(* A node polls again and again, over FTP or HTTP as it is set up; both     *)
(* servers take connections in the order they come, so it gets its turn     *)
(* however many uploads there are; a handler that has started runs on.      *)
Fairness ==
  /\ \A n \in Nodes : SF_vars(FtpBuild(n) \/ \E w \in Requests : HttpBuild(w, n))
  /\ \A w \in Requests : WF_vars(HttpMark(w) \/ HttpAnswered(w) \/ HttpToss(w))
  /\ \A w \in Workers : WF_vars(RepStore(w))
  /\ WF_vars(FtpMark \/ FtpToss)

Spec == Init /\ [][Next]_vars

FairSpec == Spec /\ Fairness
-----------------------------------------------------------------------------
TypeOK ==
  /\ \E S \in SUBSET Ids : messages \in [S -> Message]
  /\ \E S \in SUBSET RowIds : rows \in [S -> Subscription]
  /\ open \subseteq Areas
  /\ work \in [Workers -> Work]
  /\ file \in [Nodes -> SUBSET Ids]
  /\ edits \in 0 .. MaxEdits /\ faults \in 0 .. MaxFaults
  /\ serials \in 0 .. MaxMessages
  /\ packed \subseteq Nodes \X Ids /\ received \subseteq Nodes \X Ids /\ lost \subseteq Nodes \X Ids
  /\ uploaded \subseteq Ids /\ tossed \subseteq Ids

(* What the node is not going to be sent because it lies at or under a mark *)
(* the node has, or it is on its way: in an answer or in the file waiting   *)
(* for it, unless an answer failed or a later login replaced a file nobody  *)
(* had fetched.  Marks are written from stale reads, by requests that       *)
(* overlap, and ids are given out again: none of that hides mail.           *)
OnItsWay(n, s) ==
  \/ s \in file[n]
  \/ \E w \in Requests : work[w].pc = "answer" /\ work[w].node = n /\ s \in work[w].packet

MarkedIsDelivered ==
  \A i \in DOMAIN rows, m \in DOMAIN messages :
    LET n == rows[i].node
        s == messages[m].serial
    IN messages[m].area = rows[i].area /\ m <= rows[i].mark
         => <<n, s>> \in received \union lost \/ OnItsWay(n, s)

(* A mark is NULL or a stored message of the row's area; deleting the       *)
(* message a mark points at may not leave it behind, for the id comes back. *)
MarkIsStored ==
  \A i \in DOMAIN rows :
    rows[i].mark # 0 => /\ rows[i].mark \in DOMAIN messages
                        /\ messages[rows[i].mark].area = rows[i].area

(* A REP packet uploaded again -- a retry, a resubmission -- stores nothing *)
(* twice.                                                                   *)
StoredOnce ==
  \A m, k \in DOMAIN messages :
    (/\ messages[m].key # Composed /\ messages[m].key = messages[k].key
     /\ messages[m].area = messages[k].area) => m = k

(* "Fan out to other BinkP nodes and QWK subscribers": when no upload is    *)
(* open and no toss has raised, every uploaded message was tossed.          *)
UploadsTossed ==
  (faults = 0 /\ \A w \in Workers : work[w].pc # "stored") => uploaded \subseteq tossed

(* Mail of an open area a polling node is subscribed to ends up in a packet *)
(* for it, unless it is deleted or the subscription ends first: no order of *)
(* downloads, resets, deletions and failures starves it.                    *)
Waiting(n, s) ==
  /\ <<n, s>> \notin packed
  /\ \E i \in RowsOf(n), m \in DOMAIN messages :
       /\ messages[m].serial = s
       /\ messages[m].area = rows[i].area /\ rows[i].area \in open

MailIsPacked == \A n \in Nodes, s \in Ids : Waiting(n, s) ~> ~ Waiting(n, s)
=============================================================================
