----------------------------- MODULE BinkpClient -----------------------------
(***************************************************************************)
(* The dialling end of a BinkP session, poll() of BinkPClient, and what    *)
(* the poller does with its result.  The client sends its files one by one *)
(* and waits for an answer to each; a peer may offer files of its own at   *)
(* any time, and what comes while the client waits is received inside the  *)
(* wait.  Then both ends exchange two rounds of M_EOB.                     *)
(*                                                                         *)
(* The peer is external: it answers offers in order, and otherwise does    *)
(* what the comments of the client say peers do.  A file travels as M_FILE *)
(* and one data frame.                                                     *)
(*                                                                         *)
(* Sources: echomail/binkp.py, _run_client and the result handling of      *)
(* _do_poll in echomail/poller.py.                                         *)
(***************************************************************************)
EXTENDS Naturals, Sequences

CONSTANTS
  Kind,       \* kinds of the outbound jobs, in the order poll() takes them
  PeerFiles,  \* files waiting at the peer
  Mail,       \* those that hold mail packets; others are stashed on disk
  Refused,    \* those whose declared size is too large or no number
  Unsized,    \* those whose M_FILE declares no size, or the size 0
  NoFile,
  RetryMax,   \* HATCH_RETRY_MAX
  MaxWire,    \* bound: frames on their way to us
  MaxFaults   \* bound: processes that die, files that cannot be read or written

Jobs == DOMAIN Kind

ASSUME ClientAssumption ==
  /\ Kind \in Seq({"packet", "hatch", "loose", "request"})
  /\ Mail \subseteq PeerFiles /\ Refused \subseteq PeerFiles
  /\ Unsized \subseteq PeerFiles \ Refused
  /\ NoFile \notin PeerFiles
  /\ RetryMax \in Nat \ {0} /\ MaxWire \in Nat /\ MaxFaults \in Nat

(* A hatched file is followed by its TIC manifest.                          *)
OutFiles == Jobs \X {1, 2}
FilesOf(j) == {j} \X (IF Kind[j] = "hatch" THEN {1, 2} ELSE {1})

VARIABLES
  status,    \* of the rows or files behind every job
  tries,     \* retry_count of hatch rows
  have,      \* peer's files that are imported or stashed
  cli,       \* the client
  line,      \* the connection
  faults     \* failures so far

(* The peer, and what happened for the properties.                          *)
VARIABLES
  spool,     \* files the peer still has to send
  kept,      \* our files the peer has kept
  peer,      \* its session
  lost,      \* files dropped when taken, or with the result of a failed poll
  doubtful   \* jobs acknowledged after an answer had failed to come

disk == <<status, tries, have>>
vars == <<disk, cli, line, faults, spool, kept, peer, lost, doubtful>>

Client ==
  [pc : {"idle", "send", "wait", "eob", "recv", "commit", "import"},
   job : Jobs \union {0}, part : {1, 2},
   open : PeerFiles \union {NoFile},   \* pending_file
   eobs : Nat,                         \* M_EOBs of the peer
   interleaved : SUBSET Mail,          \* mail received while still sending
   parsed : SUBSET Mail,               \* mail received after that
   acked : SUBSET Jobs, failed : SUBSET Jobs,
   late : BOOLEAN,                     \* a wait ended without an answer
   straddled : SUBSET PeerFiles,       \* half received when a wait ended
   cut : BOOLEAN]                      \* not ended by M_EOBs

NoSession ==
  [pc |-> "idle", job |-> 0, part |-> 1, open |-> NoFile, eobs |-> 0,
   interleaved |-> {}, parsed |-> {}, acked |-> {}, failed |-> {},
   late |-> FALSE, straddled |-> {}, cut |-> FALSE]

Frame ==
  [cmd : {"file", "data"}, about : PeerFiles]
    \union [cmd : {"got", "skip"}, about : OutFiles]
    \union [cmd : {"nul", "eob", "err"}, about : {NoFile}]

Line == [up : BOOLEAN, toPeer : Seq(OutFiles), toUs : Seq(Frame)]

NoLine == [up |-> FALSE, toPeer |-> <<>>, toUs |-> <<>>]

PeerSession ==
  [sending : PeerFiles \union {NoFile}, offered : SUBSET PeerFiles, eobs : 0 .. 2]

NoPeer == [sending |-> NoFile, offered |-> {}, eobs |-> 0]

Due == {j \in Jobs : status[j] = "pending"}

After(j) == {k \in Due : k > j /\ \A i \in Due : i > j => k <= i}

-----------------------------------------------------------------------------
Init ==
  /\ status = [j \in Jobs |-> "pending"] /\ tries = [j \in Jobs |-> 0]
  /\ have = {}
  /\ cli = NoSession /\ line = NoLine /\ faults = 0
  /\ spool = PeerFiles /\ kept = {} /\ peer = NoPeer
  /\ lost = {} /\ doubtful = {}

(* The next job after j, or the end of the sending phase.                   *)
Proceed(c, j) ==
  \/ \E k \in After(j) : cli' = [c EXCEPT !.pc = "send", !.job = k, !.part = 1]
  \/ After(j) = {} /\ cli' = [c EXCEPT !.pc = "eob", !.job = 0, !.part = 1, !.late = FALSE]

(* The handshake is over.                                                   *)
Dial ==
  /\ cli.pc = "idle"
  /\ Proceed(NoSession, 0)
  /\ line' = [NoLine EXCEPT !.up = TRUE] /\ peer' = NoPeer
  /\ UNCHANGED <<disk, faults, spool, kept, lost, doubtful>>

(* An exception leaves poll(): its result is gone, and the mail in it.      *)
Abandon ==
  /\ cli' = NoSession /\ line' = NoLine /\ peer' = NoPeer
  /\ lost' = lost \union cli.interleaved \union cli.parsed
  /\ UNCHANGED <<disk, spool, kept, doubtful>>

(* Sending fails only on a dead connection, and not always at once.         *)
Offer ==
  /\ cli.pc = "send"
  /\ \/ /\ cli' = [cli EXCEPT !.pc = "wait"]
        /\ line' = IF line.up
                   THEN [line EXCEPT !.toPeer = Append(@, <<cli.job, cli.part>>)]
                   ELSE line
        /\ UNCHANGED <<disk, spool, kept, peer, lost, doubtful>>
     \/ ~line.up /\ Abandon
  /\ UNCHANGED faults

(* A file that cannot be read, or a request without a file name.            *)
Unsendable ==
  /\ cli.pc = "send" /\ cli.part = 1 /\ Kind[cli.job] # "packet"
  /\ faults < MaxFaults /\ faults' = faults + 1
  /\ Proceed([cli EXCEPT !.failed = @ \union {cli.job}], cli.job)
  /\ UNCHANGED <<disk, line, spool, kept, peer, lost, doubtful>>

-----------------------------------------------------------------------------
(* Frames of the peer                                                       *)

Next1 == Head(line.toUs)

Read == line.toUs # <<>> /\ line' = [line EXCEPT !.toUs = Tail(@)]

(* What is left half received when a wait ends is forgotten with its state. *)
Straddled == IF cli.open = NoFile THEN {} ELSE {cli.open}

EndWait == [cli EXCEPT !.open = NoFile, !.straddled = cli.straddled \union Straddled]

(* M_FILE: refused files are remembered too, so that their data is skipped. *)
ReadFile ==
  /\ cli.pc \in {"wait", "recv"} /\ Read /\ Next1.cmd = "file"
  /\ cli' = [cli EXCEPT !.open = Next1.about]
  /\ UNCHANGED <<disk, faults, spool, kept, peer, lost, doubtful>>

(* M_NUL informs of nothing; it keeps the client from being timed out.      *)
ReadNul ==
  /\ cli.pc \in {"wait", "recv"} /\ Read /\ Next1.cmd = "nul"
  /\ UNCHANGED <<disk, cli, faults, spool, kept, peer, lost, doubtful>>

(* M_GOT, which the peer may read if the connection lasts.                  *)
Acknowledge(f) ==
  \/ UNCHANGED spool
  \/ line.up /\ spool' = spool \ {f}

DataFrame == cli.pc \in {"wait", "recv"} /\ Read /\ Next1.cmd = "data"

(* The data of a file not open, or refused, is passed over.                 *)
ReadSkipped ==
  /\ DataFrame /\ cli.open \in {NoFile} \union Refused
  /\ cli' = [cli EXCEPT !.open = NoFile]
  /\ UNCHANGED <<disk, faults, spool, kept, peer, lost, doubtful>>

(* A file is complete when it has reached a declared size above 0; one      *)
(* without is collected until the next M_FILE takes its place, and never    *)
(* acknowledged.                                                            *)
ReadUnsized ==
  /\ DataFrame /\ cli.open \in Unsized
  /\ UNCHANGED <<disk, cli, faults, spool, kept, peer, lost, doubtful>>

Sized == PeerFiles \ (Refused \union Unsized)

(* The file is complete: mail is parsed into memory, anything else written  *)
(* to the inbound directory.                                                *)
ReadData ==
  /\ DataFrame /\ cli.open \in Sized
  /\ LET mail == {cli.open} \intersect Mail
     IN /\ cli' = IF cli.pc = "wait"
                  THEN [cli EXCEPT !.open = NoFile, !.interleaved = @ \union mail]
                  ELSE [cli EXCEPT !.open = NoFile, !.parsed = @ \union mail]
        /\ have' = have \union ({cli.open} \ mail)
  /\ Acknowledge(cli.open)
  /\ UNCHANGED <<status, tries, faults, kept, peer, lost, doubtful>>

(* Parsing or writing it fails: it is logged and acknowledged all the same. *)
ReadFails ==
  /\ DataFrame /\ cli.open \in Sized
  /\ faults < MaxFaults /\ faults' = faults + 1
  /\ cli' = [cli EXCEPT !.open = NoFile]
  /\ lost' = lost \union {cli.open}
  /\ Acknowledge(cli.open)
  /\ UNCHANGED <<disk, kept, peer, doubtful>>

-----------------------------------------------------------------------------
(* _send_messages, _wait_got and their callers                              *)

Done(j) == status' = [status EXCEPT ![j] = "sent"]

(* Any M_GOT is taken for the file we wait for.  A loose file is archived   *)
(* at once, the rest is in the result of poll().                            *)
WaitGot ==
  /\ cli.pc = "wait" /\ Read /\ Next1.cmd = "got"
  /\ LET j == cli.job
     IN IF <<j, cli.part + 1>> \in FilesOf(j)
        THEN /\ cli' = [EndWait EXCEPT !.pc = "send", !.part = 2]
             /\ UNCHANGED <<status, doubtful>>
        ELSE /\ Proceed([EndWait EXCEPT !.acked = @ \union {j}], j)
             /\ IF Kind[j] = "loose" THEN Done(j) ELSE UNCHANGED status
             /\ doubtful' = IF cli.late THEN doubtful \union {j} ELSE doubtful
  /\ UNCHANGED <<tries, have, faults, spool, kept, peer, lost>>

(* Mutant of WaitRefused: a skipped file counts as there already.           *)
WaitRefusedCounts ==
  /\ cli.pc = "wait" /\ Read /\ Next1.cmd \in {"skip", "err"}
  /\ Proceed([EndWait EXCEPT !.acked = @ \union {cli.job}], cli.job)
  /\ UNCHANGED <<disk, faults, spool, kept, peer, lost, doubtful>>

(* M_SKIP or M_ERR: the job is over, with its manifest.                     *)
WaitRefused ==
  /\ cli.pc = "wait" /\ Read /\ Next1.cmd \in {"skip", "err"}
  /\ Proceed([EndWait EXCEPT !.failed = @ \union {cli.job}], cli.job)
  /\ UNCHANGED <<disk, faults, spool, kept, peer, lost, doubtful>>

WaitEob ==
  /\ cli.pc = "wait" /\ Read /\ Next1.cmd = "eob"
  /\ cli' = [cli EXCEPT !.eobs = @ + 1]
  /\ UNCHANGED <<disk, faults, spool, kept, peer, lost, doubtful>>

(* The deadline passes between two frames; for the packet a closed or       *)
(* silent connection is the same.                                           *)
WaitExpires ==
  /\ cli.pc = "wait"
  /\ Proceed([EndWait EXCEPT !.failed = @ \union {cli.job}, !.late = TRUE], cli.job)
  /\ UNCHANGED <<disk, line, faults, spool, kept, peer, lost, doubtful>>

(* _wait_got does not catch what reading raises.                            *)
WaitRaises ==
  /\ cli.pc = "wait" /\ Kind[cli.job] # "packet"
  /\ Abandon
  /\ UNCHANGED faults

-----------------------------------------------------------------------------
(* _receive_messages                                                        *)

(* Our M_EOB, and the second one if the peer's came early.                  *)
BeginReceive ==
  /\ cli.pc = "eob"
  /\ \/ /\ cli' = [cli EXCEPT !.pc = IF cli.eobs >= 2 THEN "commit" ELSE "recv"]
        /\ UNCHANGED <<disk, line, spool, kept, peer, lost, doubtful>>
     \/ /\ ~line.up /\ cli.eobs > 0
        /\ cli' = [cli EXCEPT !.pc = "commit", !.cut = TRUE]
        /\ UNCHANGED <<disk, line, spool, kept, peer, lost, doubtful>>
     \/ ~line.up /\ Abandon
  /\ UNCHANGED faults

(* Mutant of ReceiveEob: one M_EOB is enough.                               *)
ReceiveOneEob ==
  /\ cli.pc = "recv" /\ Read /\ Next1.cmd = "eob"
  /\ cli' = [cli EXCEPT !.eobs = @ + 1, !.pc = "commit"]
  /\ UNCHANGED <<disk, faults, spool, kept, peer, lost, doubtful>>

(* Answering the peer's first M_EOB may find the connection gone.           *)
ReceiveEob ==
  /\ cli.pc = "recv" /\ Read /\ Next1.cmd = "eob"
  /\ \/ cli' = [cli EXCEPT !.eobs = @ + 1,
                           !.pc = IF cli.eobs >= 1 THEN "commit" ELSE "recv"]
     \/ /\ ~line.up /\ cli.eobs = 0
        /\ cli' = [cli EXCEPT !.pc = "commit", !.cut = TRUE]
  /\ UNCHANGED <<disk, faults, spool, kept, peer, lost, doubtful>>

(* An answer that comes now is ignored.                                     *)
ReceiveAnswer ==
  /\ cli.pc = "recv" /\ Read /\ Next1.cmd \in {"got", "skip"}
  /\ UNCHANGED <<disk, cli, faults, spool, kept, peer, lost, doubtful>>

ReceiveErr ==
  /\ cli.pc = "recv" /\ Read /\ Next1.cmd = "err"
  /\ cli' = [cli EXCEPT !.pc = "commit", !.cut = TRUE]
  /\ UNCHANGED <<disk, faults, spool, kept, peer, lost, doubtful>>

(* Mutant of ReceiveEnds: reading waits for the peer to hang up.            *)
ReceiveEndsWhenClosed ==
  /\ cli.pc = "recv" /\ ~line.up
  /\ cli' = [cli EXCEPT !.pc = "commit", !.cut = TRUE]
  /\ UNCHANGED <<disk, line, faults, spool, kept, peer, lost, doubtful>>

(* The peer has closed, or was silent for longer than the timeout.          *)
ReceiveEnds ==
  /\ cli.pc = "recv"
  /\ cli' = [cli EXCEPT !.pc = "commit", !.cut = TRUE]
  /\ UNCHANGED <<disk, line, faults, spool, kept, peer, lost, doubtful>>

(* Before it closes the connection poll() drains it: what still comes is    *)
(* dropped.                                                                 *)
Drain ==
  /\ cli.pc = "commit" /\ Read
  /\ UNCHANGED <<disk, cli, faults, spool, kept, peer, lost, doubtful>>

-----------------------------------------------------------------------------
(* The poller                                                               *)

Retries(j) == Kind[j] = "hatch" /\ j \in cli.failed

(* Mutant of Commit: the failure that is counted now is not.                *)
CommitRetriesOn ==
  /\ cli.pc = "commit"
  /\ tries' = [j \in Jobs |-> IF Retries(j) THEN tries[j] + 1 ELSE tries[j]]
  /\ status' = [j \in Jobs |->
       CASE j \in cli.acked /\ Kind[j] \in {"hatch", "request"} -> "sent"
         [] Retries(j) /\ tries[j] > RetryMax -> "failed"
         [] Kind[j] = "request" /\ j \in cli.failed -> "failed"
         [] OTHER -> status[j]]
  /\ cli' = [cli EXCEPT !.pc = "import"]
  /\ UNCHANGED <<have, line, faults, spool, kept, peer, lost, doubtful>>

(* _run_client commits what became of hatch rows and file requests.         *)
Commit ==
  /\ cli.pc = "commit"
  /\ tries' = [j \in Jobs |-> IF Retries(j) THEN tries[j] + 1 ELSE tries[j]]
  /\ status' = [j \in Jobs |->
       CASE j \in cli.acked /\ Kind[j] \in {"hatch", "request"} -> "sent"
         [] Retries(j) /\ tries[j] + 1 >= RetryMax -> "failed"
         [] Kind[j] = "request" /\ j \in cli.failed -> "failed"
         [] OTHER -> status[j]]
  /\ cli' = [cli EXCEPT !.pc = "import"]
  /\ UNCHANGED <<have, line, faults, spool, kept, peer, lost, doubtful>>

(* Mutant of Import: the mail received while sending is left out.           *)
ImportParsedOnly ==
  /\ cli.pc = "import"
  /\ have' = have \union cli.parsed
  /\ status' = [j \in Jobs |->
       IF j \in cli.acked /\ Kind[j] = "packet" THEN "sent" ELSE status[j]]
  /\ cli' = NoSession /\ line' = NoLine /\ peer' = NoPeer
  /\ UNCHANGED <<tries, faults, spool, kept, lost, doubtful>>

(* _do_poll imports the mail and stamps the packet's messages.              *)
Import ==
  /\ cli.pc = "import"
  /\ have' = have \union cli.interleaved \union cli.parsed
  /\ status' = [j \in Jobs |->
       IF j \in cli.acked /\ Kind[j] = "packet" THEN "sent" ELSE status[j]]
  /\ cli' = NoSession /\ line' = NoLine /\ peer' = NoPeer
  /\ UNCHANGED <<tries, faults, spool, kept, lost, doubtful>>

(* The process dies, or importing raises.                                   *)
Die ==
  /\ cli.pc # "idle" /\ faults < MaxFaults
  /\ faults' = faults + 1
  /\ Abandon

-----------------------------------------------------------------------------
(* The peer, external                                                       *)

Talk(frame) ==
  /\ line.up /\ Len(line.toUs) < MaxWire
  /\ line' = [line EXCEPT !.toUs = Append(@, frame)]

(* A file without a size may have no data either.                           *)
PeerOffers(f) ==
  /\ f \in spool \ peer.offered /\ peer.sending = NoFile /\ peer.eobs < 2
  /\ Talk([cmd |-> "file", about |-> f])
  /\ \E rest \in {f, NoFile} :
       /\ rest = f \/ f \in Unsized
       /\ peer' = [peer EXCEPT !.sending = rest, !.offered = @ \union {f}]
  /\ UNCHANGED <<disk, cli, faults, spool, kept, lost, doubtful>>

PeerSends ==
  /\ peer.sending # NoFile
  /\ Talk([cmd |-> "data", about |-> peer.sending])
  /\ peer' = [peer EXCEPT !.sending = NoFile]
  /\ UNCHANGED <<disk, cli, faults, spool, kept, lost, doubtful>>

(* It keeps our file or skips it; its answer may pass between two frames of *)
(* a file of its own.                                                       *)
PeerAnswers(cmd) ==
  /\ line.toPeer # <<>>
  /\ line.up /\ Len(line.toUs) < MaxWire
  /\ line' = [line EXCEPT !.toPeer = Tail(@),
                          !.toUs = Append(@, [cmd |-> cmd, about |-> Head(line.toPeer)])]
  /\ kept' = IF cmd = "got" THEN kept \union {Head(line.toPeer)} ELSE kept
  /\ UNCHANGED <<disk, cli, faults, spool, peer, lost, doubtful>>

(* It may say something to the log whenever it likes.                       *)
PeerChats ==
  /\ Talk([cmd |-> "nul", about |-> NoFile])
  /\ UNCHANGED <<disk, cli, faults, spool, kept, peer, lost, doubtful>>

(* M_EOB for the first time when it has nothing to send for now, again when *)
(* nothing is left.                                                         *)
PeerEob ==
  /\ peer.sending = NoFile
  /\ \/ peer.eobs = 0
     \/ peer.eobs = 1 /\ spool \subseteq peer.offered
  /\ Talk([cmd |-> "eob", about |-> NoFile])
  /\ peer' = [peer EXCEPT !.eobs = @ + 1]
  /\ UNCHANGED <<disk, cli, faults, spool, kept, lost, doubtful>>

(* It hangs up, with or without M_ERR, or the network does; the end of what *)
(* it sent may never arrive.                                                *)
PeerCloses ==
  /\ line.up
  /\ \/ \E n \in 0 .. Len(line.toUs) :
          line' = [NoLine EXCEPT !.toUs = SubSeq(line.toUs, 1, n)]
     \/ line' = [NoLine EXCEPT !.toUs = Append(line.toUs, [cmd |-> "err", about |-> NoFile])]
  /\ peer' = [peer EXCEPT !.sending = NoFile]
  /\ UNCHANGED <<disk, cli, faults, spool, kept, lost, doubtful>>

-----------------------------------------------------------------------------
Waiting ==
  \/ WaitGot \/ WaitRefused \/ WaitEob \/ WaitExpires \/ WaitRaises

Receiving ==
  \/ BeginReceive \/ ReceiveEob \/ ReceiveAnswer \/ ReceiveErr \/ ReceiveEnds

Poll ==
  \/ Offer \/ Unsendable \/ ReadFile \/ ReadNul
  \/ ReadSkipped \/ ReadUnsized \/ ReadData \/ ReadFails
  \/ Waiting \/ Receiving \/ Drain \/ Commit \/ Import

Peer ==
  \/ \E f \in PeerFiles : PeerOffers(f)
  \/ PeerSends \/ PeerChats \/ PeerEob \/ PeerCloses
  \/ \E cmd \in {"got", "skip"} : PeerAnswers(cmd)

Next == Dial \/ Poll \/ Die \/ Peer

Spec == Init /\ [][Next]_vars

(* The poller's thread runs, its socket has a timeout, and a wait for an    *)
(* answer has a deadline by the clock.  The other loops have none.          *)
FairSpec == Spec /\ WF_vars(Poll) /\ WF_vars(WaitExpires)

-----------------------------------------------------------------------------
(* Properties                                                               *)

TypeOK ==
  /\ status \in [Jobs -> {"pending", "sent", "failed"}]
  /\ tries \in [Jobs -> 0 .. RetryMax]
  /\ have \subseteq PeerFiles
  /\ cli \in Client
  /\ line \in Line
  /\ faults \in 0 .. MaxFaults
  /\ spool \subseteq PeerFiles /\ kept \subseteq OutFiles
  /\ peer \in PeerSession
  /\ lost \subseteq PeerFiles /\ doubtful \subseteq Jobs

(* What counts as sent the peer has kept, with its manifest, unless an      *)
(* earlier wait of the session had ended without its answer and the late    *)
(* M_GOT was taken for it (WaitGot compares no file names).                 *)
SentKept ==
  \A j \in Jobs : status[j] = "sent" => FilesOf(j) \subseteq kept \/ j \in doubtful

InMemory == cli.interleaved \union cli.parsed

(* A file the peer no longer has is here, on disk, imported or in memory,   *)
(* or it was unreadable or in the memory of a poll that raised or died:     *)
(* neither the phase it arrived in nor a lost M_GOT loses it                *)
(* (_consume_inbound_file_frame and the result of poll).                    *)
InboundKept == PeerFiles \subseteq spool \union have \union InMemory \union lost

(* A session both sides have ended with M_EOBs has taken every file it was  *)
(* offered, but for those refused, without a size, dropped or half received *)
(* when a wait ended (_receive_messages and the M_EOBs it counts).          *)
OfferedTaken ==
  cli.pc \in {"commit", "import"} /\ ~cli.cut =>
    peer.offered \subseteq
      have \union InMemory \union lost \union Refused \union Unsized \union cli.straddled

(* Every poll ends, unless its peer talks without end after the client has  *)
(* sent its M_EOB: _receive_messages and _disconnect go on for as long as   *)
(* frames come.  A silent peer or one that is gone holds no poll up, nor    *)
(* does any talk while the client waits for an answer.                      *)
SessionEnds ==
  \/ []<>(cli.pc = "idle")
  \/ <>[](cli.pc \in {"recv", "commit"}) /\ []<>(line.toUs # <<>>)
=============================================================================
