-------------------------- MODULE BinkpClient_proofs --------------------------
(***************************************************************************)
(* Four theorems for any files, jobs and bounds: the types, which say that *)
(* no hatch row is tried more than RetryMax times; that what the peer no   *)
(* longer has is accounted for; that what counts as sent was kept; and     *)
(* that a session closed by M_EOBs has taken what it was offered.  The     *)
(* last two follow the frames on the line, from the peer to the client.    *)
(***************************************************************************)
EXTENDS BinkpClient, SequenceTheorems, TLAPS

(* A hatch row that may still be sent has a try left, and what failed in    *)
(* this session may still be sent, until the failure is recorded.           *)
Retriable ==
  /\ \A j \in Jobs : Kind[j] = "hatch" /\ status[j] = "pending" => tries[j] < RetryMax
  /\ \A j \in cli.failed :
       Kind[j] = "hatch" /\ cli.pc # "import" => status[j] = "pending"
  /\ cli.pc \in {"send", "wait"} => cli.job \in Jobs /\ status[cli.job] = "pending"

TInv == TypeOK /\ Retriable

(* A new session forgets the memory of the last one.                        *)
NothingForgotten == cli.pc = "idle" => InMemory = {}

IInv == TInv /\ NothingForgotten /\ InboundKept

(* Everything a state holds of the peer's files.                            *)
Held == have \union InMemory \union lost

-----------------------------------------------------------------------------
(* The operators the actions share                                          *)

(* The next job, if there is one, may be sent; nothing else changes.        *)
LEMMA ProceedType ==
  ASSUME NEW c \in Client, NEW j, Proceed(c, j)
  PROVE  /\ cli' \in Client
         /\ cli'.interleaved = c.interleaved /\ cli'.parsed = c.parsed
         /\ cli'.failed = c.failed
         /\ \/ cli'.pc = "send" /\ cli'.job \in Due
            \/ cli'.pc = "eob"
<1>1. CASE \E k \in After(j) : cli' = [c EXCEPT !.pc = "send", !.job = k, !.part = 1]
  BY <1>1 DEF Client, After, Due
<1>2. CASE cli' = [c EXCEPT !.pc = "eob", !.job = 0, !.part = 1, !.late = FALSE]
  BY <1>2 DEF Client
<1>3. QED
  BY <1>1, <1>2 DEF Proceed

(* What a wait leaves behind is a client that still knows its mail.         *)
LEMMA EndWaitType ==
  ASSUME cli \in Client
  PROVE  /\ EndWait \in Client
         /\ EndWait.interleaved = cli.interleaved /\ EndWait.parsed = cli.parsed
         /\ EndWait.failed = cli.failed
<1>1. Straddled \subseteq PeerFiles
  BY DEF Straddled, Client
<1>2. QED
  BY <1>1 DEF EndWait, Client

(* Reading takes one well formed frame off the line.                        *)
LEMMA ReadType ==
  ASSUME TypeOK, Read
  PROVE  /\ Next1 \in Frame
         /\ line' \in Line
<1>1. line.toUs \in Seq(Frame) /\ line.toUs # <<>>
  BY DEF TypeOK, Read, Line
<1>2. Head(line.toUs) \in Frame /\ Tail(line.toUs) \in Seq(Frame)
  BY <1>1, HeadTailProperties
<1>3. QED
  BY <1>2 DEF Read, Next1, TypeOK, Line

LEMMA NoLineType == NoLine \in Line /\ [NoLine EXCEPT !.up = TRUE] \in Line
<1>1. <<>> \in Seq(OutFiles) /\ <<>> \in Seq(Frame)
  BY EmptySeq
<1>2. QED
  BY <1>1 DEF NoLine, Line

(* M_FILE and data frames are about files of the peer.                      *)
LEMMA FileFrame ==
  ASSUME NEW f \in Frame, f.cmd \in {"file", "data"}
  PROVE  f.about \in PeerFiles
BY DEF Frame

-----------------------------------------------------------------------------
(* Types: the steps of the client                                           *)

(* A session that begins.                                                   *)
LEMMA DialType ==
  ASSUME TInv, Dial
  PROVE  TInv'
<1>1. NoSession \in Client
  BY DEF NoSession, Client
<1>2. /\ cli' \in Client /\ cli'.failed = {}
      /\ \/ cli'.pc = "send" /\ cli'.job \in Due
         \/ cli'.pc = "eob"
  BY <1>1, ProceedType DEF Dial, NoSession
<1>3. TypeOK'
  <2>1. line' \in Line
    BY NoLineType DEF Dial
  <2>2. peer' \in PeerSession
    BY DEF Dial, NoPeer, PeerSession
  <2>3. UNCHANGED <<status, tries, have, faults, spool, kept, lost, doubtful>>
    BY DEF Dial, disk
  <2>4. QED
    BY <1>2, <2>1, <2>2, <2>3 DEF TInv, TypeOK
<1>4. Retriable'
  BY <1>2 DEF TInv, Retriable, Dial, disk, Due
<1>5. QED
  BY <1>3, <1>4 DEF TInv

(* A poll that raises.                                                      *)
LEMMA AbandonType ==
  ASSUME TInv, Abandon, faults' \in 0 .. MaxFaults
  PROVE  TInv'
<1>1. /\ cli' \in Client /\ cli'.failed = {} /\ cli'.pc = "idle"
  BY DEF Abandon, NoSession, Client
<1>2. line' \in Line
  BY NoLineType DEF Abandon
<1>3. peer' \in PeerSession
  BY DEF Abandon, NoPeer, PeerSession
<1>4. lost' \subseteq PeerFiles
  BY ClientAssumption DEF TInv, TypeOK, Abandon, Client
<1>5. TypeOK'
  BY <1>1, <1>2, <1>3, <1>4 DEF TInv, TypeOK, Abandon, disk
<1>6. Retriable'
  BY <1>1 DEF TInv, Retriable, Abandon, disk
<1>7. QED
  BY <1>5, <1>6 DEF TInv

(* A step that moves on, or stays, and changes no row.                      *)
LEMMA RowsKept ==
  ASSUME TInv, UNCHANGED <<status, tries>>,
         \A j \in cli'.failed : j \in cli.failed \/ status[j] = "pending",
         cli.pc # "import",
         cli'.pc \in {"send", "wait"} => cli'.job \in Jobs /\ status[cli'.job] = "pending"
  PROVE  Retriable'
BY DEF TInv, Retriable

(* The job of a client that sends or waits.                                 *)
LEMMA JobType ==
  ASSUME TInv, cli.pc \in {"send", "wait"}
  PROVE  cli.job \in Jobs /\ status[cli.job] = "pending"
BY DEF TInv, Retriable

LEMMA OfferType ==
  ASSUME TInv, Offer
  PROVE  TInv'
<1>1. CASE ~line.up /\ Abandon
  BY <1>1, AbandonType DEF Offer, TInv, TypeOK
<1>2. CASE /\ cli' = [cli EXCEPT !.pc = "wait"]
           /\ line' = IF line.up
                      THEN [line EXCEPT !.toPeer = Append(@, <<cli.job, cli.part>>)]
                      ELSE line
           /\ UNCHANGED <<disk, spool, kept, peer, lost, doubtful>>
  <2>1. cli.job \in Jobs /\ status[cli.job] = "pending" /\ cli.pc = "send"
    BY JobType DEF Offer
  <2>2. <<cli.job, cli.part>> \in OutFiles
    BY <2>1 DEF TInv, TypeOK, Client, OutFiles
  <2>3. line' \in Line
    <3>1. line.toPeer \in Seq(OutFiles)
      BY DEF TInv, TypeOK, Line
    <3>2. Append(line.toPeer, <<cli.job, cli.part>>) \in Seq(OutFiles)
      BY <2>2, <3>1, AppendProperties
    <3>3. QED
      BY <1>2, <3>2 DEF TInv, TypeOK, Line
  <2>4. cli' \in Client /\ cli'.failed = cli.failed /\ cli'.job = cli.job
    BY <1>2 DEF TInv, TypeOK, Client
  <2>5. UNCHANGED <<status, tries, have, faults, spool, kept, peer, lost, doubtful>>
    BY <1>2 DEF Offer, disk
  <2>6. TypeOK'
    BY <2>3, <2>4, <2>5 DEF TInv, TypeOK
  <2>7. Retriable'
    BY <2>1, <2>4, <2>5, RowsKept
  <2>8. QED
    BY <2>6, <2>7 DEF TInv
<1>3. QED
  BY <1>1, <1>2 DEF Offer

(* The client goes to its next job, after one that may have failed.         *)
LEMMA NextJob ==
  ASSUME TInv, cli.pc \in {"send", "wait"},
         NEW c \in Client, Proceed(c, cli.job),
         \A j \in c.failed : j \in cli.failed \/ j = cli.job,
         UNCHANGED tries,
         status' = status \/ (Kind[cli.job] = "loose" /\ Done(cli.job))
  PROVE  cli' \in Client /\ Retriable' /\ status' \in [Jobs -> {"pending", "sent", "failed"}]
<1>1. /\ cli' \in Client /\ cli'.failed = c.failed
      /\ \/ cli'.pc = "send" /\ cli'.job \in Due /\ cli'.job \in After(cli.job)
         \/ cli'.pc = "eob"
  <2>1. CASE \E k \in After(cli.job) :
               cli' = [c EXCEPT !.pc = "send", !.job = k, !.part = 1]
    <3>1. PICK k \in After(cli.job) : cli' = [c EXCEPT !.pc = "send", !.job = k, !.part = 1]
      BY <2>1
    <3>2. k \in Due /\ k \in Jobs
      BY DEF After, Due
    <3>3. QED
      BY <3>1, <3>2 DEF Client
  <2>2. CASE cli' = [c EXCEPT !.pc = "eob", !.job = 0, !.part = 1, !.late = FALSE]
    BY <2>2 DEF Client
  <2>3. QED
    BY <2>1, <2>2 DEF Proceed
<1>2. cli.job \in Jobs /\ status[cli.job] = "pending"
  BY JobType
<1>3. cli.job \in Nat /\ \A k \in After(cli.job) : k > cli.job /\ k \in Due
  BY <1>2, ClientAssumption DEF Jobs, After
<1>4. \A j \in Jobs : Kind[j] = "hatch" => status'[j] = status[j]
  BY <1>2 DEF Done, TInv, TypeOK
<1>5. cli'.pc = "send" => cli'.job \in Jobs /\ status'[cli'.job] = "pending"
  <2>1. ASSUME cli'.pc = "send"
        PROVE  cli'.job \in Jobs /\ status[cli'.job] = "pending" /\ cli'.job # cli.job
    BY <1>1, <1>3, <2>1 DEF Due
  <2>2. QED
    BY <1>2, <2>1 DEF Done, TInv, TypeOK
<1>6. c.failed \subseteq Jobs
  BY DEF Client
<1>7. Retriable'
  BY <1>1, <1>2, <1>4, <1>5, <1>6 DEF TInv, Retriable
<1>8. QED
  BY <1>1, <1>2, <1>7 DEF Done, TInv, TypeOK

LEMMA UnsendableType ==
  ASSUME TInv, Unsendable
  PROVE  TInv'
<1>1. cli.job \in Jobs
  BY JobType DEF Unsendable
<1>2. \E c \in Client :
        /\ Proceed(c, cli.job)
        /\ c.failed = cli.failed \union {cli.job}
  <2>1. [cli EXCEPT !.failed = @ \union {cli.job}] \in Client
    BY <1>1 DEF TInv, TypeOK, Client
  <2>2. [cli EXCEPT !.failed = @ \union {cli.job}].failed = cli.failed \union {cli.job}
    BY DEF TInv, TypeOK, Client
  <2>3. QED
    BY <2>1, <2>2 DEF Unsendable
<1>3. UNCHANGED <<status, tries, have, line, spool, kept, peer, lost, doubtful>>
  BY DEF Unsendable, disk
<1>4. cli' \in Client /\ Retriable'
  <2>1. PICK c \in Client : Proceed(c, cli.job) /\ c.failed = cli.failed \union {cli.job}
    BY <1>2
  <2>2. cli.pc \in {"send", "wait"} /\ \A j \in c.failed : j \in cli.failed \/ j = cli.job
    BY <2>1 DEF Unsendable
  <2>3. tries' = tries /\ status' = status
    BY <1>3
  <2>4. QED
    BY <2>1, <2>2, <2>3, NextJob
<1>5. faults' \in 0 .. MaxFaults
  BY ClientAssumption DEF Unsendable, TInv, TypeOK
<1>6. QED
  BY <1>3, <1>4, <1>5 DEF TInv, TypeOK

(* A step of the client that reads, or closes, and touches no row.          *)
LEMMA ClientType ==
  ASSUME TInv, cli.pc # "import",
         cli' \in Client, cli'.failed = cli.failed, cli'.job = cli.job,
         cli'.pc \in {"send", "wait"} => cli.pc = cli'.pc,
         line' \in Line, UNCHANGED <<status, tries, kept, peer, doubtful>>,
         have' \subseteq PeerFiles, spool' \subseteq PeerFiles, lost' \subseteq PeerFiles,
         faults' \in 0 .. MaxFaults
  PROVE  TInv'
<1>1. cli'.pc \in {"send", "wait"} => cli'.job \in Jobs /\ status[cli'.job] = "pending"
  BY JobType
<1>2. Retriable'
  BY <1>1, RowsKept
<1>3. TypeOK'
  BY DEF TInv, TypeOK
<1>4. QED
  BY <1>2, <1>3 DEF TInv

LEMMA ReadFileType ==
  ASSUME TInv, ReadFile
  PROVE  TInv'
<1>1. Next1 \in Frame /\ line' \in Line
  BY ReadType DEF TInv, ReadFile
<1>2. Next1.about \in PeerFiles
  BY <1>1, FileFrame DEF ReadFile
<1>3. /\ cli' \in Client /\ cli'.failed = cli.failed /\ cli'.job = cli.job
      /\ cli'.pc = cli.pc
  BY <1>2 DEF ReadFile, TInv, TypeOK, Client
<1>4. UNCHANGED <<status, tries, have, faults, spool, kept, peer, lost, doubtful>>
  BY DEF ReadFile, disk
<1>5. cli.pc # "import"
  BY DEF ReadFile
<1>6. QED
  BY <1>1, <1>3, <1>4, <1>5, ClientType DEF TInv, TypeOK

(* The three ways to take a data frame.                                     *)
LEMMA ReadSkippedType ==
  ASSUME TInv, ReadSkipped
  PROVE  TInv'
<1>1. line' \in Line
  BY ReadType DEF TInv, ReadSkipped, DataFrame
<1>2. /\ cli' \in Client /\ cli'.failed = cli.failed /\ cli'.job = cli.job
      /\ cli'.pc = cli.pc
  BY DEF ReadSkipped, TInv, TypeOK, Client
<1>3. UNCHANGED <<status, tries, have, faults, spool, kept, peer, lost, doubtful>>
  BY DEF ReadSkipped, disk
<1>4. cli.pc # "import"
  BY DEF ReadSkipped, DataFrame
<1>5. QED
  BY <1>1, <1>2, <1>3, <1>4, ClientType DEF TInv, TypeOK

LEMMA ReadDataType ==
  ASSUME TInv, ReadData
  PROVE  TInv'
<1>1. line' \in Line
  BY ReadType DEF TInv, ReadData, DataFrame
<1>2. cli.open \in PeerFiles
  BY DEF ReadData, Sized
<1>3. /\ cli' \in Client /\ cli'.failed = cli.failed /\ cli'.job = cli.job
      /\ cli'.pc = cli.pc
  <2>1. CASE cli' = [cli EXCEPT !.open = NoFile, !.interleaved = @ \union ({cli.open} \intersect Mail)]
    BY <2>1 DEF TInv, TypeOK, Client
  <2>2. CASE cli' = [cli EXCEPT !.open = NoFile, !.parsed = @ \union ({cli.open} \intersect Mail)]
    BY <2>2 DEF TInv, TypeOK, Client
  <2>3. QED
    BY <2>1, <2>2 DEF ReadData
<1>4. have' \subseteq PeerFiles /\ spool' \subseteq PeerFiles
  BY <1>2 DEF ReadData, Acknowledge, TInv, TypeOK
<1>5. UNCHANGED <<status, tries, faults, kept, peer, lost, doubtful>>
  BY DEF ReadData
<1>6. cli.pc # "import"
  BY DEF ReadData, DataFrame
<1>7. QED
  BY <1>1, <1>3, <1>4, <1>5, <1>6, ClientType DEF TInv, TypeOK

LEMMA ReadFailsType ==
  ASSUME TInv, ReadFails
  PROVE  TInv'
<1>1. line' \in Line
  BY ReadType DEF TInv, ReadFails, DataFrame
<1>2. cli.open \in PeerFiles
  BY DEF ReadFails, Sized
<1>3. /\ cli' \in Client /\ cli'.failed = cli.failed /\ cli'.job = cli.job
      /\ cli'.pc = cli.pc
  BY DEF ReadFails, TInv, TypeOK, Client
<1>4. lost' \subseteq PeerFiles /\ spool' \subseteq PeerFiles
  BY <1>2 DEF ReadFails, Acknowledge, TInv, TypeOK
<1>5. UNCHANGED <<status, tries, have, kept, peer, doubtful>>
  BY DEF ReadFails, disk
<1>6. faults' \in 0 .. MaxFaults
  BY ClientAssumption DEF ReadFails, TInv, TypeOK
<1>7. cli.pc # "import"
  BY DEF ReadFails, DataFrame
<1>8. QED
  BY <1>1, <1>3, <1>4, <1>5, <1>6, <1>7, ClientType DEF TInv, TypeOK

(* What is read and changes nothing.                                        *)
LEMMA PassedOver ==
  ASSUME ReadNul \/ ReadUnsized \/ Drain
  PROVE  /\ Read /\ cli.pc \in {"wait", "recv", "commit"}
         /\ UNCHANGED <<status, tries, have, cli, faults, spool, kept, peer, lost, doubtful>>
BY DEF ReadNul, ReadUnsized, DataFrame, Drain, disk

LEMMA PassedOverType ==
  ASSUME TInv, ReadNul \/ ReadUnsized \/ Drain
  PROVE  TInv'
<1>1. line' \in Line
  BY PassedOver, ReadType DEF TInv
<1>2. QED
  BY <1>1, PassedOver DEF TInv, TypeOK, Retriable

-----------------------------------------------------------------------------
(* Types: waiting for an answer                                             *)

(* A wait that ends with a job added to those acknowledged or failed.       *)
LEMMA EndWaitWith ==
  ASSUME TInv, cli.pc = "wait"
  PROVE  /\ [EndWait EXCEPT !.acked = @ \union {cli.job}] \in Client
         /\ [EndWait EXCEPT !.acked = @ \union {cli.job}].failed = cli.failed
         /\ [EndWait EXCEPT !.failed = @ \union {cli.job}] \in Client
         /\ [EndWait EXCEPT !.failed = @ \union {cli.job}].failed = cli.failed \union {cli.job}
         /\ [EndWait EXCEPT !.failed = @ \union {cli.job}, !.late = TRUE] \in Client
         /\ [EndWait EXCEPT !.failed = @ \union {cli.job}, !.late = TRUE].failed
              = cli.failed \union {cli.job}
<1>1. EndWait \in Client /\ EndWait.failed = cli.failed
  BY EndWaitType DEF TInv, TypeOK
<1>2. cli.job \in Jobs
  BY JobType
<1>3. QED
  BY <1>1, <1>2 DEF Client

(* The first file of a job is kept, and its manifest is next; or the job is *)
(* acknowledged.                                                            *)
LEMMA WaitGotType ==
  ASSUME TInv, WaitGot
  PROVE  TInv'
<1>1. line' \in Line
  BY ReadType DEF TInv, WaitGot
<1>2. UNCHANGED <<tries, have, faults, spool, kept, peer, lost>>
  BY DEF WaitGot
<1>3. cli.pc = "wait" /\ cli.job \in Jobs /\ status[cli.job] = "pending"
  BY JobType DEF WaitGot
<1>4. CASE /\ cli' = [EndWait EXCEPT !.pc = "send", !.part = 2]
           /\ UNCHANGED <<status, doubtful>>
  <2>1. /\ cli' \in Client /\ cli'.failed = cli.failed /\ cli'.job = cli.job
    BY <1>4, EndWaitType DEF TInv, TypeOK, EndWait, Client
  <2>2. Retriable'
    BY <1>2, <1>3, <1>4, <2>1, RowsKept
  <2>3. QED
    BY <1>1, <1>2, <1>4, <2>1, <2>2 DEF TInv, TypeOK
<1>5. CASE /\ Proceed([EndWait EXCEPT !.acked = @ \union {cli.job}], cli.job)
           /\ IF Kind[cli.job] = "loose" THEN Done(cli.job) ELSE UNCHANGED status
           /\ doubtful' = IF cli.late THEN doubtful \union {cli.job} ELSE doubtful
  <2>1. PICK c \in Client : Proceed(c, cli.job) /\ c.failed = cli.failed
    BY <1>3, <1>5, EndWaitWith
  <2>2. status' = status \/ (Kind[cli.job] = "loose" /\ Done(cli.job))
    BY <1>5
  <2>3. tries' = tries /\ cli.pc \in {"send", "wait"}
    BY <1>2, <1>3
  <2>4. cli' \in Client /\ Retriable' /\ status' \in [Jobs -> {"pending", "sent", "failed"}]
    BY <2>1, <2>2, <2>3, NextJob
  <2>5. doubtful' \subseteq Jobs
    BY <1>3, <1>5 DEF TInv, TypeOK
  <2>6. QED
    BY <1>1, <1>2, <2>4, <2>5 DEF TInv, TypeOK
<1>6. QED
  BY <1>4, <1>5 DEF WaitGot

(* The job is over without an answer that counts.                           *)
LEMMA JobFails ==
  ASSUME TInv, cli.pc = "wait",
         NEW c \in Client, Proceed(c, cli.job), c.failed = cli.failed \union {cli.job},
         line' \in Line, UNCHANGED <<disk, faults, spool, kept, peer, lost, doubtful>>
  PROVE  TInv'
<1>1. tries' = tries /\ status' = status /\ have' = have
  BY DEF disk
<1>2. cli.pc \in {"send", "wait"} /\ \A j \in c.failed : j \in cli.failed \/ j = cli.job
  OBVIOUS
<1>3. cli' \in Client /\ Retriable'
  BY <1>1, <1>2, NextJob
<1>4. QED
  BY <1>1, <1>3 DEF TInv, TypeOK

LEMMA WaitRefusedType ==
  ASSUME TInv, WaitRefused
  PROVE  TInv'
<1>1. line' \in Line
  BY ReadType DEF TInv, WaitRefused
<1>2. QED
  BY <1>1, EndWaitWith, JobFails DEF WaitRefused

LEMMA WaitExpiresType ==
  ASSUME TInv, WaitExpires
  PROVE  TInv'
<1>1. line' \in Line
  BY DEF TInv, TypeOK, WaitExpires
<1>2. UNCHANGED <<disk, faults, spool, kept, peer, lost, doubtful>>
  BY DEF WaitExpires
<1>3. QED
  BY <1>1, <1>2, EndWaitWith, JobFails DEF WaitExpires

LEMMA WaitEobType ==
  ASSUME TInv, WaitEob
  PROVE  TInv'
<1>1. line' \in Line
  BY ReadType DEF TInv, WaitEob
<1>2. /\ cli' \in Client /\ cli'.failed = cli.failed /\ cli'.job = cli.job
      /\ cli'.pc = cli.pc
  BY DEF WaitEob, TInv, TypeOK, Client
<1>3. UNCHANGED <<status, tries, have, faults, spool, kept, peer, lost, doubtful>>
  BY DEF WaitEob, disk
<1>4. cli.pc # "import"
  BY DEF WaitEob
<1>5. QED
  BY <1>1, <1>2, <1>3, <1>4, ClientType DEF TInv, TypeOK

-----------------------------------------------------------------------------
(* Types: receiving                                                         *)

(* The client goes on to receive, or to what follows poll().                *)
LEMMA ReceiveType ==
  ASSUME TInv, cli.pc # "import",
         cli' \in Client, cli'.failed = cli.failed, cli'.job = cli.job,
         cli'.pc \in {"recv", "commit"},
         line' \in Line, UNCHANGED <<disk, faults, spool, kept, peer, lost, doubtful>>
  PROVE  TInv'
<1>1. UNCHANGED <<status, tries, have, faults, spool, kept, peer, lost, doubtful>>
  BY DEF disk
<1>2. QED
  BY <1>1, ClientType DEF TInv, TypeOK

LEMMA BeginReceiveType ==
  ASSUME TInv, BeginReceive
  PROVE  TInv'
<1>1. CASE ~line.up /\ Abandon
  BY <1>1, AbandonType DEF BeginReceive, TInv, TypeOK
<1>2. CASE /\ \/ cli' = [cli EXCEPT !.pc = IF cli.eobs >= 2 THEN "commit" ELSE "recv"]
              \/ cli' = [cli EXCEPT !.pc = "commit", !.cut = TRUE]
           /\ UNCHANGED <<disk, line, spool, kept, peer, lost, doubtful>>
  <2>1. /\ cli' \in Client /\ cli'.failed = cli.failed /\ cli'.job = cli.job
        /\ cli'.pc \in {"recv", "commit"}
    BY <1>2 DEF TInv, TypeOK, Client
  <2>2. line' \in Line /\ cli.pc # "import"
    BY <1>2 DEF BeginReceive, TInv, TypeOK
  <2>3. UNCHANGED <<disk, faults, spool, kept, peer, lost, doubtful>>
    BY <1>2 DEF BeginReceive
  <2>4. QED
    BY <2>1, <2>2, <2>3, ReceiveType
<1>3. QED
  BY <1>1, <1>2 DEF BeginReceive

LEMMA ReceiveEobType ==
  ASSUME TInv, ReceiveEob
  PROVE  TInv'
<1>1. line' \in Line
  BY ReadType DEF TInv, ReceiveEob
<1>2. /\ cli' \in Client /\ cli'.failed = cli.failed /\ cli'.job = cli.job
      /\ cli'.pc \in {"recv", "commit"}
  <2>1. CASE cli' = [cli EXCEPT !.eobs = @ + 1,
                                !.pc = IF cli.eobs >= 1 THEN "commit" ELSE "recv"]
    <3>1. cli \in Client /\ cli.eobs + 1 \in Nat
      BY DEF TInv, TypeOK, Client
    <3>2. cli'.eobs = cli.eobs + 1 /\ cli'.pc \in {"recv", "commit"}
      BY <2>1, <3>1 DEF Client
    <3>3. QED
      BY <2>1, <3>1, <3>2 DEF Client
  <2>2. CASE cli' = [cli EXCEPT !.pc = "commit", !.cut = TRUE]
    BY <2>2 DEF TInv, TypeOK, Client
  <2>3. QED
    BY <2>1, <2>2 DEF ReceiveEob
<1>3. UNCHANGED <<disk, faults, spool, kept, peer, lost, doubtful>>
  BY DEF ReceiveEob
<1>4. cli.pc # "import"
  BY DEF ReceiveEob
<1>5. QED
  BY <1>1, <1>2, <1>3, <1>4, ReceiveType

LEMMA ReceiveAnswerType ==
  ASSUME TInv, ReceiveAnswer
  PROVE  TInv'
<1>1. line' \in Line
  BY ReadType DEF TInv, ReceiveAnswer
<1>2. cli' = cli /\ cli.pc = "recv" /\ cli \in Client
  BY DEF ReceiveAnswer, TInv, TypeOK
<1>3. UNCHANGED <<disk, faults, spool, kept, peer, lost, doubtful>>
  BY DEF ReceiveAnswer
<1>4. QED
  BY <1>1, <1>2, <1>3, ReceiveType

LEMMA ReceiveErrType ==
  ASSUME TInv, ReceiveErr
  PROVE  TInv'
<1>1. line' \in Line
  BY ReadType DEF TInv, ReceiveErr
<1>2. /\ cli' \in Client /\ cli'.failed = cli.failed /\ cli'.job = cli.job
      /\ cli'.pc = "commit"
  BY DEF ReceiveErr, TInv, TypeOK, Client
<1>3. cli.pc # "import" /\ UNCHANGED <<disk, faults, spool, kept, peer, lost, doubtful>>
  BY DEF ReceiveErr
<1>4. QED
  BY <1>1, <1>2, <1>3, ReceiveType

LEMMA ReceiveEndsType ==
  ASSUME TInv, ReceiveEnds
  PROVE  TInv'
<1>1. line' \in Line
  BY DEF ReceiveEnds, TInv, TypeOK
<1>2. /\ cli' \in Client /\ cli'.failed = cli.failed /\ cli'.job = cli.job
      /\ cli'.pc = "commit"
  BY DEF ReceiveEnds, TInv, TypeOK, Client
<1>3. cli.pc # "import" /\ UNCHANGED <<disk, faults, spool, kept, peer, lost, doubtful>>
  BY DEF ReceiveEnds
<1>4. QED
  BY <1>1, <1>2, <1>3, ReceiveType

-----------------------------------------------------------------------------
(* Types: the poller and the peer                                           *)

(* A hatch row that failed had a try left, and is failed when it was the    *)
(* last one.                                                                *)
LEMMA CommitType ==
  ASSUME TInv, Commit
  PROVE  TInv'
<1>1. /\ cli' \in Client /\ cli'.failed = cli.failed /\ cli'.pc = "import"
  BY DEF Commit, TInv, TypeOK, Client
<1>2. UNCHANGED <<have, line, faults, spool, kept, peer, lost, doubtful>>
  BY DEF Commit
<1>3. \A j \in Jobs : Retries(j) => tries[j] < RetryMax
  BY DEF Commit, Retries, TInv, Retriable
<1>4. tries' \in [Jobs -> 0 .. RetryMax]
  BY <1>3, ClientAssumption DEF Commit, TInv, TypeOK
<1>5. status' \in [Jobs -> {"pending", "sent", "failed"}]
  BY DEF Commit, TInv, TypeOK
<1>6. ASSUME NEW j \in Jobs, Kind[j] = "hatch", status'[j] = "pending"
      PROVE  tries'[j] < RetryMax
  <2>1. status[j] = "pending" /\ tries[j] < RetryMax
    BY <1>6 DEF Commit, TInv, TypeOK, Retriable
  <2>2. CASE Retries(j)
    <3>1. ~(tries[j] + 1 >= RetryMax)
      <4>1. CASE j \in cli.acked
        BY <1>6, <4>1 DEF Commit
      <4>2. CASE j \notin cli.acked
        BY <1>6, <2>2, <4>2 DEF Commit
      <4>3. QED
        BY <4>1, <4>2
    <3>2. tries'[j] = tries[j] + 1 /\ tries[j] \in Nat
      BY <2>2 DEF Commit, TInv, TypeOK
    <3>3. QED
      BY <3>1, <3>2, ClientAssumption
  <2>3. CASE ~Retries(j)
    BY <2>1, <2>3 DEF Commit
  <2>4. QED
    BY <2>2, <2>3
<1>7. Retriable'
  BY <1>1, <1>6 DEF Retriable
<1>8. QED
  BY <1>1, <1>2, <1>4, <1>5, <1>7 DEF TInv, TypeOK

LEMMA ImportType ==
  ASSUME TInv, Import
  PROVE  TInv'
<1>1. /\ cli' \in Client /\ cli'.failed = {} /\ cli'.pc = "idle"
  BY DEF Import, NoSession, Client
<1>2. line' \in Line
  BY NoLineType DEF Import
<1>3. peer' \in PeerSession
  BY DEF Import, NoPeer, PeerSession
<1>4. have' \subseteq PeerFiles
  BY ClientAssumption DEF TInv, TypeOK, Import, Client
<1>5. /\ status' \in [Jobs -> {"pending", "sent", "failed"}]
      /\ \A j \in Jobs : status'[j] = "pending" => status[j] = "pending"
  BY DEF Import, TInv, TypeOK
<1>6. UNCHANGED <<tries, faults, spool, kept, lost, doubtful>>
  BY DEF Import
<1>7. Retriable'
  BY <1>1, <1>5, <1>6 DEF TInv, Retriable
<1>8. QED
  BY <1>1, <1>2, <1>3, <1>4, <1>5, <1>6, <1>7 DEF TInv, TypeOK

LEMMA DieType ==
  ASSUME TInv, Die
  PROVE  TInv'
<1>1. faults' \in 0 .. MaxFaults
  BY ClientAssumption DEF Die, TInv, TypeOK
<1>2. QED
  BY <1>1, AbandonType DEF Die

(* A step of the peer.                                                      *)
LEMMA PeerType ==
  ASSUME TInv, line' \in Line, peer' \in PeerSession, kept' \subseteq OutFiles,
         UNCHANGED <<disk, cli, faults, spool, lost, doubtful>>
  PROVE  TInv'
<1>1. UNCHANGED <<status, tries, have, cli, faults, spool, lost, doubtful>>
  BY DEF disk
<1>2. QED
  BY <1>1 DEF TInv, TypeOK, Retriable

LEMMA TalkType ==
  ASSUME TInv, NEW f \in Frame, Talk(f)
  PROVE  line' \in Line
<1>1. line.toUs \in Seq(Frame)
  BY DEF TInv, TypeOK, Line
<1>2. Append(line.toUs, f) \in Seq(Frame)
  BY <1>1, AppendProperties
<1>3. QED
  BY <1>2 DEF Talk, TInv, TypeOK, Line

LEMMA PeerSpeaksType ==
  ASSUME TInv, (\E f \in PeerFiles : PeerOffers(f)) \/ PeerSends \/ PeerChats \/ PeerEob
  PROVE  TInv'
<1>1. CASE \E f \in PeerFiles : PeerOffers(f)
  <2>1. PICK f \in PeerFiles : PeerOffers(f)
    BY <1>1
  <2>2. [cmd |-> "file", about |-> f] \in Frame
    BY DEF Frame
  <2>3. line' \in Line
    BY <2>1, <2>2, TalkType DEF PeerOffers
  <2>4. peer' \in PeerSession
    <3>1. PICK rest \in {f, NoFile} :
            peer' = [peer EXCEPT !.sending = rest, !.offered = @ \union {f}]
      BY <2>1 DEF PeerOffers
    <3>2. QED
      BY <3>1 DEF TInv, TypeOK, PeerSession
  <2>5. kept' \subseteq OutFiles /\ UNCHANGED <<disk, cli, faults, spool, lost, doubtful>>
    BY <2>1 DEF PeerOffers, TInv, TypeOK
  <2>6. QED
    BY <2>3, <2>4, <2>5, PeerType
<1>2. CASE PeerSends
  <2>1. [cmd |-> "data", about |-> peer.sending] \in Frame
    BY <1>2 DEF PeerSends, Frame, TInv, TypeOK, PeerSession
  <2>2. line' \in Line
    BY <1>2, <2>1, TalkType DEF PeerSends
  <2>3. peer' \in PeerSession
    BY <1>2 DEF PeerSends, TInv, TypeOK, PeerSession
  <2>4. kept' \subseteq OutFiles /\ UNCHANGED <<disk, cli, faults, spool, lost, doubtful>>
    BY <1>2 DEF PeerSends, TInv, TypeOK
  <2>5. QED
    BY <2>2, <2>3, <2>4, PeerType
<1>3. CASE PeerEob
  <2>1. [cmd |-> "eob", about |-> NoFile] \in Frame
    BY DEF Frame
  <2>2. line' \in Line
    BY <1>3, <2>1, TalkType DEF PeerEob
  <2>3. peer' \in PeerSession
    BY <1>3 DEF PeerEob, TInv, TypeOK, PeerSession
  <2>4. kept' \subseteq OutFiles /\ UNCHANGED <<disk, cli, faults, spool, lost, doubtful>>
    BY <1>3 DEF PeerEob, TInv, TypeOK
  <2>5. QED
    BY <2>2, <2>3, <2>4, PeerType
<1>4. CASE PeerChats
  <2>1. [cmd |-> "nul", about |-> NoFile] \in Frame
    BY DEF Frame
  <2>2. line' \in Line
    BY <1>4, <2>1, TalkType DEF PeerChats
  <2>3. /\ peer' \in PeerSession /\ kept' \subseteq OutFiles
        /\ UNCHANGED <<disk, cli, faults, spool, lost, doubtful>>
    BY <1>4 DEF PeerChats, TInv, TypeOK
  <2>4. QED
    BY <2>2, <2>3, PeerType
<1>5. QED
  BY <1>1, <1>2, <1>3, <1>4

LEMMA PeerAnswersType ==
  ASSUME TInv, NEW cmd \in {"got", "skip"}, PeerAnswers(cmd)
  PROVE  TInv'
<1>1. line.toPeer \in Seq(OutFiles) /\ line.toPeer # <<>> /\ line.toUs \in Seq(Frame)
  BY DEF PeerAnswers, TInv, TypeOK, Line
<1>2. Head(line.toPeer) \in OutFiles /\ Tail(line.toPeer) \in Seq(OutFiles)
  BY <1>1, HeadTailProperties
<1>3. [cmd |-> cmd, about |-> Head(line.toPeer)] \in Frame
  BY <1>2 DEF Frame
<1>4. Append(line.toUs, [cmd |-> cmd, about |-> Head(line.toPeer)]) \in Seq(Frame)
  BY <1>1, <1>3, AppendProperties
<1>5. line' \in Line
  BY <1>2, <1>4 DEF PeerAnswers, TInv, TypeOK, Line
<1>6. kept' \subseteq OutFiles
  BY <1>2 DEF PeerAnswers, TInv, TypeOK
<1>7. peer' \in PeerSession /\ UNCHANGED <<disk, cli, faults, spool, lost, doubtful>>
  BY DEF PeerAnswers, TInv, TypeOK
<1>8. QED
  BY <1>5, <1>6, <1>7, PeerType

LEMMA PeerClosesType ==
  ASSUME TInv, PeerCloses
  PROVE  TInv'
<1>1. line.toUs \in Seq(Frame)
  BY DEF TInv, TypeOK, Line
<1>2. \A q \in Seq(Frame) : [NoLine EXCEPT !.toUs = q] \in Line
  BY NoLineType DEF Line
<1>3. line' \in Line
  <2>1. CASE \E n \in 0 .. Len(line.toUs) : line' = [NoLine EXCEPT !.toUs = SubSeq(line.toUs, 1, n)]
    <3>1. PICK n \in 0 .. Len(line.toUs) : line' = [NoLine EXCEPT !.toUs = SubSeq(line.toUs, 1, n)]
      BY <2>1
    <3>2. n \in Int /\ \A i \in 1 .. n : line.toUs[i] \in Frame
      BY <1>1
    <3>3. SubSeq(line.toUs, 1, n) \in Seq(Frame)
      BY <3>2, SubSeqProperties
    <3>4. QED
      BY <1>2, <3>1, <3>3
  <2>2. CASE line' = [NoLine EXCEPT !.toUs = Append(line.toUs, [cmd |-> "err", about |-> NoFile])]
    <3>1. [cmd |-> "err", about |-> NoFile] \in Frame
      BY DEF Frame
    <3>2. Append(line.toUs, [cmd |-> "err", about |-> NoFile]) \in Seq(Frame)
      BY <1>1, <3>1, AppendProperties
    <3>3. QED
      BY <1>2, <2>2, <3>2
  <2>3. QED
    BY <2>1, <2>2 DEF PeerCloses
<1>4. peer' \in PeerSession
  BY DEF PeerCloses, TInv, TypeOK, PeerSession
<1>5. kept' \subseteq OutFiles /\ UNCHANGED <<disk, cli, faults, spool, lost, doubtful>>
  BY DEF PeerCloses, TInv, TypeOK
<1>6. QED
  BY <1>3, <1>4, <1>5, PeerType

-----------------------------------------------------------------------------
LEMMA InitType == Init => TInv
<1> SUFFICES ASSUME Init PROVE TInv
  OBVIOUS
<1>1. NoSession \in Client /\ NoSession.failed = {} /\ NoSession.pc = "idle"
  BY DEF NoSession, Client
<1>2. NoPeer \in PeerSession
  BY DEF NoPeer, PeerSession
<1>3. TypeOK
  BY <1>1, <1>2, NoLineType, ClientAssumption DEF Init, TypeOK
<1>4. Retriable
  BY <1>1, ClientAssumption DEF Init, Retriable
<1>5. QED
  BY <1>3, <1>4 DEF TInv

LEMMA StepType == TInv /\ [Next]_vars => TInv'
<1> SUFFICES ASSUME TInv, [Next]_vars PROVE TInv'
  OBVIOUS
<1>1. CASE Dial
  BY <1>1, DialType
<1>2. CASE Offer \/ Unsendable
  BY <1>2, OfferType, UnsendableType
<1>3. CASE ReadFile \/ ReadSkipped \/ ReadData \/ ReadFails
  BY <1>3, ReadFileType, ReadSkippedType, ReadDataType, ReadFailsType
<1>4. CASE WaitRaises
  BY <1>4, AbandonType DEF WaitRaises, TInv, TypeOK
<1>5. CASE WaitGot \/ WaitRefused \/ WaitEob \/ WaitExpires
  BY <1>5, WaitGotType, WaitRefusedType, WaitEobType, WaitExpiresType
<1>6. CASE Receiving
  BY <1>6, BeginReceiveType, ReceiveEobType, ReceiveAnswerType, ReceiveErrType,
     ReceiveEndsType DEF Receiving
<1>7. CASE Commit \/ Import \/ Die
  BY <1>7, CommitType, ImportType, DieType
<1>8. CASE Peer
  BY <1>8, PeerSpeaksType, PeerAnswersType, PeerClosesType DEF Peer
<1>9. CASE UNCHANGED vars
  BY <1>9 DEF vars, disk, TInv, TypeOK, Retriable
<1>10. CASE ReadNul \/ ReadUnsized \/ Drain
  BY <1>10, PassedOverType
<1>11. QED
  BY <1>1, <1>2, <1>3, <1>4, <1>5, <1>6, <1>7, <1>8, <1>9, <1>10 DEF Next, Poll, Waiting

(* The types, for any jobs, files and bounds; in particular no hatch row is *)
(* tried more than RetryMax times, however sessions end                     *)
(* (record_hatch_attempt_failure and the query of pending rows).            *)
THEOREM TypeCorrect == Spec => []TypeOK
<1>1. TInv => TypeOK
  BY DEF TInv
<1>2. QED
  BY <1>1, InitType, StepType, PTL DEF Spec

-----------------------------------------------------------------------------
(* What becomes of the peer's files                                         *)

(* A step that gives up no file but what it holds, and keeps what it holds. *)
LEMMA KeepsHeld ==
  ASSUME InboundKept, Held \subseteq Held', spool \subseteq spool' \union Held'
  PROVE  InboundKept'
BY DEF InboundKept, Held

(* A step within a session that leaves files and memory alone.              *)
LEMMA SessionKeeps ==
  ASSUME IInv, cli'.pc # "idle",
         cli'.interleaved = cli.interleaved, cli'.parsed = cli.parsed,
         have' = have, spool' = spool, lost' = lost
  PROVE  NothingForgotten' /\ InboundKept'
<1>1. NothingForgotten' /\ Held \subseteq Held'
  BY DEF NothingForgotten, Held, InMemory
<1>2. QED
  BY <1>1, KeepsHeld DEF IInv

(* A poll that raises gives what it had in memory up to lost.               *)
LEMMA AbandonKeeps ==
  ASSUME IInv, Abandon
  PROVE  NothingForgotten' /\ InboundKept'
<1>1. NothingForgotten'
  BY DEF Abandon, NoSession, NothingForgotten, InMemory
<1>2. spool' = spool /\ Held \subseteq Held'
  BY DEF Abandon, Held, InMemory, disk
<1>3. QED
  BY <1>1, <1>2, KeepsHeld DEF IInv

(* A complete file is in memory, on disk or dropped when the peer may       *)
(* forget it.                                                               *)
LEMMA ReadKeeps ==
  ASSUME IInv, ReadData \/ ReadFails
  PROVE  NothingForgotten' /\ InboundKept'
<1>1. CASE ReadData
  <2>1. cli \in Client
    BY DEF IInv, TInv, TypeOK
  <2>2. /\ cli'.pc # "idle"
        /\ cli'.interleaved \union cli'.parsed =
             cli.interleaved \union cli.parsed \union ({cli.open} \intersect Mail)
    <3>1. CASE cli' = [cli EXCEPT !.open = NoFile, !.interleaved = @ \union ({cli.open} \intersect Mail)]
      BY <1>1, <2>1, <3>1 DEF ReadData, DataFrame, Client
    <3>2. CASE cli' = [cli EXCEPT !.open = NoFile, !.parsed = @ \union ({cli.open} \intersect Mail)]
      BY <1>1, <2>1, <3>2 DEF ReadData, DataFrame, Client
    <3>3. QED
      BY <1>1, <3>1, <3>2 DEF ReadData
  <2>3. have' = have \union ({cli.open} \ Mail) /\ lost' = lost
    BY <1>1 DEF ReadData
  <2>4. Held \union {cli.open} \subseteq Held'
    BY <2>2, <2>3 DEF Held, InMemory
  <2>5. spool \subseteq spool' \union {cli.open}
    BY <1>1 DEF ReadData, Acknowledge
  <2>6. QED
    BY <2>2, <2>4, <2>5, KeepsHeld DEF IInv, NothingForgotten
<1>2. CASE ReadFails
  <2>1. /\ cli'.pc # "idle"
        /\ cli'.interleaved = cli.interleaved /\ cli'.parsed = cli.parsed
    BY <1>2 DEF ReadFails, DataFrame, IInv, TInv, TypeOK, Client
  <2>2. Held \union {cli.open} \subseteq Held'
    BY <1>2, <2>1 DEF ReadFails, Held, InMemory, disk
  <2>3. spool \subseteq spool' \union {cli.open}
    BY <1>2 DEF ReadFails, Acknowledge
  <2>4. QED
    BY <2>1, <2>2, <2>3, KeepsHeld DEF IInv, NothingForgotten
<1>3. QED
  BY <1>1, <1>2

(* Jobs begin and end without a word about the peer's files.                *)
LEMMA JobKeeps ==
  ASSUME IInv, Dial \/ Unsendable \/ WaitGot \/ WaitRefused \/ WaitExpires
  PROVE  NothingForgotten' /\ InboundKept'
<1>1. have' = have /\ spool' = spool /\ lost' = lost
  BY DEF Dial, Unsendable, WaitGot, WaitRefused, WaitExpires, disk
<1>2. cli \in Client
  BY DEF IInv, TInv, TypeOK
<1>3. CASE Dial
  <2>1. NoSession \in Client /\ NoSession.interleaved = {} /\ NoSession.parsed = {}
    BY DEF NoSession, Client
  <2>2. cli'.pc # "idle" /\ cli'.interleaved = {} /\ cli'.parsed = {}
    BY <1>3, <2>1, ProceedType DEF Dial
  <2>3. cli.interleaved = {} /\ cli.parsed = {}
    BY <1>3 DEF Dial, IInv, NothingForgotten, InMemory
  <2>4. QED
    BY <1>1, <2>2, <2>3, SessionKeeps
<1>4. CASE Unsendable
  <2>1. cli.job \in Jobs
    BY <1>4, JobType DEF Unsendable, IInv
  <2>2. /\ [cli EXCEPT !.failed = @ \union {cli.job}] \in Client
        /\ [cli EXCEPT !.failed = @ \union {cli.job}].interleaved = cli.interleaved
        /\ [cli EXCEPT !.failed = @ \union {cli.job}].parsed = cli.parsed
    BY <1>2, <2>1 DEF Client
  <2>3. cli'.pc # "idle" /\ cli'.interleaved = cli.interleaved /\ cli'.parsed = cli.parsed
    BY <1>4, <2>2, ProceedType DEF Unsendable
  <2>4. QED
    BY <1>1, <2>3, SessionKeeps
<1>5. CASE WaitGot \/ WaitRefused \/ WaitExpires
  <2>1. cli.pc = "wait"
    BY <1>5 DEF WaitGot, WaitRefused, WaitExpires
  <2>2. EndWait \in Client /\ EndWait.interleaved = cli.interleaved /\ EndWait.parsed = cli.parsed
    BY <1>2, EndWaitType
  <2>3. CASE cli' = [EndWait EXCEPT !.pc = "send", !.part = 2]
    BY <1>1, <2>2, <2>3, SessionKeeps DEF Client
  <2>4. CASE \/ Proceed([EndWait EXCEPT !.acked = @ \union {cli.job}], cli.job)
             \/ Proceed([EndWait EXCEPT !.failed = @ \union {cli.job}], cli.job)
             \/ Proceed([EndWait EXCEPT !.failed = @ \union {cli.job}, !.late = TRUE], cli.job)
    <3>1. PICK c \in Client : /\ Proceed(c, cli.job)
                             /\ c.interleaved = cli.interleaved /\ c.parsed = cli.parsed
      <4>1. /\ [EndWait EXCEPT !.acked = @ \union {cli.job}] \in Client
            /\ [EndWait EXCEPT !.failed = @ \union {cli.job}] \in Client
            /\ [EndWait EXCEPT !.failed = @ \union {cli.job}, !.late = TRUE] \in Client
        BY <2>1, EndWaitWith DEF IInv
      <4>2. \A c \in {[EndWait EXCEPT !.acked = @ \union {cli.job}],
                      [EndWait EXCEPT !.failed = @ \union {cli.job}],
                      [EndWait EXCEPT !.failed = @ \union {cli.job}, !.late = TRUE]} :
              c.interleaved = EndWait.interleaved /\ c.parsed = EndWait.parsed
        BY <2>2 DEF Client
      <4>3. QED
        BY <2>2, <2>4, <4>1, <4>2
    <3>2. cli'.pc # "idle" /\ cli'.interleaved = cli.interleaved /\ cli'.parsed = cli.parsed
      BY <3>1, ProceedType
    <3>3. QED
      BY <1>1, <3>2, SessionKeeps
  <2>5. QED
    BY <1>5, <2>3, <2>4 DEF WaitGot, WaitRefused, WaitExpires
<1>6. QED
  BY <1>3, <1>4, <1>5

(* Every other step of poll() and the commit leave files and memory alone.  *)
LEMMA QuietKeeps ==
  ASSUME IInv,
         ReadFile \/ ReadSkipped \/ WaitEob \/ ReceiveEob \/ ReceiveAnswer
           \/ ReceiveErr \/ ReceiveEnds \/ Commit
  PROVE  NothingForgotten' /\ InboundKept'
<1>1. have' = have /\ spool' = spool /\ lost' = lost
  BY DEF ReadFile, ReadSkipped, WaitEob, ReceiveEob, ReceiveAnswer, ReceiveErr,
     ReceiveEnds, Commit, disk
<1>2. cli \in Client
  BY DEF IInv, TInv, TypeOK
<1>3. cli'.pc # "idle" /\ cli'.interleaved = cli.interleaved /\ cli'.parsed = cli.parsed
  <2>1. CASE ReadFile \/ ReadSkipped
    BY <1>2, <2>1 DEF ReadFile, ReadSkipped, DataFrame, Client
  <2>2. CASE WaitEob
    BY <1>2, <2>2 DEF WaitEob, Client
  <2>3. CASE ReceiveEob
    BY <1>2, <2>3 DEF ReceiveEob, Client
  <2>4. CASE ReceiveAnswer \/ ReceiveErr \/ ReceiveEnds
    BY <1>2, <2>4 DEF ReceiveAnswer, ReceiveErr, ReceiveEnds, Client
  <2>5. CASE Commit
    BY <1>2, <2>5 DEF Commit, Client
  <2>6. QED
    BY <2>1, <2>2, <2>3, <2>4, <2>5
<1>4. QED
  BY <1>1, <1>3, SessionKeeps

(* Offering and the first M_EOB may raise.                                  *)
LEMMA SendKeeps ==
  ASSUME IInv, Offer \/ BeginReceive \/ WaitRaises \/ Die
  PROVE  NothingForgotten' /\ InboundKept'
<1>1. CASE Abandon
  BY <1>1, AbandonKeeps
<1>2. CASE (Offer \/ BeginReceive) /\ ~Abandon
  <2>1. have' = have /\ spool' = spool /\ lost' = lost
    BY <1>2 DEF Offer, BeginReceive, disk
  <2>2. cli \in Client
    BY DEF IInv, TInv, TypeOK
  <2>3. cli'.pc # "idle" /\ cli'.interleaved = cli.interleaved /\ cli'.parsed = cli.parsed
    <3>1. CASE Offer
      BY <1>2, <2>2, <3>1 DEF Offer, Client
    <3>2. CASE BeginReceive
      BY <1>2, <2>2, <3>2 DEF BeginReceive, Client
    <3>3. QED
      BY <1>2, <3>1, <3>2
  <2>4. QED
    BY <2>1, <2>3, SessionKeeps
<1>3. QED
  BY <1>1, <1>2 DEF WaitRaises, Die

(* Importing takes everything there is in memory.                           *)
LEMMA ImportKeeps ==
  ASSUME IInv, Import
  PROVE  NothingForgotten' /\ InboundKept'
<1>1. NothingForgotten'
  BY DEF Import, NoSession, NothingForgotten, InMemory
<1>2. spool' = spool /\ Held \subseteq Held'
  BY DEF Import, Held, InMemory
<1>3. QED
  BY <1>1, <1>2, KeepsHeld DEF IInv

LEMMA StepKeeps == IInv /\ [Next]_vars => IInv'
<1> SUFFICES ASSUME IInv, [Next]_vars PROVE NothingForgotten' /\ InboundKept'
  BY StepType DEF IInv
<1>1. CASE Dial \/ Unsendable \/ WaitGot \/ WaitRefused \/ WaitExpires
  BY <1>1, JobKeeps
<1>2. CASE Offer \/ BeginReceive \/ WaitRaises \/ Die
  BY <1>2, SendKeeps
<1>3. CASE ReadData \/ ReadFails
  BY <1>3, ReadKeeps
<1>4. CASE \/ ReadFile \/ ReadSkipped \/ WaitEob \/ ReceiveEob \/ ReceiveAnswer
           \/ ReceiveErr \/ ReceiveEnds \/ Commit
  BY <1>4, QuietKeeps
<1>5. CASE Import
  BY <1>5, ImportKeeps
<1>6. CASE ReadNul \/ ReadUnsized \/ Drain \/ Peer \/ UNCHANGED vars
  <2>1. cli' = cli /\ have' = have /\ spool' = spool /\ lost' = lost
    BY <1>6, PassedOver DEF Peer, PeerOffers, PeerSends, PeerChats, PeerEob, PeerCloses,
       PeerAnswers, vars, disk
  <2>2. QED
    BY <2>1 DEF IInv, NothingForgotten, InboundKept, InMemory
<1>7. QED
  BY <1>1, <1>2, <1>3, <1>4, <1>5, <1>6 DEF Next, Poll, Waiting, Receiving

(* A file the peer no longer has is here, on disk, imported or in memory,   *)
(* or it was unreadable or in the memory of a poll that raised or died, for *)
(* any files, jobs and order of frames (_consume_inbound_file_frame and the *)
(* result of poll).                                                         *)
THEOREM NoFileForgotten == Spec => []InboundKept
<1>1. Init => IInv
  BY InitType DEF Init, IInv, NoSession, NothingForgotten, InboundKept, InMemory
<1>2. IInv => InboundKept
  BY DEF IInv
<1>3. QED
  BY <1>1, <1>2, StepKeeps, PTL DEF Spec
-----------------------------------------------------------------------------
(* What is on the line                                                      *)

(* Reading takes the first frame and moves the others up.                   *)
LEMMA ReadShifts ==
  ASSUME TypeOK, Read
  PROVE  /\ Len(line.toUs) \in Nat \ {0}
         /\ DOMAIN line.toUs = 1 .. Len(line.toUs)
         /\ Len(line'.toUs) = Len(line.toUs) - 1
         /\ DOMAIN line'.toUs = 1 .. Len(line.toUs) - 1
         /\ \A i \in DOMAIN line'.toUs :
              i + 1 \in DOMAIN line.toUs /\ line'.toUs[i] = line.toUs[i + 1]
         /\ 1 \in DOMAIN line.toUs /\ Next1 = line.toUs[1]
         /\ line'.toPeer = line.toPeer /\ line'.up = line.up
<1> DEFINE s == line.toUs
<1>1. s \in Seq(Frame) /\ s # <<>>
  BY DEF TypeOK, Read, Line
<1>2. Len(s) \in Nat /\ DOMAIN s = 1 .. Len(s)
  BY <1>1, LenProperties
<1>3. Len(s) # 0
  BY <1>1, EmptySeq
<1>4. /\ Tail(s) \in Seq(Frame) /\ Len(Tail(s)) = Len(s) - 1
      /\ \A i \in 1 .. Len(Tail(s)) : Tail(s)[i] = s[i + 1]
  BY <1>1, HeadTailProperties
<1>5. DOMAIN Tail(s) = 1 .. Len(Tail(s))
  BY <1>4, LenProperties
<1>6. Head(s) = s[1]
  BY <1>1
<1>7. line'.toUs = Tail(s) /\ line'.toPeer = line.toPeer /\ line'.up = line.up
  BY DEF Read, TypeOK, Line
<1> QED
  BY <1>2, <1>3, <1>4, <1>5, <1>6, <1>7 DEF Next1

(* What the peer says comes last.                                           *)
LEMMA TalkAppends ==
  ASSUME TypeOK, NEW x \in Frame, line'.toUs = Append(line.toUs, x)
  PROVE  /\ Len(line.toUs) \in Nat /\ DOMAIN line.toUs = 1 .. Len(line.toUs)
         /\ Len(line'.toUs) = Len(line.toUs) + 1
         /\ DOMAIN line'.toUs = 1 .. Len(line.toUs) + 1
         /\ \A i \in DOMAIN line.toUs : line'.toUs[i] = line.toUs[i]
         /\ line'.toUs[Len(line.toUs) + 1] = x
<1> DEFINE s == line.toUs
<1>1. s \in Seq(Frame)
  BY DEF TypeOK, Line
<1>2. Len(s) \in Nat /\ DOMAIN s = 1 .. Len(s)
  BY <1>1, LenProperties
<1>3. /\ Append(s, x) \in Seq(Frame) /\ Len(Append(s, x)) = Len(s) + 1
      /\ \A i \in 1 .. Len(s) : Append(s, x)[i] = s[i]
      /\ Append(s, x)[Len(s) + 1] = x
  BY <1>1, AppendProperties
<1>4. DOMAIN Append(s, x) = 1 .. Len(Append(s, x))
  BY <1>3, LenProperties
<1> QED
  BY <1>2, <1>3, <1>4

(* When the connection ends some frames are left, or all and an M_ERR.      *)
LEMMA CloseCuts ==
  ASSUME TypeOK, PeerCloses
  PROVE  /\ line.up /\ ~ line'.up /\ line'.toPeer = <<>>
         /\ Len(line.toUs) \in Nat /\ DOMAIN line.toUs = 1 .. Len(line.toUs)
         /\ Len(line'.toUs) \in Nat /\ DOMAIN line'.toUs = 1 .. Len(line'.toUs)
         /\ \A i \in DOMAIN line'.toUs :
              \/ i \in DOMAIN line.toUs /\ line'.toUs[i] = line.toUs[i]
              \/ i = Len(line'.toUs) /\ i = Len(line.toUs) + 1
                   /\ line'.toUs[i] = [cmd |-> "err", about |-> NoFile]
<1> DEFINE s == line.toUs
           e == [cmd |-> "err", about |-> NoFile]
<1>1. s \in Seq(Frame) /\ Len(s) \in Nat /\ DOMAIN s = 1 .. Len(s)
  BY LenProperties DEF TypeOK, Line
<1>2. CASE \E n \in 0 .. Len(s) : line' = [NoLine EXCEPT !.toUs = SubSeq(s, 1, n)]
  <2>1. PICK n \in 0 .. Len(s) : line' = [NoLine EXCEPT !.toUs = SubSeq(s, 1, n)]
    BY <1>2
  <2>2. n \in Int /\ \A i \in 1 .. n : s[i] \in Frame
    BY <1>1
  <2>3. /\ SubSeq(s, 1, n) \in Seq(Frame)
        /\ Len(SubSeq(s, 1, n)) = n
        /\ \A i \in 1 .. n : SubSeq(s, 1, n)[i] = s[i]
    <3>1. /\ SubSeq(s, 1, n) \in Seq(Frame)
          /\ Len(SubSeq(s, 1, n)) = IF 1 <= n THEN n - 1 + 1 ELSE 0
          /\ \A i \in 1 .. n - 1 + 1 : SubSeq(s, 1, n)[i] = s[1 + i - 1]
      BY <2>2, SubSeqProperties
    <3> QED
      BY <2>1, <3>1
  <2>4. DOMAIN SubSeq(s, 1, n) = 1 .. n
    BY <2>3, LenProperties
  <2>5. line'.toUs = SubSeq(s, 1, n) /\ line'.toPeer = <<>> /\ ~ line'.up
    BY <2>1 DEF NoLine
  <2> QED
    BY <1>1, <2>1, <2>3, <2>4, <2>5 DEF PeerCloses
<1>3. CASE line' = [NoLine EXCEPT !.toUs = Append(s, e)]
  <2>1. line'.toUs = Append(s, e) /\ line'.toPeer = <<>> /\ ~ line'.up
    BY <1>3 DEF NoLine
  <2>2. e \in Frame
    BY DEF Frame
  <2>3. /\ Len(line'.toUs) = Len(s) + 1 /\ DOMAIN line'.toUs = 1 .. Len(s) + 1
        /\ \A i \in DOMAIN s : line'.toUs[i] = s[i]
        /\ line'.toUs[Len(s) + 1] = e
    BY <2>1, <2>2, TalkAppends
  <2> QED
    BY <1>1, <2>1, <2>3 DEF PeerCloses
<1> QED
  BY <1>2, <1>3 DEF PeerCloses

(* What the session knows is kept when it goes on to another job.           *)
LEMMA ProceedKeeps ==
  ASSUME NEW c \in Client, NEW j, Proceed(c, j)
  PROVE  /\ cli'.open = c.open /\ cli'.eobs = c.eobs /\ cli'.straddled = c.straddled
         /\ cli'.acked = c.acked /\ cli'.cut = c.cut
         /\ \/ cli'.pc = "send" /\ cli'.part = 1 /\ cli'.late = c.late
            \/ cli'.pc = "eob"
<1>1. CASE \E k \in After(j) : cli' = [c EXCEPT !.pc = "send", !.job = k, !.part = 1]
  BY <1>1 DEF Client
<1>2. CASE cli' = [c EXCEPT !.pc = "eob", !.job = 0, !.part = 1, !.late = FALSE]
  BY <1>2 DEF Client
<1> QED
  BY <1>1, <1>2 DEF Proceed

-----------------------------------------------------------------------------
(* What counts as sent                                                      *)

Answer(i) == line.toUs[i].cmd \in {"got", "skip"}

(* Nothing of ours waits for an answer, ...                                 *)
NoneAsked == line.toPeer = <<>> /\ \A i \in DOMAIN line.toUs : ~ Answer(i)

(* ... or f at most does: before the peer has seen it or after, but not both. *)
Asked(f) ==
  /\ \/ line.toPeer = <<>>
     \/ line.toPeer = <<f>> /\ \A i \in DOMAIN line.toUs : ~ Answer(i)
  /\ \A i \in DOMAIN line.toUs : Answer(i) =>
       /\ line.toUs[i].cmd = "got" => f \in kept
       /\ \A k \in DOMAIN line.toUs : Answer(k) => k = i

(* M_ERR is the last the peer says.                                         *)
LineEnds ==
  /\ ~ line.up => line.toPeer = <<>>
  /\ \A i \in DOMAIN line.toUs :
       line.toUs[i].cmd = "err" => ~ line.up /\ i = Len(line.toUs)

(* While every wait has had its answer, the one that may come is for the    *)
(* file the client waits for.                                               *)
AnswersMatch ==
  cli.pc \in {"send", "wait"} =>
    /\ cli.part = 2 => Kind[cli.job] = "hatch"
    /\ ~ cli.late =>
         /\ cli.part = 2 => <<cli.job, 1>> \in kept
         /\ cli.pc = "send" => NoneAsked
         /\ cli.pc = "wait" => Asked(<<cli.job, cli.part>>)

Accounted(j) == FilesOf(j) \subseteq kept \/ j \in doubtful

SentInv == AnswersMatch /\ LineEnds /\ SentKept /\ \A j \in cli.acked : Accounted(j)

(* The peer forgets nothing, and a doubt is never settled.                  *)
LEMMA SentGrows ==
  ASSUME SentInv, kept \subseteq kept', doubtful \subseteq doubtful'
  PROVE  /\ \A j : Accounted(j) => Accounted(j)'
         /\ \A j \in cli.acked : Accounted(j)'
         /\ \A j \in Jobs : status[j] = "sent" => Accounted(j)'
<1>1. \A j : Accounted(j) => Accounted(j)'
  BY DEF Accounted, FilesOf
<1> QED
  BY <1>1 DEF SentInv, SentKept, Accounted

(* Rows become sent only where the peer has kept the files.                 *)
LEMMA SentStep ==
  ASSUME SentInv, AnswersMatch', LineEnds', kept \subseteq kept', doubtful \subseteq doubtful',
         \A j \in cli'.acked : j \in cli.acked \/ Accounted(j)',
         \A j \in Jobs : status'[j] = "sent" =>
           status[j] = "sent" \/ j \in cli.acked \/ Accounted(j)'
  PROVE  SentInv'
  BY SentGrows DEF SentInv, SentKept, Accounted

(* A frame that ends the wait leaves nothing to be answered.                *)
LEMMA AnswerTaken ==
  ASSUME TypeOK, SentInv, cli.pc = "wait", ~ cli.late, Read,
         Next1.cmd \in {"got", "skip", "err"}
  PROVE  /\ line'.toPeer = <<>> /\ \A i \in DOMAIN line'.toUs : ~ Answer(i)'
         /\ Next1.cmd = "got" => <<cli.job, cli.part>> \in kept
<1> DEFINE f == <<cli.job, cli.part>>
<1>1. Asked(f) /\ LineEnds
  BY DEF SentInv, AnswersMatch
<1>2. /\ Len(line.toUs) \in Nat \ {0} /\ DOMAIN line.toUs = 1 .. Len(line.toUs)
      /\ DOMAIN line'.toUs = 1 .. Len(line.toUs) - 1
      /\ \A i \in DOMAIN line'.toUs :
           i + 1 \in DOMAIN line.toUs /\ line'.toUs[i] = line.toUs[i + 1]
      /\ 1 \in DOMAIN line.toUs /\ Next1 = line.toUs[1]
      /\ line'.toPeer = line.toPeer /\ line'.up = line.up
  BY ReadShifts
<1> HIDE DEF f
<1>3. CASE Next1.cmd \in {"got", "skip"}
  <2>1. Answer(1)
    BY <1>2, <1>3 DEF Answer
  <2>2. line.toPeer = <<>>
    BY <1>1, <1>2, <2>1 DEF Asked
  <2>3. \A i \in DOMAIN line'.toUs : ~ Answer(i)'
    <3> SUFFICES ASSUME NEW i \in DOMAIN line'.toUs, Answer(i)' PROVE FALSE
      OBVIOUS
    <3>1. Answer(i + 1) /\ i + 1 \in DOMAIN line.toUs
      BY <1>2 DEF Answer
    <3>2. i + 1 = 1 /\ i \in Nat \ {0}
      BY <1>1, <1>2, <2>1, <3>1 DEF Asked
    <3> QED
      BY <3>2
  <2>4. Next1.cmd = "got" => f \in kept
    BY <1>1, <1>2, <2>1 DEF Asked
  <2> QED
    BY <1>2, <2>2, <2>3, <2>4 DEF f
<1>4. CASE Next1.cmd = "err"
  <2>1. ~ line.up /\ 1 = Len(line.toUs)
    BY <1>1, <1>2, <1>4 DEF LineEnds
  <2>2. line.toPeer = <<>> /\ DOMAIN line'.toUs = {}
    BY <1>1, <1>2, <2>1 DEF LineEnds
  <2> QED
    BY <1>2, <1>4, <2>2
<1> QED
  BY <1>3, <1>4

(* The line stays in order, whatever is read from it.                       *)
LEMMA ReadEnds ==
  ASSUME TypeOK, LineEnds, Read
  PROVE  LineEnds'
<1>1. /\ Len(line.toUs) \in Nat
      /\ Len(line'.toUs) = Len(line.toUs) - 1
      /\ DOMAIN line'.toUs = 1 .. Len(line.toUs) - 1
      /\ \A i \in DOMAIN line'.toUs :
           i + 1 \in DOMAIN line.toUs /\ line'.toUs[i] = line.toUs[i + 1]
      /\ line'.toPeer = line.toPeer /\ line'.up = line.up
  BY ReadShifts
<1>2. ASSUME NEW i \in DOMAIN line'.toUs, line'.toUs[i].cmd = "err"
      PROVE  ~ line'.up /\ i = Len(line'.toUs)
  <2>1. ~ line.up /\ i + 1 = Len(line.toUs) /\ i \in Nat
    BY <1>1, <1>2 DEF LineEnds
  <2> QED
    BY <1>1, <2>1
<1> QED
  BY <1>1, <1>2 DEF LineEnds

(* Reading on in a wait, or past the sending phase.                         *)
LEMMA ReadOn ==
  ASSUME TypeOK, SentInv, Read, UNCHANGED <<status, kept, doubtful>>, cli'.acked = cli.acked,
         \/ cli'.pc \notin {"send", "wait"}
         \/ /\ cli.pc = "wait" /\ cli'.pc = "wait" /\ cli'.job = cli.job
            /\ cli'.part = cli.part /\ cli'.late = cli.late
            /\ Next1.cmd \notin {"got", "skip"}
  PROVE  SentInv'
<1>1. LineEnds'
  BY ReadEnds DEF SentInv
<1>2. AnswersMatch'
  <2>1. CASE cli'.pc \notin {"send", "wait"}
    BY <2>1 DEF AnswersMatch
  <2>2. CASE /\ cli.pc = "wait" /\ cli'.pc = "wait" /\ cli'.job = cli.job
             /\ cli'.part = cli.part /\ cli'.late = cli.late
    <3>1. cli.part = 2 => Kind[cli.job] = "hatch"
      BY <2>2 DEF SentInv, AnswersMatch
    <3>2. ASSUME ~ cli.late PROVE (cli.part = 2 => <<cli.job, 1>> \in kept) /\ Asked(<<cli.job, cli.part>>)
      BY <2>2, <3>2 DEF SentInv, AnswersMatch
    <3>3. /\ DOMAIN line'.toUs = 1 .. Len(line.toUs) - 1 /\ Len(line.toUs) \in Nat
          /\ \A i \in DOMAIN line'.toUs :
               i + 1 \in DOMAIN line.toUs /\ line'.toUs[i] = line.toUs[i + 1]
          /\ line'.toPeer = line.toPeer
      BY ReadShifts
    <3>4. ASSUME NEW f, Asked(f) PROVE Asked(f)'
      <4>1. \A i \in DOMAIN line'.toUs : Answer(i)' => Answer(i + 1) /\ i \in Nat
        BY <3>3 DEF Answer
      <4>2. ASSUME NEW i \in DOMAIN line'.toUs, NEW k \in DOMAIN line'.toUs, Answer(i)', Answer(k)'
            PROVE  k = i
        <5>1. Answer(i + 1) /\ Answer(k + 1) /\ i \in Nat /\ k \in Nat
          BY <4>1, <4>2
        <5>2. i + 1 \in DOMAIN line.toUs /\ k + 1 \in DOMAIN line.toUs
          BY <3>3
        <5>3. k + 1 = i + 1
          BY <3>4, <5>1, <5>2 DEF Asked
        <5> QED
          BY <5>1, <5>3
      <4>3. ASSUME NEW i \in DOMAIN line'.toUs, Answer(i)', line'.toUs[i].cmd = "got"
            PROVE  f \in kept'
        BY <3>3, <3>4, <4>1, <4>3 DEF Asked
      <4>4. \/ line'.toPeer = <<>>
            \/ line'.toPeer = <<f>> /\ \A i \in DOMAIN line'.toUs : ~ Answer(i)'
        BY <3>3, <3>4, <4>1 DEF Asked
      <4> QED
        BY <4>2, <4>3, <4>4 DEF Asked
    <3> QED
      BY <2>2, <3>1, <3>2, <3>4 DEF AnswersMatch
  <2> QED
    BY <2>1, <2>2
<1> QED
  BY <1>1, <1>2, SentStep

(* A step that leaves the line alone and ends the talk about our files.     *)
LEMMA Elsewhere ==
  ASSUME SentInv, LineEnds', cli'.pc \notin {"send", "wait"}, cli'.acked \subseteq cli.acked,
         UNCHANGED <<status, kept, doubtful>>
  PROVE  SentInv'
<1>1. AnswersMatch'
  BY DEF AnswersMatch
<1> QED
  BY <1>1, SentStep

(* The next file is offered when nothing is left to be answered.            *)
LEMMA ProceedMatch ==
  ASSUME NEW c \in Client, NEW j, Proceed(c, j), ~ c.late => NoneAsked'
  PROVE  AnswersMatch' /\ cli'.acked = c.acked
<1>1. /\ cli'.acked = c.acked
      /\ \/ cli'.pc = "send" /\ cli'.part = 1 /\ cli'.late = c.late
         \/ cli'.pc = "eob"
  BY ProceedKeeps
<1> QED
  BY <1>1 DEF AnswersMatch

(* An empty line is in order.                                               *)
LEMMA EmptyLine ==
  ASSUME line'.toPeer = <<>>, line'.toUs = <<>>
  PROVE  LineEnds' /\ NoneAsked'
<1>1. DOMAIN line'.toUs = {}
  OBVIOUS
<1> QED
  BY <1>1 DEF LineEnds, NoneAsked

LEMMA AbandonSent ==
  ASSUME TInv, SentInv, Abandon
  PROVE  SentInv'
<1>1. cli'.pc = "idle" /\ cli'.acked = {} /\ line'.toPeer = <<>> /\ line'.toUs = <<>>
  BY DEF Abandon, NoSession, NoLine
<1>2. UNCHANGED <<status, kept, doubtful>>
  BY DEF Abandon, disk
<1> QED
  BY <1>1, <1>2, EmptyLine, Elsewhere

LEMMA DialSent ==
  ASSUME TInv, SentInv, Dial
  PROVE  SentInv'
<1>1. LineEnds' /\ NoneAsked'
  BY EmptyLine DEF Dial, NoLine
<1>2. NoSession \in Client /\ NoSession.acked = {}
  BY DEF NoSession, Client
<1>3. AnswersMatch' /\ cli'.acked = {}
  BY <1>1, <1>2, ProceedMatch DEF Dial
<1>4. UNCHANGED <<status, kept, doubtful>>
  BY DEF Dial, disk
<1> QED
  BY <1>1, <1>3, <1>4, SentStep

(* An offer is the one file that may be answered.                           *)
LEMMA OfferSent ==
  ASSUME TInv, SentInv, Offer
  PROVE  SentInv'
<1>1. CASE ~ line.up /\ Abandon
  BY <1>1, AbandonSent
<1>2. CASE /\ cli' = [cli EXCEPT !.pc = "wait"]
           /\ line' = IF line.up
                      THEN [line EXCEPT !.toPeer = Append(@, <<cli.job, cli.part>>)]
                      ELSE line
           /\ UNCHANGED <<disk, spool, kept, peer, lost, doubtful>>
  <2> DEFINE f == <<cli.job, cli.part>>
  <2>1. /\ cli'.pc = "wait" /\ cli'.job = cli.job /\ cli'.part = cli.part
        /\ cli'.late = cli.late /\ cli'.acked = cli.acked
    BY <1>2 DEF TInv, TypeOK, Client
  <2>2. /\ line'.toUs = line.toUs /\ line'.up = line.up
        /\ line'.toPeer = IF line.up THEN Append(line.toPeer, f) ELSE line.toPeer
    BY <1>2 DEF TInv, TypeOK, Line
  <2>3. UNCHANGED <<status, kept, doubtful>> /\ cli.pc = "send"
    BY <1>2 DEF disk, Offer
  <2>4. LineEnds'
    BY <2>2 DEF SentInv, LineEnds
  <2>5. AnswersMatch'
    <3>1. /\ cli.part = 2 => Kind[cli.job] = "hatch"
          /\ ~ cli.late => (cli.part = 2 => <<cli.job, 1>> \in kept) /\ NoneAsked
      BY <2>3 DEF SentInv, AnswersMatch
    <3>2. Append(<<>>, f) = <<f>>
      OBVIOUS
    <3> HIDE DEF f
    <3>3. ASSUME NEW g, g = f, NoneAsked PROVE Asked(g)'
      BY <2>2, <3>2, <3>3 DEF NoneAsked, Asked, Answer
    <3> QED
      BY <2>1, <2>3, <3>1, <3>3 DEF AnswersMatch, f
  <2> QED
    BY <2>1, <2>3, <2>4, <2>5, SentStep
<1> QED
  BY <1>1, <1>2 DEF Offer

LEMMA UnsendableSent ==
  ASSUME TInv, SentInv, Unsendable
  PROVE  SentInv'
<1> DEFINE c == [cli EXCEPT !.failed = @ \union {cli.job}]
<1>1. cli.job \in Jobs /\ cli.pc = "send"
  BY JobType DEF Unsendable
<1>2. c \in Client /\ c.late = cli.late /\ c.acked = cli.acked
  BY <1>1 DEF TInv, TypeOK, Client
<1>3. ~ cli.late => NoneAsked
  BY <1>1 DEF SentInv, AnswersMatch
<1>4. line' = line /\ UNCHANGED <<status, kept, doubtful>>
  BY DEF Unsendable, disk
<1>5. ~ c.late => NoneAsked'
  BY <1>2, <1>3, <1>4 DEF NoneAsked, Answer
<1>6. Proceed(c, cli.job)
  BY DEF Unsendable
<1> HIDE DEF c
<1>7. AnswersMatch' /\ cli'.acked = cli.acked
  BY <1>2, <1>5, <1>6, ProceedMatch
<1>8. LineEnds'
  BY <1>4 DEF SentInv, LineEnds
<1> QED
  BY <1>4, <1>7, <1>8, SentStep

(* A wait that ends with a job acknowledged or failed.                      *)
LEMMA EndWaitFields ==
  ASSUME TInv, cli.pc = "wait"
  PROVE  /\ [EndWait EXCEPT !.acked = @ \union {cli.job}].late = cli.late
         /\ [EndWait EXCEPT !.acked = @ \union {cli.job}].acked = cli.acked \union {cli.job}
         /\ [EndWait EXCEPT !.failed = @ \union {cli.job}].late = cli.late
         /\ [EndWait EXCEPT !.failed = @ \union {cli.job}].acked = cli.acked
         /\ [EndWait EXCEPT !.failed = @ \union {cli.job}, !.late = TRUE].late = TRUE
         /\ [EndWait EXCEPT !.failed = @ \union {cli.job}, !.late = TRUE].acked = cli.acked
BY DEF TInv, TypeOK, EndWait, Client

LEMMA WaitExpiresSent ==
  ASSUME TInv, SentInv, WaitExpires
  PROVE  SentInv'
<1> DEFINE c == [EndWait EXCEPT !.failed = @ \union {cli.job}, !.late = TRUE]
<1>1. c \in Client /\ c.late = TRUE /\ c.acked = cli.acked
  BY EndWaitWith, EndWaitFields DEF WaitExpires
<1>2. Proceed(c, cli.job)
  BY DEF WaitExpires
<1> HIDE DEF c
<1>3. AnswersMatch' /\ cli'.acked = cli.acked
  BY <1>1, <1>2, ProceedMatch
<1>4. line' = line /\ UNCHANGED <<status, kept, doubtful>>
  BY DEF WaitExpires, disk
<1>5. LineEnds'
  BY <1>4 DEF SentInv, LineEnds
<1> QED
  BY <1>3, <1>4, <1>5, SentStep

LEMMA WaitRefusedSent ==
  ASSUME TInv, SentInv, WaitRefused
  PROVE  SentInv'
<1> DEFINE c == [EndWait EXCEPT !.failed = @ \union {cli.job}]
<1>1. cli.pc = "wait" /\ Read /\ Next1.cmd \in {"skip", "err"} /\ TypeOK
  BY DEF WaitRefused, TInv
<1>2. c \in Client /\ c.late = cli.late /\ c.acked = cli.acked
  BY <1>1, EndWaitWith, EndWaitFields
<1>3. Proceed(c, cli.job)
  BY DEF WaitRefused
<1> HIDE DEF c
<1>4. ~ c.late => NoneAsked'
  BY <1>1, <1>2, AnswerTaken DEF NoneAsked
<1>5. AnswersMatch' /\ cli'.acked = cli.acked
  BY <1>2, <1>3, <1>4, ProceedMatch
<1>6. UNCHANGED <<status, kept, doubtful>>
  BY DEF WaitRefused, disk
<1>7. LineEnds'
  BY <1>1, ReadEnds DEF SentInv
<1> QED
  BY <1>5, <1>6, <1>7, SentStep

(* An M_GOT is for the file the client waits for, or is taken late.         *)
LEMMA WaitGotSent ==
  ASSUME TInv, SentInv, WaitGot
  PROVE  SentInv'
<1>1. cli.pc = "wait" /\ Read /\ Next1.cmd = "got" /\ TypeOK
  BY DEF WaitGot, TInv
<1>2. kept' = kept /\ cli.job \in Jobs /\ status[cli.job] = "pending"
  BY JobType DEF WaitGot
<1>3. LineEnds'
  BY <1>1, ReadEnds DEF SentInv
<1>4. ~ cli.late => NoneAsked' /\ <<cli.job, cli.part>> \in kept
  BY <1>1, AnswerTaken DEF NoneAsked
<1>5. /\ cli.part \in {1, 2}
      /\ cli.part = 2 => Kind[cli.job] = "hatch"
      /\ ~ cli.late /\ cli.part = 2 => <<cli.job, 1>> \in kept
  BY <1>1 DEF SentInv, AnswersMatch, TypeOK, Client
<1>6. CASE <<cli.job, cli.part + 1>> \in FilesOf(cli.job)
  <2>1. cli' = [EndWait EXCEPT !.pc = "send", !.part = 2] /\ UNCHANGED <<status, doubtful>>
    BY <1>6 DEF WaitGot
  <2>2. /\ cli'.pc = "send" /\ cli'.part = 2 /\ cli'.job = cli.job
        /\ cli'.late = cli.late /\ cli'.acked = cli.acked
    BY <1>1, <2>1 DEF EndWait, TypeOK, Client
  <2>3. cli.part = 1 /\ Kind[cli.job] = "hatch"
    BY <1>5, <1>6 DEF FilesOf
  <2>4. AnswersMatch'
    BY <1>2, <1>4, <2>2, <2>3 DEF AnswersMatch
  <2> QED
    BY <1>2, <1>3, <2>1, <2>2, <2>4, SentStep
<1>7. CASE <<cli.job, cli.part + 1>> \notin FilesOf(cli.job)
  <2> DEFINE c == [EndWait EXCEPT !.acked = @ \union {cli.job}]
  <2>1. /\ Proceed(c, cli.job)
        /\ IF Kind[cli.job] = "loose" THEN Done(cli.job) ELSE UNCHANGED status
        /\ doubtful' = IF cli.late THEN doubtful \union {cli.job} ELSE doubtful
    BY <1>7 DEF WaitGot
  <2>2. c \in Client /\ c.late = cli.late /\ c.acked = cli.acked \union {cli.job}
    BY <1>1, EndWaitWith, EndWaitFields
  <2>3. ~ c.late => NoneAsked'
    BY <1>4, <2>2
  <2> HIDE DEF c
  <2>4. AnswersMatch' /\ cli'.acked = cli.acked \union {cli.job}
    BY <2>1, <2>2, <2>3, ProceedMatch
  <2>5. ASSUME NEW j, j = cli.job PROVE Accounted(j)'
    <3>1. CASE cli.late
      BY <2>1, <2>5, <3>1 DEF Accounted
    <3>2. CASE ~ cli.late
      <4>1. FilesOf(cli.job) \subseteq kept
        <5>1. CASE Kind[cli.job] = "hatch"
          <6>1. cli.part = 2
            BY <1>5, <1>7, <5>1 DEF FilesOf
          <6> QED
            BY <1>4, <1>5, <3>2, <5>1, <6>1 DEF FilesOf
        <5>2. CASE Kind[cli.job] # "hatch"
          <6>1. cli.part = 1
            BY <1>5, <5>2
          <6> QED
            BY <1>4, <3>2, <5>2, <6>1 DEF FilesOf
        <5> QED
          BY <5>1, <5>2
      <4>2. kept' = kept
        BY <1>2
      <4> QED
        BY <2>5, <4>1, <4>2 DEF Accounted, FilesOf
    <3> QED
      BY <3>1, <3>2
  <2>6. \A j \in cli'.acked : j \in cli.acked \/ Accounted(j)'
    <3> SUFFICES ASSUME NEW j \in cli'.acked, j \notin cli.acked PROVE Accounted(j)'
      OBVIOUS
    <3>1. j = cli.job
      BY <2>4
    <3> QED
      BY <2>5, <3>1
  <2>7. \A j \in Jobs : status'[j] = "sent" => status[j] = "sent" \/ Accounted(j)'
    <3> SUFFICES ASSUME NEW j \in Jobs, status'[j] = "sent", status[j] # "sent"
                 PROVE  Accounted(j)'
      OBVIOUS
    <3>1. j = cli.job
      BY <1>1, <2>1 DEF Done, TypeOK
    <3> QED
      BY <2>5, <3>1
  <2>8. doubtful \subseteq doubtful'
    BY <2>1
  <2> QED
    BY <1>2, <1>3, <2>4, <2>6, <2>7, <2>8, SentStep
<1> QED
  BY <1>6, <1>7

(* Everything else that is read is no answer, or comes too late to matter.  *)
LEMMA ReadingSent ==
  ASSUME TInv, SentInv,
         \/ ReadFile \/ ReadSkipped \/ ReadData \/ ReadFails \/ WaitEob
         \/ ReadNul \/ ReadUnsized \/ Drain
         \/ ReceiveEob \/ ReceiveAnswer \/ ReceiveErr
  PROVE  SentInv'
<1>1. Read /\ TypeOK /\ UNCHANGED <<status, kept, doubtful>>
  BY PassedOver DEF ReadFile, ReadSkipped, ReadData, ReadFails, DataFrame, WaitEob,
     ReceiveEob, ReceiveAnswer, ReceiveErr, TInv, disk
<1>2. cli \in Client
  BY <1>1 DEF TypeOK
<1>3. CASE ReadFile \/ WaitEob
  <2>1. /\ cli'.acked = cli.acked /\ cli'.pc = cli.pc /\ cli'.job = cli.job
        /\ cli'.part = cli.part /\ cli'.late = cli.late
        /\ cli.pc \in {"wait", "recv"} /\ Next1.cmd \notin {"got", "skip"}
    BY <1>2, <1>3 DEF ReadFile, WaitEob, Client
  <2> QED
    BY <1>1, <2>1, ReadOn
<1>4. CASE ReadSkipped \/ ReadData \/ ReadFails
  <2>1. cli.pc \in {"wait", "recv"} /\ Next1.cmd \notin {"got", "skip"}
    BY <1>4 DEF ReadSkipped, ReadData, ReadFails, DataFrame
  <2>2. /\ cli'.acked = cli.acked /\ cli'.pc = cli.pc /\ cli'.job = cli.job
        /\ cli'.part = cli.part /\ cli'.late = cli.late
    <3>1. CASE ReadSkipped \/ ReadFails
      BY <1>2, <3>1 DEF ReadSkipped, ReadFails, Client
    <3>2. CASE ReadData
      BY <1>2, <3>2 DEF ReadData, Client
    <3> QED
      BY <1>4, <3>1, <3>2
  <2> QED
    BY <1>1, <2>1, <2>2, ReadOn
<1>5. CASE ReceiveEob \/ ReceiveAnswer \/ ReceiveErr
  <2>1. cli'.acked = cli.acked /\ cli'.pc \notin {"send", "wait"}
    BY <1>2, <1>5 DEF ReceiveEob, ReceiveAnswer, ReceiveErr, Client
  <2> QED
    BY <1>1, <2>1, ReadOn
<1>6. CASE ReadNul \/ ReadUnsized \/ Drain
  <2>1. cli' = cli /\ (cli.pc = "wait" => Next1.cmd \in {"nul", "data"})
    BY <1>6 DEF ReadNul, ReadUnsized, DataFrame, Drain
  <2>2. cli.pc \notin {"send", "wait"} \/ cli.pc = "wait"
    BY <1>6, PassedOver
  <2> QED
    BY <1>1, <2>1, <2>2, ReadOn
<1> QED
  BY <1>3, <1>4, <1>5, <1>6

LEMMA ReceivingSent ==
  ASSUME TInv, SentInv, BeginReceive \/ ReceiveEnds
  PROVE  SentInv'
<1>1. CASE Abandon
  BY <1>1, AbandonSent
<1>2. CASE ~ Abandon
  <2>1. line' = line /\ UNCHANGED <<status, kept, doubtful>>
    BY <1>2 DEF BeginReceive, ReceiveEnds, disk
  <2>2. cli'.acked = cli.acked /\ cli'.pc \notin {"send", "wait"}
    BY <1>2 DEF BeginReceive, ReceiveEnds, TInv, TypeOK, Client
  <2>3. LineEnds'
    BY <2>1 DEF SentInv, LineEnds
  <2> QED
    BY <2>1, <2>2, <2>3, Elsewhere
<1> QED
  BY <1>1, <1>2

(* The poller counts as sent only what was acknowledged.                    *)
LEMMA CommitSent ==
  ASSUME TInv, SentInv, Commit \/ Import
  PROVE  SentInv'
<1>1. kept' = kept /\ doubtful' = doubtful
  BY DEF Commit, Import
<1>2. \A j \in Jobs : status'[j] = "sent" => status[j] = "sent" \/ j \in cli.acked
  BY DEF Commit, Import
<1>3. cli'.pc \notin {"send", "wait"} /\ cli'.acked \subseteq cli.acked
  BY DEF Commit, Import, NoSession, TInv, TypeOK, Client
<1>4. LineEnds'
  <2>1. CASE Commit
    BY <2>1 DEF Commit, SentInv, LineEnds
  <2>2. CASE Import
    BY <2>2, EmptyLine DEF Import, NoLine
  <2> QED
    BY <2>1, <2>2
<1>5. AnswersMatch'
  BY <1>3 DEF AnswersMatch
<1> QED
  BY <1>1, <1>2, <1>3, <1>4, <1>5, SentStep

-----------------------------------------------------------------------------
(* What counts as sent: the steps of the peer                               *)

(* What the peer says of its own files answers nothing.                     *)
LEMMA TalkSent ==
  ASSUME TInv, SentInv, NEW x \in Frame, Talk(x), x.cmd \in {"file", "data", "nul", "eob"},
         UNCHANGED <<disk, cli, kept, doubtful>>
  PROVE  SentInv'
<1>1. /\ line.up /\ line'.up = line.up /\ line'.toPeer = line.toPeer
      /\ line'.toUs = Append(line.toUs, x)
  BY DEF Talk, TInv, TypeOK, Line
<1>2. /\ Len(line.toUs) \in Nat /\ DOMAIN line.toUs = 1 .. Len(line.toUs)
      /\ DOMAIN line'.toUs = 1 .. Len(line.toUs) + 1
      /\ \A i \in DOMAIN line.toUs : line'.toUs[i] = line.toUs[i]
      /\ line'.toUs[Len(line.toUs) + 1] = x
  BY <1>1, TalkAppends DEF TInv
<1>3. \A i \in DOMAIN line'.toUs :
        \/ i \in DOMAIN line.toUs /\ line'.toUs[i] = line.toUs[i]
        \/ line'.toUs[i] = x
  BY <1>2
<1>4. \A i \in DOMAIN line'.toUs : Answer(i)' => i \in DOMAIN line.toUs /\ Answer(i)
  BY <1>3 DEF Answer
<1>5. LineEnds'
  BY <1>1, <1>3 DEF SentInv, LineEnds
<1>6. NoneAsked => NoneAsked'
  BY <1>1, <1>4 DEF NoneAsked
<1>7. ASSUME NEW f, Asked(f) PROVE Asked(f)'
  BY <1>1, <1>3, <1>4, <1>7 DEF Asked, Answer
<1>8. AnswersMatch'
  BY <1>6, <1>7 DEF SentInv, AnswersMatch
<1> QED
  BY <1>5, <1>8, SentStep DEF disk

LEMMA PeerSpeaksSent ==
  ASSUME TInv, SentInv,
         (\E f \in PeerFiles : PeerOffers(f)) \/ PeerSends \/ PeerChats \/ PeerEob
  PROVE  SentInv'
<1>1. CASE \E f \in PeerFiles : PeerOffers(f)
  <2>1. PICK f \in PeerFiles : PeerOffers(f)
    BY <1>1
  <2>2. [cmd |-> "file", about |-> f] \in Frame
    BY DEF Frame
  <2> QED
    BY <2>1, <2>2, TalkSent DEF PeerOffers
<1>2. CASE PeerSends
  <2>1. [cmd |-> "data", about |-> peer.sending] \in Frame
    BY <1>2 DEF PeerSends, Frame, TInv, TypeOK, PeerSession
  <2> QED
    BY <1>2, <2>1, TalkSent DEF PeerSends
<1>3. CASE PeerEob
  <2>1. [cmd |-> "eob", about |-> NoFile] \in Frame
    BY DEF Frame
  <2> QED
    BY <1>3, <2>1, TalkSent DEF PeerEob
<1>4. CASE PeerChats
  <2>1. [cmd |-> "nul", about |-> NoFile] \in Frame
    BY DEF Frame
  <2> QED
    BY <1>4, <2>1, TalkSent DEF PeerChats
<1> QED
  BY <1>1, <1>2, <1>3, <1>4

(* The answer to the file the client waits for, which the peer keeps first. *)
LEMMA PeerAnswersSent ==
  ASSUME TInv, SentInv, NEW cmd \in {"got", "skip"}, PeerAnswers(cmd)
  PROVE  SentInv'
<1> DEFINE h == Head(line.toPeer)
           x == [cmd |-> cmd, about |-> h]
<1>1. line.toPeer \in Seq(OutFiles) /\ line.toPeer # <<>> /\ line.up
  BY DEF PeerAnswers, TInv, TypeOK, Line
<1>2. h \in OutFiles
  BY <1>1, HeadTailProperties
<1>3. x \in Frame
  BY <1>2 DEF Frame
<1>4. /\ line'.up = line.up /\ line'.toPeer = Tail(line.toPeer)
      /\ line'.toUs = Append(line.toUs, x)
  BY DEF PeerAnswers, TInv, TypeOK, Line
<1>5. kept' = IF cmd = "got" THEN kept \union {h} ELSE kept
  BY DEF PeerAnswers
<1>6. UNCHANGED <<status, cli, doubtful>>
  BY DEF PeerAnswers, disk
<1>7. x.cmd = cmd
  OBVIOUS
<1> HIDE DEF x, h
<1>8. /\ Len(line.toUs) \in Nat /\ DOMAIN line.toUs = 1 .. Len(line.toUs)
      /\ DOMAIN line'.toUs = 1 .. Len(line.toUs) + 1
      /\ \A i \in DOMAIN line.toUs : line'.toUs[i] = line.toUs[i]
      /\ line'.toUs[Len(line.toUs) + 1] = x
  BY <1>3, <1>4, TalkAppends DEF TInv
<1>9. \A i \in DOMAIN line'.toUs :
        \/ i \in DOMAIN line.toUs /\ line'.toUs[i] = line.toUs[i]
        \/ i = Len(line.toUs) + 1 /\ line'.toUs[i] = x
  BY <1>8
<1>10. LineEnds'
  BY <1>1, <1>4, <1>7, <1>9 DEF SentInv, LineEnds
<1>11. kept \subseteq kept'
  BY <1>5
<1>12. ASSUME NEW f, Asked(f) PROVE Asked(f)'
  <2>1. line.toPeer = <<f>> /\ \A i \in DOMAIN line.toUs : ~ Answer(i)
    BY <1>1, <1>12 DEF Asked
  <2>2. h = f /\ line'.toPeer = <<>>
    BY <1>4, <2>1 DEF h
  <2>3. \A i \in DOMAIN line'.toUs :
          Answer(i)' => i = Len(line.toUs) + 1 /\ line'.toUs[i] = x
    BY <1>9, <2>1 DEF Answer
  <2>4. cmd = "got" => f \in kept'
    BY <1>5, <2>2
  <2> QED
    BY <1>7, <2>2, <2>3, <2>4 DEF Asked
<1>13. ~ NoneAsked
  BY <1>1 DEF NoneAsked
<1>14. AnswersMatch'
  BY <1>6, <1>11, <1>12, <1>13 DEF SentInv, AnswersMatch
<1> QED
  BY <1>6, <1>10, <1>11, <1>14, SentStep

(* Answers are lost with the connection, none is made up.                   *)
LEMMA PeerClosesSent ==
  ASSUME TInv, SentInv, PeerCloses
  PROVE  SentInv'
<1>1. /\ ~ line'.up /\ line'.toPeer = <<>> /\ line.up
      /\ \A i \in DOMAIN line'.toUs :
           \/ i \in DOMAIN line.toUs /\ line'.toUs[i] = line.toUs[i]
           \/ i = Len(line'.toUs)
                /\ line'.toUs[i] = [cmd |-> "err", about |-> NoFile]
  BY CloseCuts DEF TInv
<1>2. UNCHANGED <<status, cli, kept, doubtful>>
  BY DEF PeerCloses, disk
<1>3. LineEnds'
  BY <1>1 DEF SentInv, LineEnds
<1>4. \A i \in DOMAIN line'.toUs :
        Answer(i)' => i \in DOMAIN line.toUs /\ Answer(i) /\ line'.toUs[i] = line.toUs[i]
  BY <1>1 DEF Answer
<1>5. NoneAsked => NoneAsked'
  BY <1>1, <1>4 DEF NoneAsked
<1>6. ASSUME NEW f, Asked(f) PROVE Asked(f)'
  BY <1>1, <1>2, <1>4, <1>6 DEF Asked
<1>7. AnswersMatch'
  BY <1>2, <1>5, <1>6 DEF SentInv, AnswersMatch
<1> QED
  BY <1>2, <1>3, <1>7, SentStep

-----------------------------------------------------------------------------
LEMMA InitSent == Init => SentInv
<1> SUFFICES ASSUME Init PROVE SentInv
  OBVIOUS
<1>1. cli.pc = "idle" /\ cli.acked = {} /\ line.toUs = <<>> /\ line.toPeer = <<>>
  BY DEF Init, NoSession, NoLine
<1>2. DOMAIN line.toUs = {}
  BY <1>1
<1>3. AnswersMatch /\ LineEnds
  BY <1>1, <1>2 DEF AnswersMatch, LineEnds
<1>4. SentKept
  BY DEF SentKept, Init
<1> QED
  BY <1>1, <1>3, <1>4 DEF SentInv

LEMMA StepSent == TInv /\ SentInv /\ [Next]_vars => SentInv'
<1> SUFFICES ASSUME TInv, SentInv, [Next]_vars PROVE SentInv'
  OBVIOUS
<1>1. CASE Dial \/ Offer \/ Unsendable
  BY <1>1, DialSent, OfferSent, UnsendableSent
<1>2. CASE \/ ReadFile \/ ReadSkipped \/ ReadData \/ ReadFails \/ WaitEob
           \/ ReadNul \/ ReadUnsized \/ Drain
           \/ ReceiveEob \/ ReceiveAnswer \/ ReceiveErr
  BY <1>2, ReadingSent
<1>3. CASE WaitGot \/ WaitRefused \/ WaitExpires
  BY <1>3, WaitGotSent, WaitRefusedSent, WaitExpiresSent
<1>4. CASE WaitRaises \/ Die
  BY <1>4, AbandonSent DEF WaitRaises, Die
<1>5. CASE BeginReceive \/ ReceiveEnds \/ Commit \/ Import
  BY <1>5, ReceivingSent, CommitSent
<1>6. CASE Peer
  BY <1>6, PeerSpeaksSent, PeerAnswersSent, PeerClosesSent DEF Peer
<1>7. CASE UNCHANGED vars
  BY <1>7 DEF vars, disk, SentInv, AnswersMatch, NoneAsked, Asked, Answer, LineEnds,
     SentKept, Accounted
<1> QED
  BY <1>1, <1>2, <1>3, <1>4, <1>5, <1>6, <1>7 DEF Next, Poll, Waiting, Receiving

(* What counts as sent the peer has kept, with its manifest, unless a late  *)
(* M_GOT was taken for it: for any jobs, any answers and however the peer   *)
(* mixes them with files of its own (_wait_got and _send_messages, and the  *)
(* rows the poller stamps from the result).                                 *)
THEOREM SentSafe == Spec => []SentKept
<1>1. Init => TInv /\ SentInv
  BY InitType, InitSent
<1>2. TInv /\ SentInv /\ [Next]_vars => (TInv /\ SentInv)'
  BY StepType, StepSent
<1>3. SentInv => SentKept
  BY DEF SentInv
<1> QED
  BY <1>1, <1>2, <1>3, PTL DEF Spec

-----------------------------------------------------------------------------
(* What a closed session has taken                                          *)

(* No frame of a file lies between two places of the line s, ...            *)
Clear(s, a, b) == \A i \in DOMAIN s : a < i /\ i < b => s[i].cmd \notin {"file", "data"}

(* ... so that what arrives at d is taken for f, o being open.              *)
Begun(s, o, f, d) ==
  \/ o = f /\ Clear(s, 0, d)
  \/ \E k \in DOMAIN s : /\ k < d /\ s[k] = [cmd |-> "file", about |-> f]
                         /\ Clear(s, k, d)

(* The data of f is under way before n and will be taken for f.             *)
Ahead(s, o, f, n) ==
  \E d \in DOMAIN s : d < n /\ s[d] = [cmd |-> "data", about |-> f] /\ Begun(s, o, f, d)

Taken ==
  have \union InMemory \union lost \union Refused \union Unsized \union cli.straddled

Comes(f, n) == f \in Taken \/ Ahead(line.toUs, cli.open, f, n)

Eob(i) == line.toUs[i].cmd = "eob"

(* The frame at i is the second M_EOB of the peer.                          *)
Second(i) == Eob(i) /\ (cli.eobs = 1 \/ \E k \in DOMAIN line.toUs : k < i /\ Eob(k))

(* The client has read all M_EOBs but those on the line, two at most.       *)
EobsCounted ==
  /\ cli.eobs <= peer.eobs
  /\ cli.eobs = peer.eobs => \A i \in DOMAIN line.toUs : ~ Eob(i)
  /\ cli.eobs + 1 = peer.eobs =>
       \A i, k \in DOMAIN line.toUs : Eob(i) /\ Eob(k) => i = k
  /\ \A i, k, l \in DOMAIN line.toUs :
       Eob(i) /\ Eob(k) /\ Eob(l) => i = k \/ k = l \/ i = l

(* All the peer has offered is under way, but for what it is sending.       *)
OffersUnderWay ==
  line.up => \A f \in peer.offered :
    \/ Comes(f, Len(line.toUs) + 1)
    \/ f = peer.sending /\ Begun(line.toUs, cli.open, f, Len(line.toUs) + 1)

(* The second M_EOB comes after all of it.                                  *)
SecondLast ==
  /\ \A i \in DOMAIN line.toUs : Second(i) => \A f \in peer.offered : Comes(f, i)
  /\ cli.eobs >= 2 => peer.offered \subseteq Taken

(* A session is whole only after two M_EOBs.                                *)
WholeByEobs == cli.pc \in {"commit", "import"} /\ ~ cli.cut => cli.eobs >= 2

OfferInv == EobsCounted /\ OffersUnderWay /\ SecondLast /\ WholeByEobs

(* A closed session drops what is still on the line; when it was whole, the *)
(* peer has said its last M_EOB and offers no more.                         *)
Closed == cli.pc \in {"commit", "import"}

ClosedWhole == ~ cli.cut => peer.eobs = 2 /\ peer.offered \subseteq Taken

SessionInv == IF Closed THEN ClosedWhole ELSE OfferInv

-----------------------------------------------------------------------------
(* Lines                                                                    *)

(* t is s without its first frame.                                          *)
Shifted(s, t) ==
  /\ Len(s) \in Nat \ {0} /\ DOMAIN s = 1 .. Len(s)
  /\ Len(t) = Len(s) - 1 /\ DOMAIN t = 1 .. Len(s) - 1
  /\ \A i \in DOMAIN t : i + 1 \in DOMAIN s /\ t[i] = s[i + 1]

(* s and t are the same before n.                                           *)
Agree(s, t, n) ==
  /\ DOMAIN s \subseteq Nat /\ DOMAIN t \subseteq Nat
  /\ \A i \in Nat : i < n => /\ i \in DOMAIN s <=> i \in DOMAIN t
                             /\ i \in DOMAIN s => t[i] = s[i]

LEMMA ShiftBack ==
  ASSUME NEW s, NEW t, Shifted(s, t), NEW i \in DOMAIN s, i # 1
  PROVE  i - 1 \in DOMAIN t /\ t[i - 1] = s[i] /\ i \in Nat /\ i - 1 \in Nat \ {0}
<1>1. i \in Nat /\ i - 1 \in 1 .. Len(s) - 1
  BY DEF Shifted
<1>2. i - 1 \in DOMAIN t /\ (i - 1) + 1 = i
  BY <1>1 DEF Shifted
<1> QED
  BY <1>1, <1>2 DEF Shifted

LEMMA ClearShift ==
  ASSUME NEW s, NEW t, Shifted(s, t), NEW a \in Nat, NEW b \in Nat, Clear(s, a + 1, b + 1)
  PROVE  Clear(t, a, b)
<1> SUFFICES ASSUME NEW i \in DOMAIN t, a < i, i < b PROVE t[i].cmd \notin {"file", "data"}
  BY DEF Clear
<1>1. i + 1 \in DOMAIN s /\ t[i] = s[i + 1] /\ i \in Nat
  BY DEF Shifted
<1>2. a + 1 < i + 1 /\ i + 1 < b + 1
  BY <1>1
<1> QED
  BY <1>1, <1>2 DEF Clear

(* What is begun is begun still, once the client has read the first frame.  *)
LEMMA BegunShift ==
  ASSUME NEW s, NEW t, Shifted(s, t), NEW o, NEW p, NEW f,
         NEW d \in Nat, Begun(s, o, f, d + 1), d # 0,
         s[1].cmd = "file" => p = s[1].about,
         s[1].cmd \notin {"file", "data"} /\ o = f => p = f
  PROVE  Begun(t, p, f, d)
<1>1. 1 \in DOMAIN s /\ 1 < d + 1 /\ DOMAIN s \subseteq Nat
  BY DEF Shifted
<1>2. CASE o = f /\ Clear(s, 0, d + 1)
  <2>1. s[1].cmd \notin {"file", "data"}
    BY <1>1, <1>2 DEF Clear
  <2>2. Clear(s, 0 + 1, d + 1)
    BY <1>1, <1>2 DEF Clear
  <2>3. Clear(t, 0, d)
    BY <2>2, ClearShift
  <2> QED
    BY <1>2, <2>1, <2>3 DEF Begun
<1>3. CASE \E k \in DOMAIN s : /\ k < d + 1 /\ s[k] = [cmd |-> "file", about |-> f]
                               /\ Clear(s, k, d + 1)
  <2>1. PICK k \in DOMAIN s : /\ k < d + 1 /\ s[k] = [cmd |-> "file", about |-> f]
                              /\ Clear(s, k, d + 1)
    BY <1>3
  <2>2. CASE k = 1
    <3>1. p = f
      BY <2>1, <2>2
    <3>2. Clear(t, 0, d)
      BY <2>1, <2>2, ClearShift
    <3> QED
      BY <3>1, <3>2 DEF Begun
  <2>3. CASE k # 1
    <3>1. /\ k - 1 \in DOMAIN t /\ t[k - 1] = s[k] /\ k \in Nat /\ k - 1 \in Nat
      BY <2>3, ShiftBack
    <3>2. k = (k - 1) + 1 /\ k - 1 < d
      BY <2>1, <3>1
    <3>3. Clear(t, k - 1, d)
      BY <2>1, <3>1, <3>2, ClearShift
    <3> QED
      BY <2>1, <3>1, <3>2, <3>3 DEF Begun
  <2> QED
    BY <2>2, <2>3
<1> QED
  BY <1>2, <1>3 DEF Begun

(* What is under way is nearer, or was the first frame and is taken.        *)
LEMMA AheadShift ==
  ASSUME NEW s, NEW t, Shifted(s, t), NEW o, NEW p, NEW f,
         NEW n \in Nat, Ahead(s, o, f, n + 1),
         s[1].cmd = "file" => p = s[1].about,
         s[1].cmd \notin {"file", "data"} /\ o = f => p = f
  PROVE  Ahead(t, p, f, n) \/ (o = f /\ s[1] = [cmd |-> "data", about |-> f])
<1>1. PICK d \in DOMAIN s :
        d < n + 1 /\ s[d] = [cmd |-> "data", about |-> f] /\ Begun(s, o, f, d)
  BY DEF Ahead
<1>2. CASE d = 1
  <2>1. \A k \in DOMAIN s : ~ k < 1
    BY DEF Shifted
  <2> QED
    BY <1>1, <1>2, <2>1 DEF Begun
<1>3. CASE d # 1
  <2>1. d - 1 \in DOMAIN t /\ t[d - 1] = s[d] /\ d \in Nat /\ d - 1 \in Nat \ {0}
    BY <1>3, ShiftBack
  <2>2. d = (d - 1) + 1 /\ d - 1 < n
    BY <1>1, <2>1
  <2>3. Begun(s, o, f, (d - 1) + 1)
    BY <1>1, <2>2
  <2>4. Begun(t, p, f, d - 1)
    BY <2>1, <2>3, BegunShift
  <2> QED
    BY <1>1, <2>1, <2>2, <2>4 DEF Ahead
<1> QED
  BY <1>2, <1>3

(* Only what lies before counts.                                            *)
LEMMA BegunAgree ==
  ASSUME NEW s, NEW t, NEW d \in Nat, Agree(s, t, d), NEW o, NEW f, Begun(s, o, f, d)
  PROVE  Begun(t, o, f, d)
<1>1. ASSUME NEW a \in Nat, Clear(s, a, d) PROVE Clear(t, a, d)
  BY <1>1 DEF Clear, Agree
<1>2. CASE o = f /\ Clear(s, 0, d)
  BY <1>1, <1>2 DEF Begun
<1>3. CASE \E k \in DOMAIN s : /\ k < d /\ s[k] = [cmd |-> "file", about |-> f]
                               /\ Clear(s, k, d)
  <2>1. PICK k \in DOMAIN s : /\ k < d /\ s[k] = [cmd |-> "file", about |-> f]
                              /\ Clear(s, k, d)
    BY <1>3
  <2>2. k \in Nat
    BY DEF Agree
  <2>3. k \in DOMAIN t /\ t[k] = s[k]
    BY <2>1, <2>2 DEF Agree
  <2>4. Clear(t, k, d)
    BY <1>1, <2>1, <2>2
  <2> QED
    BY <2>1, <2>3, <2>4 DEF Begun
<1> QED
  BY <1>2, <1>3 DEF Begun

LEMMA AheadAgree ==
  ASSUME NEW s, NEW t, NEW n \in Nat, Agree(s, t, n), NEW o, NEW f, Ahead(s, o, f, n),
         NEW m \in Nat, n <= m
  PROVE  Ahead(t, o, f, m)
<1>1. PICK d \in DOMAIN s :
        d < n /\ s[d] = [cmd |-> "data", about |-> f] /\ Begun(s, o, f, d)
  BY DEF Ahead
<1>2. d \in Nat /\ d \in DOMAIN t /\ t[d] = s[d]
  BY <1>1 DEF Agree
<1>3. Agree(s, t, d)
  BY <1>1, <1>2 DEF Agree
<1>4. Begun(t, o, f, d)
  BY <1>1, <1>2, <1>3, BegunAgree
<1>5. d < m
  BY <1>1, <1>2
<1> QED
  BY <1>1, <1>2, <1>4, <1>5 DEF Ahead

(* A wait that ends forgets the file that is open, and no other.            *)
LEMMA BegunOpen ==
  ASSUME NEW s, NEW o, NEW p, NEW f, NEW d, Begun(s, o, f, d), o = f => p = f
  PROVE  Begun(s, p, f, d)
BY DEF Begun

LEMMA AheadOpen ==
  ASSUME NEW s, NEW o, NEW p, NEW f, NEW n, Ahead(s, o, f, n), o = f => p = f
  PROVE  Ahead(s, p, f, n)
<1>1. PICK d \in DOMAIN s :
        d < n /\ s[d] = [cmd |-> "data", about |-> f] /\ Begun(s, o, f, d)
  BY DEF Ahead
<1>2. Begun(s, p, f, d)
  BY <1>1, BegunOpen
<1> QED
  BY <1>1, <1>2 DEF Ahead

-----------------------------------------------------------------------------
(* What a closed session has taken: the steps of the client                 *)

LEMMA ReadShifted ==
  ASSUME TypeOK, Read
  PROVE  /\ Shifted(line.toUs, line'.toUs) /\ 1 \in DOMAIN line.toUs
         /\ Next1 = line.toUs[1] /\ Next1 \in Frame /\ line'.up = line.up
BY ReadShifts, ReadType DEF Shifted

(* The M_EOBs are counted as they are read, or left to a session cut short. *)
LEMMA ReadCounts ==
  ASSUME TypeOK, Read, OfferInv, peer' = peer,
         cli'.eobs = cli.eobs \/ (Next1.cmd = "eob" /\ cli'.eobs = cli.eobs + 1)
  PROVE  EobsCounted'
<1>1. /\ Shifted(line.toUs, line'.toUs) /\ 1 \in DOMAIN line.toUs
      /\ Next1 = line.toUs[1]
  BY ReadShifted
<1>2. cli.eobs \in Nat /\ peer.eobs \in Nat /\ cli'.eobs \in Nat
  BY DEF TypeOK, Client, PeerSession
<1>3. \A i \in DOMAIN line'.toUs :
        i \in Nat \ {0} /\ i + 1 \in DOMAIN line.toUs /\ (Eob(i)' => Eob(i + 1))
  BY <1>1 DEF Shifted, Eob
<1>4. EobsCounted
  BY DEF OfferInv
<1>5. ASSUME NEW i \in DOMAIN line'.toUs, NEW k \in DOMAIN line'.toUs, NEW l \in DOMAIN line'.toUs,
             Eob(i)', Eob(k)', Eob(l)'
      PROVE  i = k \/ k = l \/ i = l
  <2>1. Eob(i + 1) /\ Eob(k + 1) /\ Eob(l + 1) /\ i \in Nat /\ k \in Nat /\ l \in Nat
    BY <1>3, <1>5
  <2>2. i + 1 \in DOMAIN line.toUs /\ k + 1 \in DOMAIN line.toUs /\ l + 1 \in DOMAIN line.toUs
    BY <1>3
  <2>3. i + 1 = k + 1 \/ k + 1 = l + 1 \/ i + 1 = l + 1
    BY <1>4, <2>1, <2>2 DEF EobsCounted
  <2> QED
    BY <2>1, <2>3
<1>6. ASSUME cli.eobs + 1 = peer.eobs, NEW i \in DOMAIN line'.toUs, NEW k \in DOMAIN line'.toUs,
             Eob(i)', Eob(k)'
      PROVE  i = k
  <2>1. Eob(i + 1) /\ Eob(k + 1) /\ i \in Nat /\ k \in Nat
    BY <1>3, <1>6
  <2>2. i + 1 \in DOMAIN line.toUs /\ k + 1 \in DOMAIN line.toUs
    BY <1>3
  <2>3. i + 1 = k + 1
    BY <1>4, <1>6, <2>1, <2>2 DEF EobsCounted
  <2> QED
    BY <2>1, <2>3
<1>7. CASE cli'.eobs = cli.eobs
  <2>1. cli.eobs = peer.eobs => \A i \in DOMAIN line'.toUs : ~ Eob(i)'
    BY <1>3, <1>4 DEF EobsCounted
  <2>2. cli.eobs <= peer.eobs
    BY <1>4 DEF EobsCounted
  <2> QED
    BY <1>5, <1>6, <1>7, <2>1, <2>2 DEF EobsCounted
<1>8. CASE Next1.cmd = "eob" /\ cli'.eobs = cli.eobs + 1
  <2>1. Eob(1)
    BY <1>1, <1>8 DEF Eob
  <2>2. cli.eobs <= peer.eobs /\ cli.eobs # peer.eobs
    BY <1>1, <1>4, <2>1 DEF EobsCounted
  <2>3. ASSUME cli.eobs + 1 = peer.eobs, NEW i \in DOMAIN line'.toUs, Eob(i)' PROVE FALSE
    <3>1. Eob(i + 1) /\ i \in Nat \ {0} /\ i + 1 \in DOMAIN line.toUs
      BY <1>3, <2>3
    <3>2. i + 1 = 1
      BY <1>1, <1>4, <2>1, <2>3, <3>1 DEF EobsCounted
    <3> QED
      BY <3>1, <3>2
  <2>4. ASSUME NEW i \in DOMAIN line'.toUs, NEW k \in DOMAIN line'.toUs, Eob(i)', Eob(k)'
        PROVE  i = k
    <3>1. /\ Eob(i + 1) /\ i \in Nat \ {0} /\ i + 1 \in DOMAIN line.toUs
          /\ Eob(k + 1) /\ k \in Nat \ {0} /\ k + 1 \in DOMAIN line.toUs
      BY <1>3, <2>4
    <3>2. 1 = i + 1 \/ i + 1 = k + 1 \/ 1 = k + 1
      BY <1>1, <1>4, <2>1, <3>1 DEF EobsCounted
    <3> QED
      BY <3>1, <3>2
  <2>5. cli'.eobs <= peer.eobs
    BY <1>2, <1>8, <2>2
  <2> QED
    BY <1>5, <1>8, <2>3, <2>4, <2>5 DEF EobsCounted
<1> QED
  BY <1>7, <1>8

(* What reading does to the file that is open.                              *)
OpenFollows ==
  /\ Taken \subseteq Taken'
  /\ Next1.cmd = "file" => cli'.open = Next1.about
  /\ \A f \in PeerFiles : f = cli.open =>
       /\ Next1.cmd \notin {"file", "data"} => f = cli'.open \/ f \in Taken'
       /\ Next1 = [cmd |-> "data", about |-> f] => f \in Taken'

LEMMA ComesNearer ==
  ASSUME TypeOK, Read, OpenFollows, NEW f \in PeerFiles, NEW n \in Nat, Comes(f, n + 1)
  PROVE  Comes(f, n)'
<1>1. /\ Shifted(line.toUs, line'.toUs) /\ Next1 = line.toUs[1]
  BY ReadShifted
<1>2. CASE f \in Taken'
  BY <1>2 DEF Comes
<1>3. CASE f \notin Taken'
  <2>1. Ahead(line.toUs, cli.open, f, n + 1)
    BY <1>3 DEF Comes, OpenFollows
  <2>2. \/ Ahead(line'.toUs, cli'.open, f, n)
        \/ cli.open = f /\ line.toUs[1] = [cmd |-> "data", about |-> f]
    <3>1. line.toUs[1].cmd = "file" => cli'.open = line.toUs[1].about
      BY <1>1 DEF OpenFollows
    <3>2. line.toUs[1].cmd \notin {"file", "data"} /\ cli.open = f => cli'.open = f
      BY <1>1, <1>3 DEF OpenFollows
    <3> QED
      BY <1>1, <2>1, <3>1, <3>2, AheadShift
  <2>3. ~ (cli.open = f /\ line.toUs[1] = [cmd |-> "data", about |-> f])
    BY <1>1, <1>3 DEF OpenFollows
  <2> QED
    BY <2>2, <2>3 DEF Comes
<1> QED
  BY <1>2, <1>3

LEMMA ReadOffer ==
  ASSUME TypeOK, Read, OfferInv, OpenFollows, peer' = peer, WholeByEobs',
         cli'.eobs = cli.eobs \/ (Next1.cmd = "eob" /\ cli'.eobs = cli.eobs + 1)
  PROVE  OfferInv'
<1> DEFINE s == line.toUs
           t == line'.toUs
<1>1. /\ Shifted(s, t) /\ 1 \in DOMAIN s /\ Next1 = s[1] /\ line'.up = line.up
  BY ReadShifted
<1>2. Len(s) \in Nat \ {0} /\ Len(t) \in Nat /\ Len(t) + 1 = Len(s) /\ Len(s) + 1 = (Len(t) + 1) + 1
  BY <1>1 DEF Shifted
<1>3. EobsCounted'
  BY ReadCounts
<1>4. peer.offered \subseteq PeerFiles /\ cli.eobs \in Nat /\ peer.eobs \in 0 .. 2
  BY DEF TypeOK, PeerSession, Client
<1>5. OffersUnderWay'
  <2> SUFFICES ASSUME line.up, NEW f \in peer.offered, NEW n \in Nat, n = Len(t) + 1
               PROVE  \/ Comes(f, n)'
                      \/ f = peer.sending /\ Begun(t, cli'.open, f, n)
    BY <1>1, <1>2 DEF OffersUnderWay, Comes
  <2>1. CASE Comes(f, Len(s) + 1)
    <3>1. Comes(f, n + 1) /\ f \in PeerFiles
      BY <1>2, <1>4, <2>1
    <3> QED
      BY <3>1, ComesNearer
  <2>2. CASE f = peer.sending /\ Begun(s, cli.open, f, Len(s) + 1)
    <3>1. CASE f \in Taken'
      BY <3>1 DEF Comes
    <3>2. CASE f \notin Taken'
      <4>1. /\ s[1].cmd = "file" => cli'.open = s[1].about
            /\ s[1].cmd \notin {"file", "data"} /\ cli.open = f => cli'.open = f
        BY <1>1, <1>4, <3>2 DEF OpenFollows
      <4>2. Begun(s, cli.open, f, n + 1) /\ n # 0
        BY <1>2, <2>2
      <4>3. Begun(t, cli'.open, f, n)
        BY <1>1, <4>1, <4>2, BegunShift
      <4> QED
        BY <2>2, <4>3
    <3> QED
      BY <3>1, <3>2
  <2> QED
    BY <2>1, <2>2 DEF OfferInv, OffersUnderWay
<1>6. SecondLast'
  <2>1. ASSUME NEW i \in DOMAIN t, Second(i)', NEW f \in peer.offered PROVE Comes(f, i)'
    <3>1. i \in Nat \ {0} /\ i + 1 \in DOMAIN s /\ t[i] = s[i + 1]
      BY <1>1 DEF Shifted
    <3>2. Eob(i + 1)
      BY <2>1, <3>1 DEF Second, Eob
    <3>3. Second(i + 1)
      <4>1. CASE \E k \in DOMAIN t : k < i /\ Eob(k)'
        <5>1. PICK k \in DOMAIN t : k < i /\ Eob(k)'
          BY <4>1
        <5>2. k \in Nat /\ k + 1 \in DOMAIN s /\ t[k] = s[k + 1]
          BY <1>1 DEF Shifted
        <5>3. k + 1 < i + 1 /\ Eob(k + 1)
          BY <3>1, <5>1, <5>2 DEF Eob
        <5> QED
          BY <3>2, <5>2, <5>3 DEF Second
      <4>2. CASE cli'.eobs = 1
        <5>1. CASE cli.eobs = 1
          BY <3>2, <5>1 DEF Second
        <5>2. CASE Next1.cmd = "eob"
          <6>1. Eob(1) /\ 1 < i + 1
            BY <1>1, <3>1, <5>2 DEF Eob
          <6> QED
            BY <1>1, <3>2, <6>1 DEF Second
        <5> QED
          BY <4>2, <5>1, <5>2
      <4> QED
        BY <2>1, <4>1, <4>2 DEF Second
    <3>4. Comes(f, i + 1)
      BY <3>1, <3>3 DEF OfferInv, SecondLast
    <3>5. f \in PeerFiles /\ i \in Nat
      BY <1>4, <3>1
    <3> QED
      BY <3>4, <3>5, ComesNearer
  <2>2. ASSUME cli'.eobs >= 2 PROVE peer.offered \subseteq Taken'
    <3>1. CASE cli.eobs >= 2
      BY <3>1 DEF OfferInv, SecondLast, OpenFollows
    <3>2. CASE Next1.cmd = "eob" /\ cli.eobs = 1
      <4>1. Second(1)
        BY <1>1, <3>2 DEF Second, Eob
      <4>2. ASSUME NEW f \in peer.offered PROVE f \in Taken
        <5>1. Comes(f, 1)
          BY <1>1, <4>1 DEF OfferInv, SecondLast
        <5>2. \A d \in DOMAIN s : ~ d < 1
          BY <1>1 DEF Shifted
        <5> QED
          BY <5>1, <5>2 DEF Comes, Ahead
      <4> QED
        BY <4>2 DEF OpenFollows
    <3> QED
      BY <1>4, <2>2, <3>1, <3>2
  <2> QED
    BY <2>1, <2>2 DEF SecondLast
<1> QED
  BY <1>3, <1>5, <1>6 DEF OfferInv

(* A step of the client that reads nothing.                                 *)
LEMMA QuietOffer ==
  ASSUME TypeOK, OfferInv, WholeByEobs', peer' = peer,
         line'.toUs = line.toUs, line'.up = line.up,
         cli'.eobs = cli.eobs, Taken \subseteq Taken',
         \A f \in PeerFiles : f = cli.open => f = cli'.open \/ f \in Taken'
  PROVE  OfferInv'
<1>1. peer.offered \subseteq PeerFiles
  BY DEF TypeOK, PeerSession
<1>2. ASSUME NEW f \in PeerFiles, NEW n, Comes(f, n) PROVE Comes(f, n)'
  <2>1. CASE f \in Taken'
    BY <2>1 DEF Comes
  <2>2. CASE f \notin Taken'
    <3>1. Ahead(line.toUs, cli.open, f, n) /\ (cli.open = f => cli'.open = f)
      BY <1>2, <2>2 DEF Comes
    <3>2. Ahead(line.toUs, cli'.open, f, n)
      BY <3>1, AheadOpen
    <3> QED
      BY <3>2 DEF Comes
  <2> QED
    BY <2>1, <2>2
<1>3. ASSUME NEW f \in PeerFiles, NEW n, Begun(line.toUs, cli.open, f, n)
      PROVE  f \in Taken' \/ Begun(line.toUs, cli'.open, f, n)
  BY <1>3, BegunOpen
<1>4. EobsCounted'
  BY DEF OfferInv, EobsCounted, Eob
<1>5. OffersUnderWay'
  <2> SUFFICES ASSUME line.up, NEW f \in peer.offered, NEW n, n = Len(line.toUs) + 1
               PROVE  \/ Comes(f, n)'
                      \/ f = peer.sending /\ Begun(line.toUs, cli'.open, f, n)
    BY DEF OffersUnderWay, Comes
  <2>1. CASE Comes(f, n)
    BY <1>1, <1>2, <2>1
  <2>2. CASE f = peer.sending /\ Begun(line.toUs, cli.open, f, n)
    <3>1. f \in Taken' \/ Begun(line.toUs, cli'.open, f, n)
      BY <1>1, <1>3, <2>2
    <3> QED
      BY <2>2, <3>1 DEF Comes
  <2> QED
    BY <2>1, <2>2 DEF OfferInv, OffersUnderWay
<1>6. SecondLast'
  <2>1. ASSUME NEW i \in DOMAIN line.toUs, Second(i)', NEW f \in peer.offered
        PROVE  Comes(f, i)'
    <3>1. Second(i)
      BY <2>1 DEF Second, Eob
    <3> QED
      BY <1>1, <1>2, <3>1 DEF OfferInv, SecondLast
  <2>2. cli'.eobs >= 2 => peer.offered \subseteq Taken'
    BY DEF OfferInv, SecondLast
  <2> QED
    BY <2>1, <2>2 DEF SecondLast
<1> QED
  BY <1>4, <1>5, <1>6 DEF OfferInv

(* A session that is over, or has just begun.                               *)
LEMMA NothingOffered ==
  ASSUME line.toUs = <<>>, peer = NoPeer, cli.eobs = 0, cli.pc \notin {"commit", "import"}
  PROVE  OfferInv
<1>1. DOMAIN line.toUs = {}
  OBVIOUS
<1>2. peer.offered = {} /\ peer.eobs = 0
  BY DEF NoPeer
<1> QED
  BY <1>1, <1>2 DEF OfferInv, EobsCounted, OffersUnderWay, SecondLast, WholeByEobs

LEMMA NothingOfferedNext ==
  ASSUME line'.toUs = <<>>, peer' = NoPeer, cli'.eobs = 0, cli'.pc \notin {"commit", "import"}
  PROVE  OfferInv'
<1>1. DOMAIN line'.toUs = {}
  OBVIOUS
<1>2. peer'.offered = {} /\ peer'.eobs = 0
  BY DEF NoPeer
<1> QED
  BY <1>1, <1>2 DEF OfferInv, EobsCounted, OffersUnderWay, SecondLast, WholeByEobs

(* A session that begins, and one that is over, has been offered nothing.   *)
LEMMA BeginsOffer ==
  ASSUME TInv, Dial \/ Abandon \/ Import
  PROVE  OfferInv'
<1>1. CASE Dial
  <2>1. NoSession \in Client /\ NoSession.eobs = 0
    BY DEF NoSession, Client
  <2>2. cli'.eobs = 0 /\ cli'.pc \notin {"commit", "import"}
    BY <1>1, <2>1, ProceedKeeps DEF Dial
  <2>3. line'.toUs = <<>> /\ peer' = NoPeer
    BY <1>1 DEF Dial, NoLine
  <2> QED
    BY <2>2, <2>3, NothingOfferedNext
<1>2. CASE Abandon \/ Import
  <2>1. /\ line'.toUs = <<>> /\ peer' = NoPeer
        /\ cli'.eobs = 0 /\ cli'.pc \notin {"commit", "import"}
    BY <1>2 DEF Abandon, Import, NoLine, NoSession
  <2> QED
    BY <2>1, NothingOfferedNext
<1> QED
  BY <1>1, <1>2

(* A wait that ends remembers which file it leaves half received.           *)
LEMMA MovesOn ==
  ASSUME TInv, UNCHANGED <<have, lost>>, NEW c \in Client, c.eobs = cli.eobs,
         c.interleaved = cli.interleaved, c.parsed = cli.parsed,
         c.straddled = cli.straddled \union Straddled,
         Proceed(c, cli.job) \/ cli' = [c EXCEPT !.pc = "send", !.part = 2]
  PROVE  /\ cli'.eobs = cli.eobs /\ Taken \subseteq Taken' /\ WholeByEobs'
         /\ \A f \in PeerFiles : f = cli.open => f \in Taken'
<1>1. /\ cli'.eobs = cli.eobs /\ cli'.straddled = cli.straddled \union Straddled
      /\ cli'.interleaved = cli.interleaved /\ cli'.parsed = cli.parsed
      /\ cli'.pc \notin {"commit", "import"}
  <2>1. CASE Proceed(c, cli.job)
    BY <2>1, ProceedKeeps, ProceedType
  <2>2. CASE cli' = [c EXCEPT !.pc = "send", !.part = 2]
    BY <2>2 DEF Client
  <2> QED
    BY <2>1, <2>2
<1>2. \A f \in PeerFiles : f = cli.open => f \in Straddled
  BY ClientAssumption DEF Straddled
<1> QED
  BY <1>1, <1>2 DEF Taken, InMemory, WholeByEobs

(* What the records of an ended wait hold.                                  *)
LEMMA EndWaitHolds ==
  ASSUME TInv, cli.pc = "wait",
         NEW c \in {EndWait,
                    [EndWait EXCEPT !.acked = @ \union {cli.job}],
                    [EndWait EXCEPT !.failed = @ \union {cli.job}],
                    [EndWait EXCEPT !.failed = @ \union {cli.job}, !.late = TRUE]}
  PROVE  /\ c \in Client /\ c.eobs = cli.eobs
         /\ c.interleaved = cli.interleaved /\ c.parsed = cli.parsed
         /\ c.straddled = cli.straddled \union Straddled
<1>1. EndWait \in Client
  BY EndWaitType DEF TInv, TypeOK
<1>2. /\ EndWait.eobs = cli.eobs
      /\ EndWait.interleaved = cli.interleaved /\ EndWait.parsed = cli.parsed
      /\ EndWait.straddled = cli.straddled \union Straddled
  BY DEF EndWait, TInv, TypeOK, Client
<1>3. CASE c = EndWait
  BY <1>1, <1>2, <1>3
<1>4. CASE c = [EndWait EXCEPT !.acked = @ \union {cli.job}]
  BY <1>1, <1>2, <1>4, EndWaitWith DEF Client
<1>5. CASE c = [EndWait EXCEPT !.failed = @ \union {cli.job}]
  BY <1>1, <1>2, <1>5, EndWaitWith DEF Client
<1>6. CASE c = [EndWait EXCEPT !.failed = @ \union {cli.job}, !.late = TRUE]
  BY <1>1, <1>2, <1>6, EndWaitWith DEF Client
<1> QED
  BY <1>3, <1>4, <1>5, <1>6

LEMMA WaitEndsOffer ==
  ASSUME TInv, OfferInv, WaitGot \/ WaitRefused \/ WaitExpires
  PROVE  OfferInv'
<1>1. UNCHANGED <<have, lost>> /\ peer' = peer /\ cli.pc = "wait" /\ TypeOK
  BY DEF WaitGot, WaitRefused, WaitExpires, disk, TInv
<1> DEFINE C == {EndWait,
                 [EndWait EXCEPT !.acked = @ \union {cli.job}],
                 [EndWait EXCEPT !.failed = @ \union {cli.job}],
                 [EndWait EXCEPT !.failed = @ \union {cli.job}, !.late = TRUE]}
<1>2. PICK c \in C : Proceed(c, cli.job) \/ cli' = [c EXCEPT !.pc = "send", !.part = 2]
  BY DEF WaitGot, WaitRefused, WaitExpires
<1>3. /\ c \in Client /\ c.eobs = cli.eobs
      /\ c.interleaved = cli.interleaved /\ c.parsed = cli.parsed
      /\ c.straddled = cli.straddled \union Straddled
  BY <1>1, EndWaitHolds
<1> HIDE DEF C
<1>4. /\ cli'.eobs = cli.eobs /\ Taken \subseteq Taken' /\ WholeByEobs'
      /\ \A f \in PeerFiles : f = cli.open => f \in Taken'
  BY <1>1, <1>2, <1>3, MovesOn
<1>5. CASE WaitGot \/ WaitRefused
  <2>1. Read /\ Next1.cmd \in {"got", "skip", "err"}
    BY <1>5 DEF WaitGot, WaitRefused
  <2>2. OpenFollows
    BY <1>4, <2>1 DEF OpenFollows
  <2> QED
    BY <1>1, <1>4, <2>1, <2>2, ReadOffer
<1>6. CASE WaitExpires
  <2>1. line'.toUs = line.toUs /\ line'.up = line.up
    BY <1>6 DEF WaitExpires
  <2> QED
    BY <1>1, <1>4, <2>1, QuietOffer
<1> QED
  BY <1>5, <1>6

LEMMA QuietStepsOffer ==
  ASSUME TInv, OfferInv, ~ Abandon,
         Offer \/ Unsendable \/ BeginReceive \/ ReceiveEnds
  PROVE  OfferInv'
<1>1. UNCHANGED <<have, lost>> /\ peer' = peer /\ TypeOK /\ cli \in Client
  BY DEF Offer, Unsendable, BeginReceive, ReceiveEnds, disk, TInv, TypeOK
<1>2. line'.toUs = line.toUs /\ line'.up = line.up
  BY DEF Offer, Unsendable, BeginReceive, ReceiveEnds, TInv, TypeOK, Line
<1>3. /\ cli'.open = cli.open /\ cli'.eobs = cli.eobs /\ cli'.straddled = cli.straddled
      /\ cli'.interleaved = cli.interleaved /\ cli'.parsed = cli.parsed
      /\ WholeByEobs'
  <2>1. CASE Offer
    BY <1>1, <2>1 DEF Offer, Client, WholeByEobs
  <2>2. CASE Unsendable
    <3> DEFINE c == [cli EXCEPT !.failed = @ \union {cli.job}]
    <3>1. cli.job \in Jobs
      BY <2>2, JobType DEF Unsendable
    <3>2. /\ c \in Client /\ c.open = cli.open /\ c.eobs = cli.eobs
          /\ c.straddled = cli.straddled
          /\ c.interleaved = cli.interleaved /\ c.parsed = cli.parsed
      BY <1>1, <3>1 DEF Client
    <3>3. Proceed(c, cli.job)
      BY <2>2 DEF Unsendable
    <3> HIDE DEF c
    <3> QED
      BY <3>2, <3>3, ProceedKeeps, ProceedType DEF WholeByEobs
  <2>3. CASE BeginReceive
    BY <1>1, <2>3 DEF BeginReceive, Client, WholeByEobs
  <2>4. CASE ReceiveEnds
    BY <1>1, <2>4 DEF ReceiveEnds, Client, WholeByEobs
  <2> QED
    BY <2>1, <2>2, <2>3, <2>4
<1>4. Taken \subseteq Taken'
  BY <1>1, <1>3 DEF Taken, InMemory
<1> QED
  BY <1>1, <1>2, <1>3, <1>4, QuietOffer

(* The file that is open when its data comes is taken, dropped or refused.  *)
LEMMA ReadStepsOffer ==
  ASSUME TInv, OfferInv, ~ Closed,
         \/ ReadFile \/ ReadNul \/ ReadUnsized \/ ReadSkipped \/ ReadData \/ ReadFails \/ WaitEob
         \/ ReceiveEob \/ ReceiveAnswer \/ ReceiveErr
  PROVE  OfferInv'
<1>1. Read /\ TypeOK /\ peer' = peer /\ cli \in Client
  BY PassedOver DEF ReadFile, ReadSkipped, ReadData, ReadFails, DataFrame, WaitEob,
     ReceiveEob, ReceiveAnswer, ReceiveErr, TInv, TypeOK
<1>2. CASE ReadFile
  <2>1. /\ cli'.open = Next1.about /\ Next1.cmd = "file" /\ cli'.eobs = cli.eobs
        /\ cli'.pc \notin {"commit", "import"}
        /\ cli'.interleaved = cli.interleaved /\ cli'.parsed = cli.parsed
        /\ cli'.straddled = cli.straddled /\ UNCHANGED <<have, lost>>
    BY <1>1, <1>2 DEF ReadFile, Client, disk
  <2>2. OpenFollows /\ WholeByEobs'
    BY <2>1 DEF OpenFollows, Taken, InMemory, WholeByEobs
  <2> QED
    BY <1>1, <2>1, <2>2, ReadOffer
<1>3. CASE ReadSkipped
  <2>1. /\ Next1.cmd = "data" /\ cli.open \in {NoFile} \union Refused
        /\ cli'.eobs = cli.eobs /\ cli'.pc \notin {"commit", "import"}
        /\ cli'.interleaved = cli.interleaved /\ cli'.parsed = cli.parsed
        /\ cli'.straddled = cli.straddled /\ UNCHANGED <<have, lost>>
    BY <1>1, <1>3 DEF ReadSkipped, DataFrame, Client, disk
  <2>2. OpenFollows /\ WholeByEobs'
    BY <2>1, ClientAssumption DEF OpenFollows, Taken, InMemory, WholeByEobs
  <2> QED
    BY <1>1, <2>1, <2>2, ReadOffer
<1>4. CASE ReadData
  <2>1. /\ Next1.cmd = "data" /\ lost' = lost
        /\ have' = have \union ({cli.open} \ Mail)
    BY <1>4 DEF ReadData, DataFrame
  <2>2. /\ cli'.eobs = cli.eobs /\ cli'.pc \notin {"commit", "import"}
        /\ cli'.interleaved \union cli'.parsed =
             cli.interleaved \union cli.parsed \union ({cli.open} \intersect Mail)
        /\ cli'.straddled = cli.straddled
    <3>1. CASE cli' = [cli EXCEPT !.open = NoFile, !.interleaved = @ \union ({cli.open} \intersect Mail)]
      BY <1>1, <1>4, <3>1 DEF ReadData, DataFrame, Client
    <3>2. CASE cli' = [cli EXCEPT !.open = NoFile, !.parsed = @ \union ({cli.open} \intersect Mail)]
      BY <1>1, <1>4, <3>2 DEF ReadData, DataFrame, Client
    <3> QED
      BY <1>4, <3>1, <3>2 DEF ReadData
  <2>3. Taken \union {cli.open} \subseteq Taken'
    BY <2>1, <2>2 DEF Taken, InMemory
  <2>4. OpenFollows /\ WholeByEobs'
    BY <2>1, <2>2, <2>3 DEF OpenFollows, WholeByEobs
  <2> QED
    BY <1>1, <2>2, <2>4, ReadOffer
<1>5. CASE ReadFails
  <2>1. /\ Next1.cmd = "data" /\ lost' = lost \union {cli.open} /\ have' = have
        /\ cli'.eobs = cli.eobs /\ cli'.pc \notin {"commit", "import"}
        /\ cli'.interleaved = cli.interleaved /\ cli'.parsed = cli.parsed
        /\ cli'.straddled = cli.straddled
    BY <1>1, <1>5 DEF ReadFails, DataFrame, Client, disk
  <2>2. OpenFollows /\ WholeByEobs'
    BY <2>1 DEF OpenFollows, Taken, InMemory, WholeByEobs
  <2> QED
    BY <1>1, <2>1, <2>2, ReadOffer
<1>6. CASE WaitEob \/ ReceiveEob \/ ReceiveAnswer \/ ReceiveErr
  <2>1. /\ Next1.cmd \in {"got", "skip", "eob", "err"} /\ UNCHANGED <<have, lost>>
        /\ cli'.open = cli.open
        /\ cli'.interleaved = cli.interleaved /\ cli'.parsed = cli.parsed
        /\ cli'.straddled = cli.straddled
    BY <1>1, <1>6 DEF WaitEob, ReceiveEob, ReceiveAnswer, ReceiveErr, Client, disk
  <2>2. cli'.eobs = cli.eobs \/ (Next1.cmd = "eob" /\ cli'.eobs = cli.eobs + 1)
    BY <1>1, <1>6 DEF WaitEob, ReceiveEob, ReceiveAnswer, ReceiveErr, Client
  <2>3. WholeByEobs'
    <3>1. CASE WaitEob \/ ReceiveAnswer \/ ReceiveErr
      BY <1>1, <3>1 DEF WaitEob, ReceiveAnswer, ReceiveErr, Client, WholeByEobs
    <3>2. CASE ReceiveEob
      <4>1. CASE cli' = [cli EXCEPT !.eobs = @ + 1, !.pc = IF cli.eobs >= 1 THEN "commit" ELSE "recv"]
        <5>1. /\ cli'.pc = IF cli.eobs >= 1 THEN "commit" ELSE "recv"
              /\ cli'.eobs = cli.eobs + 1 /\ cli.eobs \in Nat
          BY <1>1, <4>1 DEF Client
        <5>2. cli.eobs >= 1 => cli.eobs + 1 >= 2
          BY <5>1
        <5> QED
          BY <5>1, <5>2 DEF WholeByEobs
      <4>2. CASE cli' = [cli EXCEPT !.pc = "commit", !.cut = TRUE]
        BY <1>1, <4>2 DEF Client, WholeByEobs
      <4> QED
        BY <3>2, <4>1, <4>2 DEF ReceiveEob
    <3> QED
      BY <1>6, <3>1, <3>2
  <2>4. OpenFollows
    BY <2>1 DEF OpenFollows, Taken, InMemory
  <2> QED
    BY <1>1, <2>2, <2>3, <2>4, ReadOffer
<1>7. CASE ReadNul \/ ReadUnsized
  <2>1. /\ Next1.cmd = "nul" \/ (Next1.cmd = "data" /\ cli.open \in Unsized)
        /\ cli' = cli /\ UNCHANGED <<have, lost>>
    BY <1>7 DEF ReadNul, ReadUnsized, DataFrame, disk
  <2>2. OpenFollows
    BY <2>1 DEF OpenFollows, Taken, InMemory
  <2>3. WholeByEobs'
    BY <2>1 DEF Closed, WholeByEobs
  <2> QED
    BY <1>1, <2>1, <2>2, <2>3, ReadOffer
<1> QED
  BY <1>2, <1>3, <1>4, <1>5, <1>6, <1>7

-----------------------------------------------------------------------------
(* What a closed session has taken: the steps of the peer                   *)

(* What is said last changes nothing of what comes before.                  *)
LEMMA SaidLast ==
  ASSUME TypeOK, NEW x \in Frame, line'.toUs = Append(line.toUs, x)
  PROVE  /\ Len(line.toUs) \in Nat /\ Len(line'.toUs) = Len(line.toUs) + 1
         /\ DOMAIN line.toUs = 1 .. Len(line.toUs)
         /\ DOMAIN line'.toUs = 1 .. Len(line.toUs) + 1
         /\ line'.toUs[Len(line.toUs) + 1] = x
         /\ \A i \in DOMAIN line.toUs : line'.toUs[i] = line.toUs[i]
         /\ \A n \in Nat : n <= Len(line.toUs) + 1 => Agree(line.toUs, line'.toUs, n)
<1>1. /\ Len(line.toUs) \in Nat /\ DOMAIN line.toUs = 1 .. Len(line.toUs)
      /\ Len(line'.toUs) = Len(line.toUs) + 1
      /\ DOMAIN line'.toUs = 1 .. Len(line.toUs) + 1
      /\ \A i \in DOMAIN line.toUs : line'.toUs[i] = line.toUs[i]
      /\ line'.toUs[Len(line.toUs) + 1] = x
  BY TalkAppends
<1>2. ASSUME NEW n \in Nat, n <= Len(line.toUs) + 1 PROVE Agree(line.toUs, line'.toUs, n)
  BY <1>1, <1>2 DEF Agree
<1> QED
  BY <1>1, <1>2

(* What was under way still is.                                             *)
LEMMA ComesStill ==
  ASSUME TypeOK, NEW x \in Frame, line'.toUs = Append(line.toUs, x),
         UNCHANGED <<have, cli, lost>>, NEW f,
         NEW n \in Nat, n <= Len(line.toUs) + 1, Comes(f, n), NEW m \in Nat, n <= m
  PROVE  Comes(f, m)'
<1>1. Agree(line.toUs, line'.toUs, n)
  BY SaidLast
<1>2. Taken' = Taken
  BY DEF Taken, InMemory
<1>3. Ahead(line.toUs, cli.open, f, n) => Ahead(line'.toUs, cli.open, f, m)
  BY <1>1, AheadAgree
<1> QED
  BY <1>2, <1>3 DEF Comes

(* A frame that is no M_EOB leaves the M_EOBs as they are.                  *)
LEMMA NoEobSaid ==
  ASSUME TypeOK, OfferInv, NEW x \in Frame, line'.toUs = Append(line.toUs, x), x.cmd # "eob",
         cli' = cli, peer'.eobs = peer.eobs
  PROVE  /\ EobsCounted'
         /\ \A i \in DOMAIN line'.toUs : Second(i)' => i \in DOMAIN line.toUs /\ Second(i)
<1>1. /\ Len(line.toUs) \in Nat /\ DOMAIN line.toUs = 1 .. Len(line.toUs)
      /\ DOMAIN line'.toUs = 1 .. Len(line.toUs) + 1
      /\ line'.toUs[Len(line.toUs) + 1] = x
      /\ \A i \in DOMAIN line.toUs : line'.toUs[i] = line.toUs[i]
  BY SaidLast
<1>2. \A i \in DOMAIN line'.toUs : Eob(i)' => i \in DOMAIN line.toUs /\ Eob(i)
  BY <1>1 DEF Eob
<1>3. EobsCounted'
  BY <1>2 DEF OfferInv, EobsCounted
<1>4. ASSUME NEW i \in DOMAIN line'.toUs, Second(i)' PROVE i \in DOMAIN line.toUs /\ Second(i)
  BY <1>2, <1>4 DEF Second
<1> QED
  BY <1>3, <1>4

(* Before its second M_EOB the peer may offer more.                         *)
LEMMA NoSecond ==
  ASSUME TypeOK, EobsCounted, peer.eobs < 2
  PROVE  cli.eobs < 2 /\ \A i \in DOMAIN line.toUs : ~ Second(i)
<1>1. cli.eobs \in Nat /\ peer.eobs \in {0, 1} /\ cli.eobs <= peer.eobs
  BY DEF TypeOK, Client, PeerSession, EobsCounted
<1>2. ASSUME NEW i \in DOMAIN line.toUs, Second(i) PROVE FALSE
  <2>1. Eob(i) /\ cli.eobs # peer.eobs
    BY <1>2 DEF EobsCounted, Second
  <2>2. cli.eobs = 0 /\ peer.eobs = 1
    BY <1>1, <2>1
  <2>3. PICK k \in DOMAIN line.toUs : k < i /\ Eob(k)
    BY <1>2, <2>2 DEF Second
  <2>4. k = i
    BY <2>1, <2>2, <2>3 DEF EobsCounted
  <2>5. i \in Nat
    BY LenProperties DEF TypeOK, Line
  <2> QED
    BY <2>3, <2>4, <2>5
<1> QED
  BY <1>1, <1>2

LEMMA PeerOffersOffer ==
  ASSUME TInv, OfferInv, NEW g \in PeerFiles, PeerOffers(g)
  PROVE  OfferInv'
<1> DEFINE x == [cmd |-> "file", about |-> g]
           s == line.toUs
           t == line'.toUs
<1>1. /\ x \in Frame /\ x.cmd # "eob" /\ t = Append(s, x) /\ line.up /\ TypeOK
      /\ UNCHANGED <<have, cli, lost>>
  BY DEF PeerOffers, Talk, Frame, disk, TInv, TypeOK, Line
<1>2. /\ peer'.eobs = peer.eobs /\ peer.eobs < 2 /\ peer.sending = NoFile
      /\ peer'.sending = g \/ g \in Unsized
      /\ peer'.offered = peer.offered \union {g}
      /\ peer.offered \subseteq PeerFiles
  <2>1. PICK rest \in {g, NoFile} :
          /\ rest = g \/ g \in Unsized
          /\ peer' = [peer EXCEPT !.sending = rest, !.offered = @ \union {g}]
    BY DEF PeerOffers
  <2> QED
    BY <2>1 DEF PeerOffers, TInv, TypeOK, PeerSession
<1>3. x = [cmd |-> "file", about |-> g]
  OBVIOUS
<1> HIDE DEF x
<1>4. /\ Len(s) \in Nat /\ Len(t) = Len(s) + 1 /\ DOMAIN s = 1 .. Len(s)
      /\ DOMAIN t = 1 .. Len(s) + 1 /\ t[Len(s) + 1] = x
  BY <1>1, SaidLast
<1>5. /\ EobsCounted'
      /\ \A i \in DOMAIN t : Second(i)' => i \in DOMAIN s /\ Second(i)
  BY <1>1, <1>2, NoEobSaid
<1>6. cli.eobs < 2 /\ \A i \in DOMAIN s : ~ Second(i)
  BY <1>1, <1>2, NoSecond DEF OfferInv
<1>7. OffersUnderWay'
  <2> SUFFICES ASSUME NEW f \in peer.offered \union {g}, NEW n \in Nat, n = Len(t) + 1
               PROVE  \/ Comes(f, n)'
                      \/ f = peer'.sending /\ Begun(t, cli.open, f, n)
    BY <1>1, <1>2, <1>4 DEF OffersUnderWay, Comes
  <2>1. CASE f \in peer.offered
    <3>1. f # peer.sending
      BY <1>2, <2>1, ClientAssumption
    <3>2. Comes(f, Len(s) + 1)
      BY <1>1, <2>1, <3>1 DEF OfferInv, OffersUnderWay
    <3>3. Len(s) + 1 \in Nat /\ Len(s) + 1 <= n
      BY <1>4
    <3> QED
      BY <1>1, <3>2, <3>3, ComesStill
  <2>2. CASE f = g
    <3>1. Clear(t, Len(s) + 1, n)
      BY <1>4 DEF Clear
    <3>2. Begun(t, cli.open, g, n)
      BY <1>3, <1>4, <2>2, <3>1 DEF Begun
    <3>3. g \in Unsized => Comes(g, n)'
      BY DEF Comes, Taken
    <3> QED
      BY <1>2, <2>2, <3>2, <3>3
  <2> QED
    BY <2>1, <2>2
<1>8. SecondLast'
  <2>1. ~ cli'.eobs >= 2
    BY <1>1, <1>6 DEF TypeOK, Client
  <2> QED
    BY <1>5, <1>6, <2>1 DEF SecondLast
<1>9. WholeByEobs'
  BY <1>1 DEF OfferInv, WholeByEobs
<1> QED
  BY <1>5, <1>7, <1>8, <1>9 DEF OfferInv

(* The peer says something else, and all it has offered is under way.       *)
LEMMA SaysOffer ==
  ASSUME TInv, OfferInv, NEW x \in Frame, line'.toUs = Append(line.toUs, x), x.cmd # "eob",
         line'.up = line.up, UNCHANGED <<have, cli, lost>>,
         peer'.eobs = peer.eobs, peer'.offered = peer.offered,
         \/ peer'.sending = peer.sending /\ x.cmd \notin {"file", "data"}
         \/ x = [cmd |-> "data", about |-> peer.sending]
  PROVE  OfferInv'
<1> DEFINE s == line.toUs
           t == line'.toUs
<1>1. TypeOK /\ peer.offered \subseteq PeerFiles
  BY DEF TInv, TypeOK, PeerSession
<1>2. /\ Len(s) \in Nat /\ Len(t) = Len(s) + 1 /\ DOMAIN s = 1 .. Len(s)
      /\ DOMAIN t = 1 .. Len(s) + 1 /\ t[Len(s) + 1] = x
      /\ Agree(s, t, Len(s) + 1)
  <2>1. \A n \in Nat : n <= Len(s) + 1 => Agree(s, t, n)
    BY <1>1, SaidLast
  <2> QED
    BY <1>1, <2>1, SaidLast
<1>3. /\ EobsCounted'
      /\ \A i \in DOMAIN t : Second(i)' => i \in DOMAIN s /\ Second(i)
  BY <1>1, NoEobSaid
<1>4. OffersUnderWay'
  <2> SUFFICES ASSUME line.up, NEW f \in peer.offered, NEW n \in Nat, n = Len(t) + 1
               PROVE  \/ Comes(f, n)'
                      \/ f = peer'.sending /\ Begun(t, cli.open, f, n)
    BY <1>2 DEF OffersUnderWay, Comes
  <2>1. CASE Comes(f, Len(s) + 1)
    <3>1. Len(s) + 1 \in Nat /\ Len(s) + 1 <= n
      BY <1>2
    <3> QED
      BY <1>1, <2>1, <3>1, ComesStill
  <2>2. CASE f = peer.sending /\ Begun(s, cli.open, f, Len(s) + 1)
    <3>1. Begun(t, cli.open, f, Len(s) + 1)
      BY <1>2, <2>2, BegunAgree
    <3>2. CASE x = [cmd |-> "data", about |-> peer.sending]
      <4>1. Len(s) + 1 \in DOMAIN t /\ Len(s) + 1 < n
        BY <1>2
      <4>2. Ahead(t, cli.open, f, n)
        BY <1>2, <2>2, <3>1, <3>2, <4>1 DEF Ahead
      <4> QED
        BY <4>2 DEF Comes
    <3>3. CASE peer'.sending = peer.sending /\ x.cmd \notin {"file", "data"}
      <4>1. ASSUME NEW a \in Nat, Clear(t, a, Len(s) + 1) PROVE Clear(t, a, n)
        BY <1>2, <3>3, <4>1 DEF Clear
      <4>2. CASE cli.open = f /\ Clear(t, 0, Len(s) + 1)
        BY <2>2, <3>3, <4>1, <4>2 DEF Begun
      <4>3. CASE \E k \in DOMAIN t : /\ k < Len(s) + 1 /\ t[k] = [cmd |-> "file", about |-> f]
                                     /\ Clear(t, k, Len(s) + 1)
        <5>1. PICK k \in DOMAIN t : /\ k < Len(s) + 1 /\ t[k] = [cmd |-> "file", about |-> f]
                                    /\ Clear(t, k, Len(s) + 1)
          BY <4>3
        <5>2. k \in Nat /\ k < n
          BY <1>2, <5>1
        <5>3. Clear(t, k, n)
          BY <4>1, <5>1, <5>2
        <5> QED
          BY <2>2, <3>3, <5>1, <5>2, <5>3 DEF Begun
      <4> QED
        BY <3>1, <4>2, <4>3 DEF Begun
    <3> QED
      BY <3>2, <3>3
  <2> QED
    BY <2>1, <2>2 DEF OfferInv, OffersUnderWay
<1>5. SecondLast'
  <2>1. ASSUME NEW i \in DOMAIN t, Second(i)', NEW f \in peer.offered PROVE Comes(f, i)'
    <3>1. i \in DOMAIN s /\ Second(i)
      BY <1>3, <2>1
    <3>2. Comes(f, i) /\ i \in Nat /\ i <= Len(s) + 1
      BY <1>2, <3>1 DEF OfferInv, SecondLast
    <3> QED
      BY <1>1, <3>2, ComesStill
  <2>2. Taken' = Taken
    BY DEF Taken, InMemory
  <2>3. cli'.eobs >= 2 => peer.offered \subseteq Taken'
    BY <2>2 DEF OfferInv, SecondLast
  <2> QED
    BY <2>1, <2>3 DEF SecondLast
<1>6. WholeByEobs'
  BY DEF OfferInv, WholeByEobs
<1> QED
  BY <1>3, <1>4, <1>5, <1>6 DEF OfferInv

LEMMA PeerSaysOffer ==
  ASSUME TInv, OfferInv, PeerSends \/ PeerChats \/ \E cmd \in {"got", "skip"} : PeerAnswers(cmd)
  PROVE  OfferInv'
<1>1. CASE PeerSends
  <2> DEFINE x == [cmd |-> "data", about |-> peer.sending]
  <2>1. x \in Frame /\ x.cmd # "eob"
    BY <1>1 DEF PeerSends, Frame, TInv, TypeOK, PeerSession
  <2>2. line'.toUs = Append(line.toUs, x) /\ line'.up = line.up
    BY <1>1 DEF PeerSends, Talk, TInv, TypeOK, Line
  <2>3. /\ UNCHANGED <<have, cli, lost>>
        /\ peer'.eobs = peer.eobs /\ peer'.offered = peer.offered
    BY <1>1 DEF PeerSends, disk, TInv, TypeOK, PeerSession
  <2> QED
    BY <2>1, <2>2, <2>3, SaysOffer
<1>2. CASE \E cmd \in {"got", "skip"} : PeerAnswers(cmd)
  <2>1. PICK cmd \in {"got", "skip"} : PeerAnswers(cmd)
    BY <1>2
  <2> DEFINE x == [cmd |-> cmd, about |-> Head(line.toPeer)]
  <2>2. line.toPeer \in Seq(OutFiles) /\ line.toPeer # <<>>
    BY <2>1 DEF PeerAnswers, TInv, TypeOK, Line
  <2>3. Head(line.toPeer) \in OutFiles
    BY <2>2, HeadTailProperties
  <2>4. x \in Frame /\ x.cmd \notin {"file", "data", "eob"}
    BY <2>3 DEF Frame
  <2>5. line'.toUs = Append(line.toUs, x) /\ line'.up = line.up
    BY <2>1 DEF PeerAnswers, TInv, TypeOK, Line
  <2>6. UNCHANGED <<have, cli, lost>> /\ peer' = peer
    BY <2>1 DEF PeerAnswers, disk
  <2> HIDE DEF x
  <2> QED
    BY <2>4, <2>5, <2>6, SaysOffer
<1>3. CASE PeerChats
  <2> DEFINE x == [cmd |-> "nul", about |-> NoFile]
  <2>1. x \in Frame /\ x.cmd \notin {"file", "data", "eob"}
    BY DEF Frame
  <2>2. line'.toUs = Append(line.toUs, x) /\ line'.up = line.up
    BY <1>3 DEF PeerChats, Talk, TInv, TypeOK, Line
  <2>3. UNCHANGED <<have, cli, lost>> /\ peer' = peer
    BY <1>3 DEF PeerChats, disk
  <2> HIDE DEF x
  <2> QED
    BY <2>1, <2>2, <2>3, SaysOffer
<1> QED
  BY <1>1, <1>2, <1>3

(* The peer says M_EOB when all it has offered has been sent.               *)
LEMMA PeerEobOffer ==
  ASSUME TInv, OfferInv, PeerEob
  PROVE  OfferInv'
<1> DEFINE x == [cmd |-> "eob", about |-> NoFile]
           s == line.toUs
           t == line'.toUs
<1>1. /\ x \in Frame /\ t = Append(s, x) /\ line.up /\ TypeOK
      /\ UNCHANGED <<have, cli, lost>>
  BY DEF PeerEob, Talk, Frame, disk, TInv, TypeOK, Line
<1>2. /\ peer.eobs \in {0, 1} /\ peer'.eobs = peer.eobs + 1 /\ peer.sending = NoFile
      /\ peer'.offered = peer.offered /\ peer.offered \subseteq PeerFiles
      /\ cli.eobs \in Nat /\ cli.eobs <= peer.eobs
  BY DEF PeerEob, TInv, TypeOK, PeerSession, Client, OfferInv, EobsCounted
<1> HIDE DEF x
<1>3. /\ Len(s) \in Nat /\ Len(t) = Len(s) + 1 /\ DOMAIN s = 1 .. Len(s)
      /\ DOMAIN t = 1 .. Len(s) + 1
      /\ \A i \in DOMAIN s : t[i] = s[i]
  BY <1>1, SaidLast
<1>4. \A f \in peer.offered : Comes(f, Len(s) + 1)
  <2> SUFFICES ASSUME NEW f \in peer.offered PROVE Comes(f, Len(s) + 1)
    OBVIOUS
  <2>1. f # peer.sending
    BY <1>2, ClientAssumption
  <2> QED
    BY <1>1, <2>1 DEF OfferInv, OffersUnderWay
<1>5. ASSUME NEW f \in peer.offered, NEW m \in Nat, Len(s) + 1 <= m PROVE Comes(f, m)'
  BY <1>1, <1>3, <1>4, <1>5, ComesStill
<1>6. \A i \in DOMAIN t : Eob(i)' => i = Len(s) + 1 \/ (i \in DOMAIN s /\ Eob(i))
  BY <1>3 DEF Eob
<1>7. EobsCounted'
  <2>1. cli'.eobs < peer'.eobs
    BY <1>1, <1>2
  <2>2. CASE cli.eobs = peer.eobs
    <3>1. \A i \in DOMAIN t : Eob(i)' => i = Len(s) + 1
      BY <1>6, <2>2 DEF OfferInv, EobsCounted
    <3> QED
      BY <1>1, <1>2, <2>1, <3>1 DEF EobsCounted
  <2>3. CASE cli.eobs # peer.eobs
    <3>1. cli.eobs + 1 = peer.eobs
      BY <1>2, <2>3
    <3>2. \A i, k \in DOMAIN s : Eob(i) /\ Eob(k) => i = k
      BY <3>1 DEF OfferInv, EobsCounted
    <3>3. cli'.eobs + 1 # peer'.eobs
      BY <1>1, <1>2, <3>1
    <3> QED
      BY <1>1, <1>2, <1>6, <2>1, <3>2, <3>3 DEF EobsCounted
  <2> QED
    BY <2>2, <2>3
<1>8. OffersUnderWay'
  <2> SUFFICES ASSUME NEW f \in peer.offered, NEW n \in Nat, n = Len(t) + 1
               PROVE  Comes(f, n)'
    BY <1>2, <1>3 DEF OffersUnderWay, Comes
  <2>1. Len(s) + 1 <= n
    BY <1>3
  <2> QED
    BY <1>5, <2>1
<1>9. SecondLast'
  <2>1. ASSUME NEW i \in DOMAIN t, Second(i)', NEW f \in peer.offered PROVE Comes(f, i)'
    <3>1. CASE i = Len(s) + 1
      <4>1. i \in Nat /\ Len(s) + 1 <= i
        BY <1>3, <3>1
      <4> QED
        BY <1>5, <4>1
    <3>2. CASE i # Len(s) + 1
      <4>1. i \in DOMAIN s /\ Eob(i) /\ i \in Nat /\ i <= Len(s) + 1 /\ i < Len(s) + 1
        BY <1>3, <1>6, <2>1, <3>2 DEF Second
      <4>2. Second(i)
        <5>1. CASE cli.eobs = 1
          BY <4>1, <5>1 DEF Second
        <5>2. CASE cli.eobs # 1
          <6>1. PICK k \in DOMAIN t : k < i /\ Eob(k)'
            BY <1>1, <2>1, <5>2 DEF Second
          <6>2. k \in DOMAIN s /\ Eob(k)
            BY <1>3, <1>6, <4>1, <6>1
          <6> QED
            BY <4>1, <6>1, <6>2 DEF Second
        <5> QED
          BY <5>1, <5>2
      <4>3. Comes(f, i)
        BY <4>1, <4>2 DEF OfferInv, SecondLast
      <4> QED
        BY <1>1, <4>1, <4>3, ComesStill
    <3> QED
      BY <3>1, <3>2
  <2>2. Taken' = Taken
    BY <1>1 DEF Taken, InMemory
  <2>3. cli'.eobs >= 2 => peer.offered \subseteq Taken'
    BY <1>1, <2>2 DEF OfferInv, SecondLast
  <2> QED
    BY <1>2, <2>1, <2>3 DEF SecondLast
<1>10. WholeByEobs'
  BY <1>1 DEF OfferInv, WholeByEobs
<1> QED
  BY <1>7, <1>8, <1>9, <1>10 DEF OfferInv

(* If the second M_EOB arrives after all, so does what came before it.      *)
LEMMA PeerClosesOffer ==
  ASSUME TInv, OfferInv, PeerCloses
  PROVE  OfferInv'
<1> DEFINE s == line.toUs
           t == line'.toUs
<1>1. /\ ~ line'.up
      /\ Len(s) \in Nat /\ DOMAIN s = 1 .. Len(s)
      /\ Len(t) \in Nat /\ DOMAIN t = 1 .. Len(t)
      /\ \A i \in DOMAIN t :
           \/ i \in DOMAIN s /\ t[i] = s[i]
           \/ i = Len(t) /\ i = Len(s) + 1 /\ t[i] = [cmd |-> "err", about |-> NoFile]
  BY CloseCuts DEF TInv
<1>2. UNCHANGED <<have, cli, lost>> /\ peer'.eobs = peer.eobs /\ peer'.offered = peer.offered
  BY DEF PeerCloses, disk, TInv, TypeOK, PeerSession
<1>3. \A i \in DOMAIN t : Eob(i)' => i \in DOMAIN s /\ Eob(i)
  BY <1>1 DEF Eob
<1>4. EobsCounted'
  BY <1>2, <1>3 DEF OfferInv, EobsCounted
<1>5. SecondLast'
  <2>1. ASSUME NEW i \in DOMAIN t, Second(i)', NEW f \in peer.offered PROVE Comes(f, i)'
    <3>1. i \in DOMAIN s /\ Eob(i) /\ i \in Nat
      BY <1>1, <1>3, <2>1 DEF Second
    <3>2. Second(i)
      <4>1. CASE cli.eobs = 1
        BY <3>1, <4>1 DEF Second
      <4>2. CASE cli.eobs # 1
        <5>1. PICK k \in DOMAIN t : k < i /\ Eob(k)'
          BY <1>2, <2>1, <4>2 DEF Second
        <5> QED
          BY <1>3, <3>1, <5>1 DEF Second
      <4> QED
        BY <4>1, <4>2
    <3>3. Comes(f, i)
      BY <3>1, <3>2 DEF OfferInv, SecondLast
    <3>4. Agree(s, t, i)
      BY <1>1, <2>1, <3>1 DEF Agree
    <3>5. Ahead(s, cli.open, f, i) => Ahead(t, cli.open, f, i)
      BY <3>1, <3>4, AheadAgree
    <3> QED
      BY <1>2, <3>3, <3>5 DEF Comes, Taken, InMemory
  <2>2. Taken' = Taken
    BY <1>2 DEF Taken, InMemory
  <2>3. cli'.eobs >= 2 => peer.offered \subseteq Taken'
    BY <1>2, <2>2 DEF OfferInv, SecondLast
  <2> QED
    BY <1>2, <2>1, <2>3 DEF SecondLast
<1>6. OffersUnderWay' /\ WholeByEobs'
  BY <1>1, <1>2 DEF OffersUnderWay, OfferInv, WholeByEobs
<1> QED
  BY <1>4, <1>5, <1>6 DEF OfferInv

-----------------------------------------------------------------------------
(* While a session talks.                                                   *)
LEMMA TalkOffer == TInv /\ OfferInv /\ ~ Closed /\ [Next]_vars => OfferInv'
<1> SUFFICES ASSUME TInv, OfferInv, ~ Closed, [Next]_vars PROVE OfferInv'
  OBVIOUS
<1>1. CASE Dial \/ Abandon \/ Import
  BY <1>1, BeginsOffer
<1>2. CASE /\ ~ Abandon
           /\ Offer \/ Unsendable \/ BeginReceive \/ ReceiveEnds
  BY <1>2, QuietStepsOffer
<1>3. CASE WaitGot \/ WaitRefused \/ WaitExpires
  BY <1>3, WaitEndsOffer
<1>4. CASE \/ ReadFile \/ ReadNul \/ ReadUnsized \/ ReadSkipped \/ ReadData \/ ReadFails
           \/ WaitEob \/ ReceiveEob \/ ReceiveAnswer \/ ReceiveErr
  BY <1>4, ReadStepsOffer
<1>5. CASE Peer
  BY <1>5, PeerOffersOffer, PeerSaysOffer, PeerEobOffer, PeerClosesOffer DEF Peer
<1>6. CASE UNCHANGED vars
  BY <1>6 DEF vars, disk, OfferInv, EobsCounted, OffersUnderWay, SecondLast, WholeByEobs,
     Second, Eob, Comes, Taken, InMemory
<1>7. CASE Drain \/ Commit
  BY <1>7 DEF Drain, Commit, Closed
<1> QED
  BY <1>1, <1>2, <1>3, <1>4, <1>5, <1>6, <1>7
     DEF Next, Poll, Waiting, WaitRaises, Receiving, Die

(* A session that closes whole has counted two M_EOBs.                      *)
LEMMA ClosesWhole == TypeOK /\ OfferInv => ClosedWhole \/ ~ Closed
<1> SUFFICES ASSUME TypeOK, OfferInv, Closed, ~ cli.cut
             PROVE  peer.eobs = 2 /\ peer.offered \subseteq Taken
  BY DEF ClosedWhole
<1>1. cli.eobs >= 2 /\ cli.eobs <= peer.eobs
  BY DEF OfferInv, WholeByEobs, EobsCounted, Closed
<1>2. cli.eobs \in Nat /\ peer.eobs \in 0 .. 2
  BY DEF TypeOK, Client, PeerSession
<1> QED
  BY <1>1, <1>2 DEF OfferInv, SecondLast

(* Once it is closed, the line and the peer no longer matter.               *)
LEMMA ClosedStep ==
  ASSUME TInv, Closed, ClosedWhole, [Next]_vars
  PROVE  OfferInv' \/ (Closed' /\ ClosedWhole')
<1>1. CASE Abandon \/ Import
  BY <1>1, BeginsOffer
<1>2. CASE Commit
  <2>1. /\ cli'.cut = cli.cut /\ cli'.pc = "import" /\ cli'.straddled = cli.straddled
        /\ cli'.interleaved = cli.interleaved /\ cli'.parsed = cli.parsed
        /\ UNCHANGED <<have, lost>> /\ peer' = peer
    BY <1>2 DEF Commit, TInv, TypeOK, Client
  <2> QED
    BY <2>1 DEF Closed, ClosedWhole, Taken, InMemory
<1>3. CASE Drain \/ Peer \/ UNCHANGED vars
  <2>1. UNCHANGED <<have, cli, lost>>
    BY <1>3, PassedOver DEF Peer, PeerOffers, PeerSends, PeerChats, PeerEob, PeerCloses,
       PeerAnswers, vars, disk
  <2>2. ASSUME ~ cli.cut PROVE peer'.eobs = 2 /\ peer'.offered = peer.offered
    <3>1. peer.eobs = 2
      BY <2>2 DEF ClosedWhole
    <3>2. \A f \in PeerFiles : ~ PeerOffers(f)
      BY <3>1 DEF PeerOffers
    <3>3. ~ PeerEob
      BY <3>1 DEF PeerEob
    <3> QED
      BY <1>3, <3>1, <3>2, <3>3, PassedOver DEF Peer, PeerSends, PeerChats, PeerCloses,
         PeerAnswers, vars, TInv, TypeOK, PeerSession
  <2> QED
    BY <2>1, <2>2 DEF Closed, ClosedWhole, Taken, InMemory
<1> QED
  BY <1>1, <1>2, <1>3
     DEF Closed, Next, Dial, Poll, Offer, Unsendable, ReadFile, ReadNul, ReadSkipped,
         ReadUnsized, ReadData, ReadFails, DataFrame, Waiting, WaitGot, WaitRefused, WaitEob,
         WaitExpires, WaitRaises, Receiving, BeginReceive, ReceiveEob, ReceiveAnswer,
         ReceiveErr, ReceiveEnds, Die

LEMMA StepOffer == TInv /\ SessionInv /\ [Next]_vars => SessionInv'
<1> SUFFICES ASSUME TInv, SessionInv, [Next]_vars PROVE SessionInv'
  OBVIOUS
<1>1. OfferInv' \/ (Closed' /\ ClosedWhole')
  BY TalkOffer, ClosedStep DEF SessionInv
<1>2. TypeOK'
  BY StepType DEF TInv
<1>3. TypeOK' /\ OfferInv' => ClosedWhole' \/ ~ Closed'
  BY ClosesWhole, PTL
<1> QED
  BY <1>1, <1>2, <1>3 DEF SessionInv

(* A session both sides have ended with M_EOBs has taken every file it was  *)
(* offered, but for those refused, without a size, dropped or half received *)
(* when a wait ended: for any files, any order of frames and any end of the *)
(* connection (_receive_messages and the M_EOBs it counts).                 *)
THEOREM OfferedSafe == Spec => []OfferedTaken
<1>1. Init => TInv /\ SessionInv
  BY InitType, NothingOffered DEF Init, NoSession, NoLine, SessionInv, Closed
<1>2. TInv /\ SessionInv /\ [Next]_vars => (TInv /\ SessionInv)'
  BY StepType, StepOffer
<1>3. SessionInv => OfferedTaken
  BY DEF SessionInv, Closed, ClosedWhole, OfferedTaken, Taken
<1> QED
  BY <1>1, <1>2, <1>3, PTL DEF Spec
=============================================================================
