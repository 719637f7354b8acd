# ANetBBS: a verification project

TLA+ models of the parts of ANetBBS that move mail, run jobs, and hand out nodes
and doors, model-checked with TLC, and theorems about them checked by TLAPS. Paths below are relative to
the repository's `src/` directory; the package itself is `src/anetbbs`.

- [The system](#the-system)
- [What is hard about it](#what-is-hard-about-it)
- [Modules](#modules)
- [Runs](#runs)
- [Proofs](#proofs)
- [Where the code and its documentation disagree](#where-the-code-and-its-documentation-disagree)
- [Not modelled](#not-modelled)
- [Plan](#plan)

## The system

ANetBBS is a bulletin board: terminal servers and a web UI over one SQLite
database, with a FidoNet-style mail hub behind them. Several processes and many
threads run at once, and they share **nothing but the database**: a web request,
the terminal server's callers, the echomail poller's thread, the threads the
*Poll now* button starts, the BinkP listener (one thread per call), the
composers and the scheduler thread each have an SQLAlchemy session of their own.
There is no lock between them; what one has loaded, another may change before
the first commits. That is where the bugs of such a program are, so the rule of
these models is: **one database transaction is one action**, and what a thread
keeps in memory between two transactions is that thread's state.

| component | state | operations | correct when |
|---|---|---|---|
| echomail tosser and hold queue (`echomail/tosser.py`, `web/hub_admin.py`) | `EchomailMessage`, `EchoAreaNode` (subscriptions), `BinkPNode.is_active`, `BinkPHoldQueue` (pending or sent per node and message) | toss, get pending, mark sent, catch-up, rescan, flush, subscribe, activate, delete a message | a row is stamped sent only if its node has the mail; every due subscriber gets a row; no mail loops; no row is stuck |
| echomail poller (`echomail/poller.py`) | `EchomailPollLog` (running rows guard against overlap), sent stamps | poll a hub, poll a node, import, stamp, toss | two polls never corrupt each other's stamps; a dead poll does not block a network for ever |
| BinkP listener and client (`echomail/binkp_server.py`, `echomail/binkp.py`) | the session, its batch, its received files | authenticate, send a packet, take M_GOT / M_SKIP, receive, finish | a batch is stamped only when acknowledged; a file acknowledged is a file kept |
| composer, deletion (`web/echomail.py`) | message rows | post, delete | a post is tossed; a deleted message leaves no delivery behind |
| scheduled events (`events/runner.py`, `web/events_admin.py`) | `ScheduledEvent` (schedule, enabled, `last_run_at`), the thread's loaded rows | sweep, run a handler with a time-out, record, edit, toggle, Run now | an occurrence runs once and is not missed; no event starves the others |
| event handlers (`events/handlers.py`) | the tables each cleans | prune, back up, poll... | each is idempotent |
| AreaFix (`echomail/areafix.py`) | subscriptions, hold rows | +area, -area, %RESCAN, reply | as the tosser's |
| FileFix, TIC, hatch, FREQ (`echomail/filefix.py`, `tic.py`, `freq.py`) | hatch rows, inbound TIC and file pairs | queue, send, retry, import | a file is sent until acknowledged, imported once |
| netmail (`echomail/routing.py`, `web/netmail.py`) | netmail status: queued, held, direct, sent | route, hold, release, deliver | no netmail is lost or sent twice |
| QWK hub (`web/qwk_hub.py`, `echomail/qwk_hub_ftp.py`) | `QWKNodeLastSent`: a high-water mark per node and area; the packet file of every node | build a packet, mark, upload a reply packet, subscribe, reset | nothing under a mark is unknown to the node; no mark outlives its message; nothing is stored twice |
| QWK client (`echomail/qwk.py`) | – | fetch and parse packets | as the poller's |
| nodelist, JAM export, directory syncs | replaced tables | batch import | a failed import keeps the old rows |
| terminal servers and sessions (`core/session.py`, `features/multinode.py`) | the node table in memory, `NodeActivity` rows, locked accounts | log in, take a node, watch for a kick, leave, crash | a node belongs to one caller who lives; who is listed can be kicked |
| presence (`core/presence.py`) | `UserSession` and `PresenceEvent` rows, the markers of watchers | log in and out, announce, relay, sweep | every alert once, in order, to everybody |
| door games (`games/node_manager.py`, `door_runner.py`) | `GameSession`, a node table in memory per process | allocate, run, clean up, disconnect, sweep | a door node has one player; nodes come free |
| file areas, quotas (`features/file_*.py`) | counters per user and day | check, download, count | nobody passes the quota |
| rate limit, access control, MSP, MRC, FTP, RSS, social queue, webhooks | small | see `PROJECT.json` | |
| configuration, installer, monitor, wiki, guru, MUD, vendored doors | – | tools and content | |

How they interact: a peer's packet enters through the **listener** or the
**poller**, becomes rows in one commit, and the session then calls the **tosser**
for each new row; the tosser writes one hold row per subscribed **node**; the
next session with that node, whoever dialled, gathers its pending rows into a
packet and stamps them when the packet is acknowledged. A local post is tossed by
the **composer** and separately goes upstream through the poller, which stamps
`sent_at` on the message itself. **AreaFix** and the hub pages change
subscriptions and re-queue rows under running sessions. **QWK** nodes fetch what
lies above their marks and upload to the same message table and tosser. The
**scheduler** runs maintenance, the sweeps of doors and presence among it, and may
start polls. **Terminal sessions** run in one process, the web in another; each
launches doors, and they see each other's rows only.

## What is hard about it

`PROJECT.json` lists every hazard at its line. The main ones:

- **Reads that go stale.** A batch is gathered, sent over a network for minutes,
  then stamped by message id; a flush, rescan, deletion, second session with the
  same node, or a reused id may come between. The tosser reads the hold rows
  there are and inserts the missing ones in a later commit.
- **A snapshot shared by actors who do not know of each other.** A dialled
  session tosses every inbound row newer than the newest it saw at its start,
  also those of a listener session running beside it.
- **Acknowledgements lost, packets refused, lines cut, processes dying** between
  import and toss, between acknowledgement and stamp, with a row `running` in the
  poll log.
- **Guards that check in one transaction and act in another** (the poll log).
- **Ids that come back.** SQLite hands out the largest id plus one: of a deleted
  newest message under a high-water mark, of the row of a session that still runs
  its goodbye, of a swept alert below its watchers' markers.
- **Two processes, a table in memory each** (door nodes), and several threads that
  notice the same end and all clean up.
- **Boundaries of time**: an occurrence exactly at `last_run_at`; two messages
  packed in the same second; an event that has never run.
- **Progress**: a hold row whose packet keeps being refused, a network whose poll
  died, an event behind a handler that hangs.

## Modules

| module | models | proved in its `_proofs` module |
|---|---|---|
| `Forwarding` | abstract: what the system promises a peer it owes mail | |
| `HubToss` | tosser, node sessions of poller and listener, composer, sysop; implements `Forwarding` | `TypeCorrect`, `SentSafe`, `NoLoops`, `BounceSafe`, `FanOutSafe`, `ImplementsForwarding` |
| `UpstreamLink` | polls of a hub, the poll log, MSGIDs, `sent_at`; implements `Forwarding` | `TypeCorrect`, `StampedSafe`, `RetriesSafe`, `ImplementsForwarding` |
| `BinkpClient` | `poll()` of the dialling BinkP end, and what the poller does with its result | `TypeCorrect`, `NoFileForgotten`, `SentSafe`, `OfferedSafe` |
| `EventScheduler` | `events/runner.py`, `web/events_admin.py` | `TypeCorrect`, `OncePerOccurrence` |
| `QwkHub` | the hub side of QWK over HTTP and FTP | `TypeCorrect`, `MarksSafe`, `MarkedSafe`, `OnceSafe` |
| `DoorNodes` | the nodes of a door game in two processes | `TypeCorrect`, `ListSafe`, `ShareSafe` |
| `NodeSessions` | the nodes of terminal sessions, kicks and bans | `TypeCorrect`, `NodesSafe`, `RowsSafe` |
| `PresenceAlerts` | who is online, and who is told | `TypeCorrect`, `AlertsInOrder`, `MissedSafe`, `ListedSafe` |

`HubTossMC`, `BinkpClientMC`, `EventSchedulerMC`, `QwkHubMC` and
`DoorNodesMC` hold the values of constants a `.cfg` cannot write.

In each module a definition called *Mutant of X* in its comment is a plausible
bug in X, kept beside it: every property of a passing run is known to fail when
the mutant replaces X.

### HubToss

`rows` is `BinkPHoldQueue` (`none`, `pending`, `sent` per node and message),
`stored`, `area`, `seen`, `lastId` the message table, `subs` and `active` the
subscriptions and node flags. `ses[w]` is what thread *w* holds in memory: its
peer, the batch it gathered, whether that was acknowledged, the newest inbound id
it saw, the imported messages it has yet to toss, whether a commit has expired these
objects since they were read (`cached`), and the rows a toss is about to commit.

| action | code |
|---|---|
| `Connect`, `Dial` | the listener's handshake; `_do_poll_node`, `_do_poll` |
| `Gather`, `GatherForHub` | `get_pending_for_node` and packing; the outbound messages of a poll of the hub |
| `SendAccepted`, `SendAckLost`, `SendRefused`, `Drop` | the outcomes of sending one packet |
| `Mark` | `mark_sent_for_node`; at once in the listener, after the import in the poller |
| `Receive`, `Import` | files kept in memory, imported after the session (`_import_pkt_payload`) |
| `Collect` | the poller's query for rows above its snapshot |
| `TossRead`, `Insert`, `InsertFails` | `toss_message` before and at its commit |
| `TossRaises`, `MarkRaises`, `CollectRaises` | a message deleted under the session: reading its id, stamping it, flushing its stamp raises (remark 9) |
| `Compose`, `DeleteMessage` | `web/echomail.py` |
| `CatchupRead` (+ `Insert`) | `toss_area_messages`: catch-up, or with `force` AreaFix's %RESCAN |
| `Subscribe`, `Unsubscribe`, `SetActive`, `FlushQueue` | `web/hub_admin.py`, AreaFix |
| `Fail` | the process dies, or a commit fails |

`from`, `got`, `asked`, `withdrawn`, `expected`, `abandoned`, `cut` and `overheard`
are history: what happened, for the properties to refer to. No guard reads any of
them but `from`, which only tells inbound rows from local ones, as the direction
column does.

Simplifications. A session sends one packet and brings in at most `MaxImport`
messages. A catch-up and AreaFix's rescan commit one node and area at a time. The
poller's import has a commit of its own, as it does when a message names a local
user; when none does, the commit coincides with the next one, which is the same
behaviour with nothing in between. An import that is rolled back is a session that was
dropped. What a poll of the hub gathers is any set of local messages; which ones, and
their stamps, is `UpstreamLink`. SQLite's write lock, which is not modelled,
narrows the window of the toss race (below) for the poller to its second message;
for the listener and the composer it is open from the first. Deleting or re-addressing a
node, and netmail that travels in the same sessions, are not modelled.

### UpstreamLink

One network with one area, seen from the sending side. `log` is the list of
`running` rows of `EchomailPollLog`, `queued` / `msgid` / `stamped` the outbound
messages, `second` the clock MSGIDs are made from, `hub` (external) the MSGIDs the
hub knows. `PollCheck` and `PollStart` are the guard and the insert of `_do_poll`,
two transactions; `Age` lets half an hour pass for a row; `Gather`, `Pack`, the
three outcomes of sending and `Finish` follow; `PollFails` is the exception path,
whose `finally` commit also saves the MSGIDs; `Listen` is the hub calling in,
which takes a log row and asks for none; `Die` is a process that ends with its row
running. Towards `Forwarding`, a message is owed while it is queued and not stamped;
a dialled session's packet is `Receive` and its `Finish` is `Settle`, the listener's
session does both at once (`Deliver`), and nothing is withdrawn. A packet is built
within one second. MSGIDs given to a local post by a
downstream node's session are left out. The hub drops known MSGIDs: that is what
this program's own importers do (`poller.py:1131`, `binkp_server.py:2142`).

### BinkpClient

One poll frame by frame, from the end of the handshake to the stamps: what the
single `Send...` steps of the modules above stand for, at the dialling end. `status` and
`tries` are the rows (or files) behind the outbound jobs, `have` the peer's files
that are imported or on disk, `cli` the running `poll()` with its result so far,
`line` the connection. `spool`, `kept` and `peer` are the peer (external); `lost`
and `doubtful` are history, as is `straddled` in `cli`.

| action | code |
|---|---|
| `Dial` | `poll()` after the handshake |
| `Offer`, `Unsendable` | one file of `_send_messages`, `_send_hatched_files`, `_send_loose_files`, `_send_file_requests`; a file that cannot be read, a request without a name |
| `ReadFile`, `ReadSkipped`, `ReadUnsized`, `ReadData`, `ReadFails` | `_consume_inbound_file_frame`, in an ack wait or after it |
| `ReadNul` | M_NUL, which both loops pass over |
| `WaitGot`, `WaitRefused`, `WaitEob` | the answer in `_wait_got` and `_send_messages` |
| `WaitExpires`, `WaitRaises` | the deadline; an exception of the socket, which only `_send_messages` catches |
| `BeginReceive`, `ReceiveEob`, `ReceiveAnswer`, `ReceiveErr`, `ReceiveEnds` | `_receive_messages` and the M_EOBs around it |
| `Drain` | `_disconnect` reads on until the peer closes or is silent |
| `Commit` | `_run_client`: hatch rows and file requests |
| `Import` | `_do_poll`: import of mail, stamps of the packet |
| `Die` | the process dies, or importing raises |

The four kinds of job differ in who records the outcome and when: a loose file is
archived at its M_GOT, hatch rows and requests are committed by `_run_client`, the
packet's messages are stamped by `_do_poll` after the import. A hatched file is
followed by its TIC manifest and counts only with it.

`PeerOffers`, `PeerSends`, `PeerAnswers`, `PeerChats`, `PeerEob` and `PeerCloses` are
the peer.

Simplifications. A file is M_FILE and one data frame. Of its declared size four cases
are told apart: ordinary; too large or not a number, which is refused with M_SKIP
(`Refused`); and 0 or missing, with which a file never completes (`Unsized`). TIC
processing after the session is left out, and with it what
becomes of a stashed file. The peer answers offers in order, offers each of its
files once per session and deletes a file when it reads our M_GOT. `SentKept`
excuses a job acknowledged after a wait of the same session had expired
(`doubtful`): the late M_GOT of the first file is then taken for the next, since
names are not compared. `OfferedTaken` excuses a file half received when a wait
ended (`straddled`), since every wait keeps the file in progress in a dictionary
of its own; the peer does not get an M_GOT for it and offers it again next time. It
excuses `Unsized` too (remark 10). `SessionEnds` excuses one way for a poll not to end:
after our M_EOB neither `_receive_messages` nor the drain has a limit but the
peer's silence, so a peer that sends frames for ever holds the poll for ever (remark
11). In an ack wait, which has a deadline, it cannot.
`InboundKept` excuses what a failing parser or disk dropped and what was in the
memory of a poll that raised; the latter is remark 2 below.

### EventScheduler

Time is a count of ticks; `daily`, `hourly` and `weekly` differ only in their
period, so one `Period` stands for the three. `row` is the table, `sweep` the
scheduler thread with the rows its query returned (`rows`, until a commit or
rollback expires them and attributes are read again), `manual` one Run now request.
`Load`, `Skip`, `Start`, `HandlerReturns`, `HandlerTimesOut`, `Record`,
`RecordFails`, `Abort` and `SweepDone` are `_tick` and `fire`; `Create`, `Save`,
`Delete` and `RunNow` the routes. `HandlerReturns` and `HandlerTimesOut` have the
same effect on the state and differ in fairness: only the time-out is certain. A
missing handler or malformed parameters count as a run, as in `fire`. Sysops start
one Run now at a time.

### QwkHub

A QWK node asks for what lies above its high-water marks and uploads replies, over
HTTP (requests run side by side) or over FTP (one thread answers everybody, beside
the HTTP requests). `messages` is the message table by id, `rows` the subscriptions
with their marks, `work` what each request has in hand, `file` the packet in each
node's FTP directory. A message has a serial number that is not in the database:
ids come back, serials do not. `packed`, `received`, `lost`, `uploaded` and `tossed`
are history.

| action | code |
|---|---|
| `Post` | mail from a user or another peer |
| `HttpBuild`, `HttpMark`, `HttpAnswered`, `HttpLost` | `_build_qwk_hub_packet`, `mark_qwk_sent`, the answer of `download_qwk` |
| `FtpBuild`, `FtpMark`, `FtpMarkFails`, `FtpFetch` | `generate_node_packet` at login, its commit, RETR |
| `RepRead`, `RepStore`, `HttpToss`, `FtpToss`, `FtpTossFails` | `import_rep_packet`, `process_rep_upload` |
| `Subscribe`, `Unsubscribe`, `ResetMark`, `SwitchArea`, `Delete` | `web/hub_admin.py`, `web/echomail_admin.py`, `delete_message` |

Two constants switch off behaviour the code has, because a property fails with it:

- `EditsDuringDownload = FALSE` keeps the sysop out of the milliseconds between
  reading the marks and writing them. With `TRUE`, a message deleted there whose
  id is given out again lies under the mark written afterwards and is never sent.
- `OverlappingUploads = FALSE` keeps the two lookups of overlapping uploads apart.
  With `TRUE`, a packet sent twice at once is stored twice: the first lookup
  happens before SQLite's write lock is taken.

`MarkedIsDelivered` excuses an answer that broke off and an FTP file replaced by the
next login before it was fetched (`lost`): the marks have moved by then, and the
node can only ask the sysop for a reset. Two areas of one node with the same
conference number share one list in the packet, the later replacing the earlier;
over HTTP only what was packed is marked, over FTP both are. `EchoArea.tag` is not
unique, and two tags may spell one number, so this can happen; the instance and the
theorem use distinct numbers (`Numbered`).

### DoorNodes

Web and terminal process each allocate nodes from a table in memory (`held`) and the
active rows (`status`). `ses` is what the launching process knows of a session,
`clean` how far each thread that noticed its end has come.

| action | code |
|---|---|
| `Allocate` | `allocate_node` |
| `Open`, `OpenFails`, `Start` | the launch in `door_runner.py`: row, node entry, fork or connect, pid |
| `StartFails`, `AbortFails` | a launch that fails closes its row and releases its node; the commit of that raises, and row and node stay |
| `Exit` | the door or the remote host ends |
| `Clean`, `CleanMark`, `CleanFails`, `CleanRelease` | the clean-up, by the waitpid thread, the PTY reader and the user's coroutine |
| `BridgeRelease`, `BridgeClose` | the end of a terminal's rlogin or telnet bridge |
| `Crash` | a process dies |
| `SweepRead`, `SweepCommit` | `cleanup_stale_sessions` of the scheduler |
| `Disconnect`, `ClearStale` | `web/games_admin.py`, `cfg/sections/games.py` |

`SharedOnlyIfDisowned` does not say that nodes are never shared: a row closed by
somebody who does not own the session frees its node while the door still plays,
and then two do share it (remark 6). It says there is no other way. It needs
`OverlappingLaunches = FALSE`: of two launches between allocation and commit
in two processes neither sees the other, as the docstring of `node_manager.py`
admits, and TLC finds them on one node at once. `NodesComeFree` excuses sessions
whose row somebody else closed and those with a failed commit: both leave the node in their
process's table until it restarts (`door_runner.py:1433` and the failed launches, from
1498 on, commit without a handler). With two launches a late clean-up has no third
session to hit; three were checked by hand, and `ShareSafe` is for every number.

Simplifications. There is one game. A door killed by a disconnect ends at once, not
within two seconds. rlogin and telnet games launched from the web behave like doors.
The fallback of `allocate_node` when the database cannot be read is left out.

### NodeSessions

`nodes` is the node table of the terminal process, `conn` its connections, `rows`
the `NodeActivity` rows, `banned` the accounts locked.

| action | code |
|---|---|
| `Authenticate` | `login_screen` |
| `Enter`, `AllNodesInUse` | `acquire_slot` and `_open_node_activity`, with no `await` between |
| `Poll` | one round of the kick watchdog |
| `End` | the `finally` of `start` |
| `Crash` | the terminal process dies |
| `Age` | five minutes without a heartbeat |
| `KickFromWeb` | `web/control.py` |
| `KickFromMonitor` | `features/bbs_ui.py`, `monitor/app.py` |
| `ToggleBan` | `web/admin.py` |

`LivingAreListed` excuses a session whose id an ousted one also remembers: an
ousted session deletes its row at once and again when it is over, and by then the
id may be another's. The model also shows, without a property for it, that a kick
by slot may reach the slot's next user. A deleted account is not ousted: the
watchdog asks for a ban only if it finds the user. Heartbeats and the screen mirror
write by the same id and change nothing the module knows. `UserTimeBudget` is not
modelled; nothing charges it (`models.py:2888`).

### PresenceAlerts

`sessions` is `UserSession`, `queue` is `PresenceEvent`, `watch` the marker of every
terminal session's watchdog and of the relay thread of the web process (watcher 0).

| action | code |
|---|---|
| `Connect`, `LogIn`, `LogInFails`, `LogOut` | `SessionPresence`: heartbeat and disconnect |
| `Crash` | the terminal process dies |
| `WebEvent` | login, register and logout in `web/auth.py` |
| `StartWatch`, `RestartRelay` | the first query of the watchdog, of `_relay_loop` |
| `Poll` | a round of either |
| `SweepSessions`, `SweepEvents` | the two clean-ups of `events/handlers.py` |

`docs/33-presence-alerts.md` says a dropped carrier gives no alert; the `finally` of
`start` announces a logout on every way out, and so does the model. A watcher whose
first query fails starts at id 0 and replays the queue; this is left out, as are
alerts taken and dropped while a door owns the screen. A relay that restarts skips
what happened meanwhile (`RestartRelay` counts it as seen).

## Runs

| run | instance | what it shows |
|---|---|---|
| `hub_sysop` | 2 nodes, 2 threads, 2 sysop operations, 1 failure; 1 message with or without a SEEN-BY, 2 within `InScope` | `SentImpliesReceived`; `LoopFree`; `NoBounce`: the excluded peer gets nothing back, but for what another peer's session overheard; `FanOutComplete`: a delivery is lost only with a session that died, lost a race or met a deleted message; the hub implements `Forwarding` |
| `hub_serial` | 1 thread, 1 message, both nodes dialable, 2 sysop operations, fair | no row is pending for ever |
| `link` | 2 threads, 1 of them takes calls, 1 message, 2 seconds, 1 death, fair | `StampedImpliesReceived`; a repeated batch is recognised by its MSGIDs unless they were never saved; the link implements `Forwarding`; mail queued is stamped in the end: a dead poll's row stops blocking |
| `binkp` | a packet and a hatched file with its manifest, 1 file of mail and 1 without a size at the peer, 1 frame on the line, 1 fault, fair | what is recorded as sent the peer has; what the peer gave up is here; a clean end leaves no offered file behind; every session ends whose peer does not talk for ever |
| `sched` | 2 events, clock and interval schedules and a malformed one, 2 edits, 1 fault, fair | an occurrence recorded is not run again; an event due runs, whatever hangs or fails before it |
| `qwk` | 1 node, 2 areas, 1 request beside FTP, 2 messages, packets of 1, 2 sysop operations, 1 fault, fair | `MarkedIsDelivered`, `MarkIsStored`, `StoredOnce`; mail of a subscribed area is packed in the end |
| `qwk_toss` (violation) | the same without sysop and faults | mail uploaded over HTTP is not fanned out |
| `doors` | 2 processes, 1 node, 2 launches, 1 fault, 2 operations of the sysop, fair | a node is shared only after somebody closed a row not theirs; who plays is listed; nodes come free |
| `nodes` | 2 users, 2 nodes, 3 connections, 1 kick, 2 bans, 1 fault, fair | nodes belong to the living; the living are listed; bans and kicks work |
| `nodes_kick` (violation) | the same without bans | a kick goes to a dead session's row and its target stays |
| `alerts` | 2 users, 2 connections, 1 web event, 1 fault, polls of 1, fair | alerts once and in order; missed only if an id came back; who is online is listed; alerts arrive |
| `alerts_swept` (violation) | the same without faults | a login or logout nobody is told of |

**Bounds.** Every bound is a constant in a guard: `MaxMsg`, `MaxImport`,
`MaxEdits`, `MaxFaults`, `MaxSecond`, `MaxTime`, `MaxWire`, `MaxMessages`, `MaxRows`,
`MaxLaunches`, `MaxConns`, `MaxKicks`, `MaxBans`, `MaxWeb`. Two threads are the smallest
number that overlap, and each hazard of `PROJECT.json` is between two. Two nodes are
needed so that a message has a peer it came from and another it goes to. Two sysop
operations can undo one another (flush then rescan, unsubscribe then subscribe,
delete then post). Two seconds separate MSGIDs made together from those that are
not; the clock of `sched` passes two whole periods. In `binkp` two jobs let a late
answer be taken for another job's, the hatched file has a second file that may fail
when the first did not, and with `RetryMax` two one failure is retried and the
second is final; `MaxWire` is what the peer can have on the line at once, and the
client reads one frame at a time. In `qwk` two messages let one be deleted and its
id given to the other, and with packets of one message FTP needs two. One door node
is the one everybody competes for. Three connections on two nodes let one wait, and
one take over the node and the row id of another. `Limit` one makes every second alert exceed a poll.

In `HubTossMC` both nodes are active and one subscription per node exists at the
start; the sysop's operations reach the other configurations. The threads of
`hub_sysop` are interchangeable, so it uses symmetry on them; `ForwardingSpec` is a
safety property. No other run uses symmetry.

Two runs have a `CONSTRAINT` named `InScope` that leaves out states with everything
at once. In `hub_sysop` a second message is followed where it makes a difference: a
session that has two to toss meets one edit of the sysop, so that the older of them is
deleted under it (`Alone`), and two sessions with nodes cross each other with no edit, so
that one collects what the other imported; two edits or a failure come with one
message. In `binkp` the file without a size is offered until the first fault or retry;
those that can complete meet all of them. What the constraints leave out is in the
proofs. `SessionEnds` is checked of the behaviours that stay within `InScope`.

Larger instances that also held, run by hand because they take longer than the
others or repeat them: the safety of `hub_sysop` with two messages, a failure and no sysop
(4.2 million states), of `link` with two messages and two threads that take calls (5.2
million), of `doors` with three launches, one fault and one operation (10.7
million), `nodes` with two kicks (1.8 million), and `binkp` with a loose file and a
file request for jobs (`LooseRequest`, 1.1 million). The proofs have no bounds.

**Deadlock** is checked in the hub, link, BinkP and scheduler runs: a peer can always
call in, a hub can be polled again, the thread can always sweep. The others say
`CHECK_DEADLOCK FALSE`: their connections, launches and messages are counted, and when
all are used up and over, the bounded instance has nothing left to do.

**Fairness.** Time-outs, timers and running threads only, never a peer or a user:

- `HubToss!FairSpec`: a session that has begun goes on (WF on its steps: threads are
  scheduled and all waits have time-outs); an active node keeps calling in, is
  served and, if it calls for ever, accepts a packet some time (SF, since another
  session may hold the only thread meanwhile). That a *dialled* node answers is not
  assumed.
- `UpstreamLink!FairSpec`: steps of sessions WF; the oldest running row ages (WF: time
  passes); the poller's timer fires again and again, and a hub polled for ever
  accepts and acknowledges a packet in the end and its session is not cut before it
  is recorded (SF). Nothing makes the hub call in. In `link` only one thread takes
  calls (`Callers`): a hub whose calls overlap without a gap would always leave a
  running row in the log and so keep polls out for ever.
- `BinkpClient!FairSpec`: only the client's own steps: WF on `Poll` (its thread runs
  and every read of the socket has a timeout) and on `WaitExpires` (the deadline of a
  wait passes whatever comes, `binkp.py:1231` and 1873). The other loops have no
  deadline, and nothing is assumed of the peer, which may be silent, hang up at any
  frame or send M_NULs for ever.
- `EventScheduler!FairSpec`: only the scheduler's thread is fair. `HandlerReturns` is
  not: a handler may hang and only the time-out ends it.
- `QwkHub!FairSpec`: a node polls for ever, over the transport it is set up for (SF on
  building a packet over either: uploads may come between, and both servers take
  connections in order); a handler that has started runs on (WF). Nobody has to
  fetch a file or upload.
- `DoorNodes!Fairness`: threads that wait for a door and clean up, launches, a bridge
  whose remote host hung up, and the daily sweep (WF). No door has to end.
- `NodeSessions!Fairness`: watchdogs poll, and a session whose writer was closed
  unwinds (WF). Nobody has to leave.
- `PresenceAlerts!Fairness`: watchers poll (WF). Nothing is swept for certain.

## Proofs

All theorems hold for every value of the constants that satisfies the modules'
`ASSUME`s; those need only that bounds are naturals, peers are distinct, addresses
and SEEN-BYs are sets of the right kind, a period is positive and the like. Where a
theorem needs more, it says so before its `=>`: `~ReuseIds`, `DistinctAddrs`,
`~EditsDuringDownload`, `Numbered`,
`~OverlappingUploads`, `~OverlappingLaunches`; each excludes behaviour under which the
property is false, described above or below, and the passing runs satisfy all those of
their theorems.

**`HubToss_proofs`.** `TypeCorrect` proves `TypeOK` with one strengthening,
`PacketForNode`: only a session with a node has a packet. `SentSafe` proves
`SentImpliesReceived` **if `~ReuseIds`**. SQLite without AUTOINCREMENT can hand
out the id of a deleted newest row again, and TLC finds a counterexample as soon as
`hub_sysop` is run with `ReuseIds = TRUE`: an acknowledgement of
a message deleted in flight stamps the one that got its id. The property is not
inductive, since `Mark` stamps a batch gathered several steps before. `SentInv`
therefore follows the batch: until the packet is sent it carries the whole batch; an
acknowledged batch is in `got`; only an acknowledged batch is about to be marked
(`Honest`). And what a session, a hold row or the message table names is at most
`lastId` (`IdsKnown` and the last part of `Honest`), so storing a new message, which
forgets the history of its id, touches none of them. `ImplementsForwarding`, under
the same assumption, shows that every step is `Owe`, `Receive`, `Settle`, `Withdraw` or
leaves the abstract variables alone, with `owed` mapped to the pending rows and
`received` to `got`; `Settle`'s precondition is where `SentInv` is used, and
`HistoryKnown` says that history, too, names only ids given out. `NoLoops` proves
`LoopFree`: the rows a toss is about to insert were chosen a transaction earlier, so
the invariant says of every planned row that the SEEN-BY it was chosen by is still
the message's, which holds because no other message can have got its id.

`FanOutSafe` (`~ReuseIds`, `DistinctAddrs`) proves `FanOutComplete`. From its import to its
hold rows a message exists for the toss only in the memory of sessions, and several
may have collected it. The one that counts is the session of the peer that brought it
in; another, which dialled its own peer and found the message newer than its
snapshot, leaves that peer out instead. `HandInv` therefore says more than `InHand`: of
every expected delivery without a row, either its message is still in `fresh` in a
session of the sender's or the delivery is in the plan of a toss (not of a catch-up,
whose failure abandons nothing). With it go the
shape of a session (`SessionsOrderly`: imported messages are named only from import to
toss, and are newer than the snapshot and than the batch it has sent), that a message
is `cut` only behind one deleted (`CutBehindDeleted`: a loop goes from the oldest to the
newest, and what it has left when it raises is newer than what it met), and that a delivery is expected only as long
as `toss_message` would choose it. `exclude_peer_address` is a zone-stripped address,
so two peers with equal ones would leave each other out: `DistinctAddrs`.

`BounceSafe` (`~ReuseIds`) proves `NoBounce` for any number of sessions at once. Its
invariant (`SessionsDiscreet`) says that a message a session has yet to toss came from
this session's peer or is `overheard`, and that a row it is about to insert is not for
the message's sender unless the message is `overheard`: the peer a session leaves out is
the wrong one for exactly those.

**`UpstreamLink_proofs`.** `StampedSafe` proves `StampedImpliesReceived` from
`LinkInv`: a session that believes its batch acknowledged is at its end and the hub
has the batch. The poll-log guard plays no part in it: stamping is safe however
many polls overlap. `RetriesSafe` proves `RetriesRecognised` from one invariant about
who may make an MSGID: of a message that is not excused, one session at most has
an MSGID that is not saved, and every other session sends the saved one; so the hub
has imported at most the copies with that one. `TypeCorrect` adds that batches name
queued messages. `ImplementsForwarding` rests on `LinkInv` and the types: `Finish` is
`Settle`, allowed because an acknowledged batch is in `received`; `Compose` is `Owe`,
which shows in `queued \ stamped` because only queued messages are stamped.

**`BinkpClient_proofs`.** `TypeCorrect` needs `Retriable`: a hatch row still pending
has fewer than `RetryMax` failures and a failed job was pending, so counting one more
stays in range. `NoFileForgotten` proves `InboundKept`: `Held`, all a state has of the
peer's files, never shrinks, because a session that ends without its import moves its
memory to `lost`, and a file leaves the peer's spool only in the step that adds it to
`Held`. The strengthening is `NothingForgotten`: between sessions nothing is in
memory, so `Dial` forgets nothing.

`SentSafe` proves `SentKept`. The client takes any M_GOT for the file it waits for, so
`SentInv` is about what can still come: as long as no wait of the session has
expired, there is at most one answer on the line or one file at the peer that is not
answered, it is for the file waited for, and a manifest is sent only when its
file was kept. An M_ERR is the last thing on a line, so an answer behind one is never
read. `OfferedSafe` proves `OfferedTaken`, by looking along the line: everything the peer
has offered is taken, or its data is on the line with its M_FILE before it and no
other M_FILE between, so that it will be taken for the right file (`Begun`, `Ahead`); all
of this stands before the peer's second M_EOB, and a session ends whole only when it
has read two. Once it has (`Closed`), the drain may throw away what is on the line, so
`SessionInv` keeps from then on only what the end has shown: two M_EOBs read, and
everything offered taken, or excused. Data of a file without a size moves nothing
from the line to what is taken, and such files are excused from the start.

**`EventScheduler_proofs`.** `TypeCorrect`; and `OncePerOccurrence`, that no sweep
starts an event for an occurrence a sweep has recorded. Its invariant `ServedInv`:
no row is stamped with a time to come, the running event's occurrence has come, and
a served occurrence is not later than the row's stamp, both in the table and in the
copy the thread may be working from. `StartIsNew` then is arithmetic: the
occurrence `ComputeNextRun` yields lies after the stamp.

**`QwkHub_proofs`.** `TypeCorrect` needs that the largest id of a finite table exists,
proved from the well-foundedness of strict subsets. `MarksSafe` (`~EditsDuringDownload`)
adds to `MarkIsStored` that the marks a request has in hand point at stored messages
of their area (`MarkInv`). `MarkedSafe` (and `Numbered`) follows what lies under a mark
that is about to be written (`Pending`): it is reached, or it is in the packet that
will be sent with it. Building establishes this, because a batch is the messages
directly above the mark; overlapping requests keep it, because a mark written
meanwhile by another one only makes more of it reached. `OnceSafe`
(`~OverlappingUploads`) proves `StoredOnce`: only one upload is between its lookup and its
commit, and what the lookup found missing is missing still (`LookupHolds`), since
the mail stored meanwhile, posts, has MSGIDs of its own.

**`DoorNodes_proofs`.** `DoorInv` adds to the types that a session in use has a node,
that a tracked one runs, and that a session being cleaned up is not tracked any more.
`ListSafe` holds for overlapping launches too. `ShareSafe` (`~OverlappingLaunches`):
a new allocation avoids every node of an active row, and every session in play that
nobody disowned has such a row, so only disowned ones can be hit.

**`NodeSessions_proofs`.** `NodesSafe` is inductive with the types. `RowsSafe`
strengthens `LivingAreListed` by who may delete a row: a connection has no id before
it has a node (`Unlisted`), and an ousted session is on its way out, as no other is
(`OustedLeave`); so an id that two sessions hold is one an ousted session holds.

**`PresenceAlerts_proofs`.** `AlertsInOrder` and `MissedSafe` share one invariant: the
queue is ordered like the events; an event a watcher has not seen is above its
marker and still in the queue, or its id was used before. A sweep keeps it because it
takes only a prefix everybody has polled; a new event because its id is the largest
plus one, hence above the marker unless the marker's own row was swept. `ListedSafe`
is `RowsSafe` of the presence rows.

**Only model-checked.** The liveness properties (`PendingSettled`,
`QueuedMailGoesOut`, `SessionEnds`, `MissedRunsHappen`, `MailIsPacked`, `NodesComeFree`,
`BannedAreOusted`, `FlaggedAreOusted`, `AlertsArrive`): TLAPS does not reason about
fairness and `ENABLED`. Every safety property of a passing run, invariants, step
properties and refinements, has a theorem.

## Where the code and its documentation disagree

With a run that shows it, in `PROJECT.json` with the lines that disagree:

- *`qwk_toss`.* `import_rep_packet` is to "fan out" what it stored and tosses
  `db.session.new`, which the savepoints around every insert have emptied. Mail
  uploaded over HTTP stays on the hub; over FTP it is fanned out.
- *`nodes_kick`.* A kick is to disconnect its session within about 5 seconds. It is written to the first
  row of the node; after a crash that is a dead session's, which nothing deletes.
- *`alerts_swept`.* Everyone is to see every other user's login and logout. After a
  sweep the ids start again, below the watchers' markers.

Met while modelling, without a run:

1. *Toss race* (`tosser.py:150`). A second toss is said to be idempotent and every
   subscriber to get every message. When two transactions queue the same delivery,
   the unique constraint fails the second one's whole commit and ends its caller's
   loop; the remaining subscribers and messages are never queued. `FanOutComplete`
   excuses these losers (`abandoned`).
2. *Lost interleaved mail* (`binkp.py:1233`). `_wait_got` receives files "inline" so
   that they are not lost; when the connection then breaks before our M_GOT, the
   exception leaves `poll()` with the mail in memory, which the peer has deleted.
3. *Bounce* (`poller.py:756`). The excluded peer is the tossing session's, not the
   one that brought the message; a dialled session running beside a listener session
   sends a node's mail back to it if the node left itself out of SEEN-BY. `NoBounce`
   excuses such messages (`overheard`) and says that nothing else bounces.
4. *MSGIDs* (`binkp.py:547`). The serial documented as unique is the second of
   packing: of two messages of one second a hub that knows MSGIDs keeps one.
5. *Fresh events* (`events/runner.py:183`). "They should wait for their next future
   occurrence": a clock schedule that never ran is never due. `MissedRunsHappen`
   speaks of events that ran before.
6. *Doors shared after a disconnect* (`web/games_admin.py:597`,
   `cfg/sections/games.py:172`). `terminate_session` "deliberately" leaves the row of a
   session another process owns to its owner (`door_runner.py:2143`); its callers close
   it all the same. The node is free for others while the door or bridge still plays,
   and the owner, finding the row closed, never releases it in its own table.
7. *Marks before delivery* (`web/qwk_hub.py:407`). Marks are said to record what was
   sent; they are committed before the answer goes out.
8. `docs/21-scheduled-events.md:17` says no time-out is enforced on handlers; the
   runner abandons them after 300 seconds.
9. *Deleted under the loop* (`poller.py:762`, 600; `binkp_server.py:2309`). The toss
   loops read `.id` of message objects that the previous commit has expired; one the
   sysop has deleted meanwhile raises, the `except` around the loop logs it, and the
   messages after it are committed and never tossed. Stamping a batch with a deleted
   message raises as well (`poller.py:732`, and the stamps of 559, flushed by the query of
   590), before the loop begins. `FanOutComplete` excuses both (`cut`) and says that
   an older message was deleted whenever it happens.
10. *Files without a size* (`binkp.py:1522`). A file offered with the size 0, or
   with none, is never complete: it gets no M_GOT, its data is dropped with the next
   M_FILE, and its sender keeps it and offers it at every session.
11. *No overall limit* (`binkp.py:2058`, 1583). The 5-second time-out is between
   frames: a peer that keeps sending, M_NULs even, is received without end, and so
   does the drain before closing go on. Then the poll's row stays `running`.

## Not modelled

Terminal I/O, packet and archive formats, parsing, rendering, configuration tools,
the installer, and third-party doors are data or I/O without a protocol between
actors; by far most of the code is of this kind: menus, routes and templates over a
table each. The directory syncs, RSS and the nodelist replace or add rows from one
source in one job. The other components of the table above are planned, below.
`PROJECT.json` has the status of each component and the reason.

## Plan

Ordered by how much mail or work the program can lose where the module looks.

Done: `Forwarding` and `HubToss`; `UpstreamLink`; `BinkpClient`, the dialling end;
`EventScheduler`; `QwkHub`; `DoorNodes`; `NodeSessions`; `PresenceAlerts`.

Next:

1. `Netmail` – queued, held and direct netmail. What to look at: nothing sets
   `NetmailMessage.is_hold`; a poll of a network's hub (`poller.py:507-517`) gathers
   all queued netmail of the network, also what is addressed to a downstream node,
   though the tosser says netmail "must never cross-deliver"; if the hub routes it back, the
   import drops it as a duplicate of our own row; a direct crash reply is tried once.
2. `BinkpServer` – the answering end (a crash between M_GOT and import, files pushed
   to a caller), and an abstract `FileTransfer` (a file leaves the sender's queue only
   when the receiver keeps it) that each end implements where it does; with it the
   hatch queue, whose attempts are not counted when they end in an exception.
3. `FileQuota` – a quota checked, then consumed, by concurrent downloads.
4. In `HubToss`: a rescan against a late stamp (a history of when it was asked for),
   deleting and re-addressing nodes, AreaFix requests as a whole.

Theorems to come: that each end of BinkP implements `FileTransfer`, once it is written;
`FanOutComplete` for peers with equal zone-stripped addresses, where a node may be left out
beside the sender; and the safety of the modules above.
