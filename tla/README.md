# A verification project for matron-journal

matron-journal is the server behind a chat between people and coding agents.
One Node process holds, in one SQLite file per installation, an append-only
journal of events for each user.  Two kinds of devices follow it over
WebSocket: *clients* (the user's apps) and *agents* (bridges on the boxes where
sessions run).  Around that feed the server keeps rooms and invitations,
requests for new sessions, a tracker of items and missions, files, transfers,
routines, contacts, pushes, an index and more.

The modules here are written from the source (`src/src/*.js`; files are named
below without that prefix).  Where a doc or a comment says something else, the
model follows the code and a run shows the difference (see *Findings*).

- [How to read the models](#how-to-read-the-models)
- [What there is to verify](#what-there-is-to-verify): the inventory
- [Modules](#modules): which module stands for which code
- [Runs](#runs): what TLC checks, at which bounds, under which fairness
- [Findings](#findings)
- [Seen while modelling](#seen-while-modelling): weak spots that are excepted in a
  property or lie outside the models
- [Proofs](#proofs): what is proved for every value of the constants
- [Assumptions](#assumptions) and [Not modelled](#not-modelled)
- [Plan](#plan)

## How to read the models

The process is single threaded and `better-sqlite3` is synchronous, so a
handler runs without interruption up to its next `await`.  An action is such a
stretch: a whole operation handler, the part of `hello` before its first
await, one turn of the replay loop, one batch of an indexer, one tick of a sweep, one
firing of a timer.  Calls a handler makes that change state are part of its
action.  Where a handler commits more than one transaction and the process may
die between two, the action says how far it got (`n`, `All` in `Spawns`; actions
named `...Dies` or `...Crash` elsewhere).

Operators whose comment begins with *Slip:* are deliberate wrong variants of
the definition that follows them (a dropped guard, a forgotten registration, an
off-by-one).  No action uses them.  Each shows that a property is not vacuous:
with the variant in place of the definition the property fails in the same run.
`PROJECT.json` lists them as mutants.

Variables marked *history* record what happened and influence nothing.

**Composite modules.**  Components that share no state (a password and a voice note) would
only multiply each other's states, so a composite module `MC...` has a variable
`part`, chosen in the initial state; a behavior explores one component and the
others stutter.  A composite therefore checks what its parts would check
alone, in one run.  Components that do share state are one module
(`Rooms` has the tracker item of an ask, `People` the contact, the share and the
rooms of two people, `BoxRequests` the sockets of the box and of whoever asks).
Nondeterministic initial values of the parts that are not explored are
pinned.  A property that costs much to evaluate, or that covers two parts, is
guarded by `part` at the level of the composite.

**Properties** are conjunctions of named parts, one conjunction for each promise
of a component, and the part that fails is found by evaluating its conjuncts
in the last state of the counterexample.

## What there is to verify

Line counts are those of the main files.  `PROJECT.json` lists every component
with its files and what is modelled of it, and every hazard at its line with
the properties aimed at it.

| Component | State | What is hard | Correct when |
| --- | --- | --- | --- |
| **Journal feed**: `ws.js` (2698), `hub.js`, `journal.js` (674) | `events` (dense `seq` per user), `convo_agents`; in memory the registered connections and the cursor of each replay | a replay yields between batches while others append, change who sees what and remove sockets; retries | what a device applied is a gapless run of what it may see; everything arrives; a retried message is one event |
| **Read state**: `journal.js`, `seen.js` (355), `unseen-nudge.js` | `unread_count`, `last_read_seq`, `seen_ranges`, `item_seen`, flags and nudges | two representations of "read"; ranges clipped, merged, reported late; a list gathered from five tables | the badge is what a recount gives; only what was reported is seen, and stays seen; the Coordinator is told once of what the user missed |
| **Archive**: `archive.js` (163), `agent-idem.js` | `convo_archive`, keys of peer messages | apps learn from three sources with one time stamp; a sweep by age; a key that expires under a retry | an up-to-date app shows the table; no new message is hidden; one key, one message |
| **Live output**: `tool-stream.js` (167), `hub.js` | bounded buffers, slots per socket | eviction and trimming under a watcher; catch-up and live frames through one slot | a watcher has it all or knows it has not; streams end for watchers too |
| **Spawn requests**: `spawns.js` (846), `consent*.js` (1326), `rpc-broker.js` | rows, tracker items, caps; in memory orchestrations | several answer one ask; timers race replies; death between any two writes | one approval, one session, one outcome; the cap holds; every ask ends |
| **Causes**: `ask-cause.js`, `cause-hops.js` (400) | what bridges report of their turns | reports are cut short, late or missing; a post need not say who wrote it | what the journal recorded of the Coordinator's hand is followed to the user's words, or the ask is not answered |
| **Rooms**: `participants.js` (431), `invite-delivery.js` | `convo_agents` rows renewed for every ask | fields of an earlier round; the admin tool in another process; a sleeping box | nothing before consent; one relay; nobody misled |
| **Device RPC**: `hub.js`, `rpc-broker.js`, `session-control.js`, `wake.js`, `stall-wake.js` | orders in flight, wake commands and their verdicts, stalled sessions | a box with two sockets or none; answers after timeouts; commands that overlap | an order runs once and is told truly; wakes keep their distance; a stalled session is woken |
| **Tracker**: `items*.js` (1900), `withdrawn-comments.js`, `item-handover*.js` | items, comments, queue of voice notes, handovers | withdrawals and late transcripts; offers answered, replaced, expired by different hands | what is shown as chosen stands; cancelled words are gone; an item moves only by consent |
| **Missions**: `missions*.js` (1500), `mission-links.js`, `convo-title.js` | links, the current mission, stored titles, milestones | any order of joins, leaves, closes, renames | row, title, items and events agree |
| **Routines**: `routines*.js` (903) | schedules, recorded subjects, retries; in memory the firer | late sweeps, slow deliveries, restarts | a fire has a cause, once; nothing is swallowed |
| **Sharing**: `contacts.js`, `person-rooms*.js`, `talk-requests*.js`, `grants.js`, `handover.js`, `projects.js` | rows on both sides, links, twins, grants, copies | two users cross; a contact ends under what hangs on it | both sides tell one story, and both agreed; what crossed is what was approved |
| **Transfers**: `transfers*.js` (1015) | chunks, hash, consent, phase | overlapping uploads; release from either side; late bytes | the receiver gets the announced file, whole, approved; bytes of what is over go |
| **File writes**: `file-guard.js` (1742), `file-idem.js` (391), `files-write-http.js` | idempotency rows, the disk | another process on the same disk; a crash in mid-write; retries | nothing stored is lost; a retry is one write |
| **Blobs and transcripts**: `retention.js` (1019), `media.js`, `blob-transcripts.js` | rows and files; queue and counts of paid jobs | two stores without a common commit; reapers beside uploads | no reference loses its bytes; one job per note |
| **Accounts**: `auth.js`, `link.js`, `pairing.js`, `rendezvous.js`, `two-factor.js`, `password-reset.js` | devices, codes, passwords, secrets | offers claimed, shown, approved by different devices; checks over awaits | one code, one device, the one shown; no change lost; a code once |
| **Search**: `search*.js`, `vector-index.js` | documents, vectors, matrices, cursors of two walks | rows change while they are embedded; ids are given again; walks cut short | what is found is what is there, and all of it |
| **Pushes**: `push.js` (440), `notify.js` | cards on hold, coalescing windows | a decision, a setting or a restart within the hold | a card rings while it waits, once; the newest news is shown |
| **GitHub**, **plumbing**: `github*.js`, `db.js`, `server.js`, `http.js`, settings | | formatting, routing, migrations, an external service | not modelled |

## Modules

| Module | Models | Checked in |
| --- | --- | --- |
| `CursorFeed` | what one follower of a log is promised (abstract) | instantiated by `JournalSync` |
| `JournalSync` | append, replay, registration, fan-out, visibility | `MCJournalSync`; proofs in `JournalSyncProofs` |
| `Spawns` | spawn requests from the ask to the told outcome | `MCSpawns`; `SpawnsProofs` |
| `Routines` | schedules, triggers, deliveries, retries | `MCSpawns`; `SpawnsProofs` |
| `Rooms` | one agent chat room: asks, consent, delivery, membership | `MCRooms`; `RoomsProofs` |
| `BoxWake` | wake commands and the sweep for stalled sessions | `MCRooms`; `RoomsProofs` |
| `ItemThread`, `ItemHandover` | an item's thread; its handovers | `MCTracker`; `TrackerProofs` |
| `VectorIndex` | documents, vectors, matrices | `MCTracker`; `TrackerProofs` |
| `ToolStream` | tool output, its buffers, frames and watchers | `MCChats`; `ChatsProofs` |
| `People` | contact, shared session, rooms and talks of two people | `MCChats`; `ChatsProofs` |
| `Transfers` | a file sent from box to box | `MCChats`; `ChatsProofs` |
| `Pushes` | held cards and coalesced pushes | `MCChats`; `ChatsProofs` |
| `ReadState`, `Unseen` | badge, marker, ranges; the unseen list and its nudge | `MCConvos`; `ConvosProofs` |
| `Archive` | archive, sweep, what apps know, keys of peer messages | `MCConvos`; `ConvosProofs` |
| `Missions` | links, the current mission, titles, milestones | `MCConvos`; `ConvosProofs` |
| `Causes` | where an ask comes from | `MCConvos`; `ConvosProofs` |
| `BoxRequests` | orders and calls to a box | `MCConvos`; `ConvosProofs` |
| `FileRetry`, `FileWrites` | idempotency keys; the system calls of a write, move, delete | `MCKeeping`; `KeepingProofs`, `FilesProofs` |
| `Blobs` | blobs, references, retention passes | `MCKeeping`; `KeepingProofs` |
| `Ownership` | grants and handovers of missions and projects | `MCKeeping`; `KeepingProofs` |
| `Linking`, `SignIn` | adding a device; passwords and the second factor | `MCKeeping`; `KeepingProofs` |
| `MessageIndex` | the word index and its two walks | `MCKeeping`; `FilesProofs` |
| `BlobTranscripts` | transcripts of stored audio | `MCKeeping`; `FilesProofs` |

The `map` of `PROJECT.json` gives the lines each definition stands for; the
notes below say how state and actions correspond.

### JournalSync

State: `log` (table `events`; a seq is an index), `owner`
(`conversations.agent_device_id`), `row` (`convo_agents.state`); per socket
`sock`, `dev`, `hub` (registered), `replay` (suspended at the loop's await),
`cursor`, `known` (`decisionCache`); per device the socket it reads (`cur`),
its own cursor (`pos`), whether it was told `snapshot_required` (`stale`);
`wire`, what was written to a socket and not yet read.

| Action | Code |
| --- | --- |
| `Hello`, `HelloRefused`, `HelloFresh` | `hello` before the replay: the device's previous cursor, the gap too long to replay, a device without cursor |
| `ReplayStep` | one turn of the replay loop: socket still open?, drained?, a batch, else registration |
| `Send`, `Publish`, `Announce`, `ConvoUpsert` | the appending ops, with idempotency by device and local id |
| `Ask`, `AnswerAsk`, `AnswerInvite`, `Expire`, `Leave` | the rows of `convo_agents` as far as they decide who sees what, with the events each appends |
| `Terminate`, `Closed`, `Restart` | the server drops a socket, its `close` event, the process starts again |
| `Receive`, `Drop`, `Snapshot` | the device reads a write, loses its socket, fetches a snapshot |

A socket has the states open, closing and closed because `terminate()` takes
effect before the `close` event removes the connection from the hub; the hub
may hold a socket that is closing, never one that is closed.  A write is a set
of seqs: the frames of one handler are written together.

`CursorFeed` is what a client should see of this: a log that grows at its end
and a cursor that moves forward over it, one stretch at a time, or is replaced
by a snapshot.  `FeedRefined` says that `JournalSync`, seen from any one
device that sees everything, is that.

### ReadState and Unseen

`ReadState`: the `log`; per conversation `last_seq`, `unread` and the `ranges` of
`seen_ranges`; the apps that report ranges (`reporter`: `seen_devices`).
`Send` and `Publish` append with what they count, `ReadMarker` is `markRead`
(marker, recount, and for an app that never reported ranges the whole prefix
as seen), `Seen` a report of ranges.  `Clipped`, `Coalesced` and `GapIsEmpty` merge
a report with what is stored: two ranges become one when nothing of the
conversation lies between.

`Unseen`: one conversation's messages (`said`, `shown`, `idle`) or the thread of one
item, and what the Coordinator was told (`flagged`, `nudged`, `lastAt`).  `Nudge` is
`runUnseenNudge` in its hours with the Coordinator's bridge there, `Prune` the
part of it that runs at any hour; `Listed` is `listUnseen`.  A behavior has messages
or an item, not both; the list is their concatenation.

### Archive

A clock; `convo_archive` (`archived`, `unarchived`, `updated`), the time of
each conversation's newest message, the keys of peer messages; one app's
connection, what it shows as archived and the time it will ask from.
`ArchiveByHand`, `UnarchiveByHand`, `Sweep` (hourly, by age), `Message` and
`PeerMessage` (which bring a conversation back), `Hello` (registered now or
after a wait), `Register`, `Disconnect`, `Tick`.  Several actions may share a tick,
as changes share a millisecond.

### ToolStream

The store (`buf`, in the `order` of use), the bridges' sockets, the apps that
have the conversation on screen, each app's pending `slot` per command and
whether its flush is scheduled, and what the app shows (`over`).  What a command
prints does not change, so output is the interval of positions it covers.
`StreamAppend` (with trimming and eviction), `Finalize`, `Close` of a bridge's socket
(late, if it has another), `SweepIdle`, `View`, `Resync`, `Leave`, `Reconnect` of an app,
`Flush`.  An app that leaves and comes back before a slot of the last visit was
flushed may see a piece twice, never a hole.

### Spawns

The row of `agent_spawn_requests` (`row`, `age`, `rooms`), the consent item, what the
asking session was told, the text in a failed room, the decisions of the last
day; in memory the orchestration with what its timer has left (`task`), asks the
verifier looks at, whether the box has a socket; and `asked`, the requests whose
`start` the box has.

| Action | Code |
| --- | --- |
| `Ask`, `AutoAsk` | `spawn_request`, without and with the setting that approves the Coordinator's own asks |
| `Approve`, `Deny` | `answerSpawnAsk` |
| `CoordinatorApproves`, `AskVerifier`, `Verified`, `Unverified` | `POST /consent/answer`, at once or after the verifier |
| `Attach`, `Detach` | a box registers (which releases who waits for it), or loses its socket |
| `Answers`, `Unheard`, `TimesOut` | the reply to `start`; the reply or the request is lost; the broker's timer |
| `SweepWhole`, `SweepDies` | one tick of the sweep; the process dies in it |
| `Killed`, `Shutdown` | death between handlers; an orderly close |
| `Switch`, `CloseByHand`, `DayPasses`, `Tick` | the user's switch, the item closed by hand, time |

`OrphanTTL` is `2 * (StartTimeout + WakeWait)` as in `ws.js:363-373`, without its
floor of five minutes.

### Rooms

For each agent the row of `convo_agents` (`state`, `asker`, `source`, `age`, `delivered`,
`itemOf`, `bySpawn`), the `open` items of its asks, `room_owner_convos` (`convos`), the
spawn the room was made for, revoked devices; the sockets, an answer between
its read and its write (`answering`); and what devices were told on their present
socket: how the asker's ask stands (`hope`), who was told it is in the room
(`inRoom`), whether the owner was told the room has ended (`over`).

| Action | Code |
| --- | --- |
| `Invite`, `Join` | `agent_invite`, `agent_join`: the cap, `upsertRow`, the item, which may fail to be filed |
| `ReadAsk`, `WriteAnswer` (`Decline`, `Approve`), `AnswerDies` | `answerChatAsk` from the card or from the item: its read, the rest, death after the row is written |
| `Admin` | `matron-admin agent-chat approve` and `deny`, at any moment |
| `CloseByHand` | the user closes the item |
| `AnswerInvite` (`Accept`, `Refuse`) | `agent_invite_answer` |
| `Leave`, `Dissolve` | `agent_leave` of a member, of the owner |
| `SpawnOpens`, `SpawnStarts` | `approveSpawn` makes the room, `markStarted` adds the session that asked |
| `Connect`, `Disconnect`, `Revoke` | `hello` with its pump, a lost socket, a deleted device |
| `Sweep`, `SweepDies` | invitations and asks that lapse, the pump, the reconciliation of items, sockets of revoked devices; the process dies in it |
| `Killed`, `Tick` | death between handlers or between a send and its stamp; time |

Why `answering`: handlers do not interleave with one another, but the admin tool
writes to the same file from its own process, so between the read of a row and
the conditional update the row may have been answered.

### Causes

`sent` is what the journal has of carry-ons, room posts and spawns, in order, with
the causes the bridge named for the turn behind each.  A turn's inputs are known
to the model and told to the journal whole, cut short or not at all (`AsNamed`).
A carry-on is recorded before it is relayed.  A post or a spawn is `kept` or not, as the
model pleases: `recordRoomPublish` takes only a frame whose `from_convo_id` names
a conversation of the publishing device (`ws.js:2431`, `cause-hops.js:117-122`, and the test at
`cause-hops.test.js:193-202`), a finalized message is never recorded (`ws.js:2659-2687`), and a record that
fails stops nothing (`ws.js:2434`).  What was not kept leaves no hop: an ask that rests on it is
answered as one of another agent, by design (`docs/protocol.md:1319-1325`).  `NoLaundering`
is therefore about what descends from the Coordinator through hops the journal could record (`Traced`),
whether or not the turn that asks names them.
`Touched`, `OriginsOfCause`, `HopOf` and `LetsThrough` are `touchedByCoordinator`, `originsOf`,
`hopOf` and the decision of `resolveRelayedAsk` and `verifyOwnAsk`.

A behavior has no clock: the windows of 48 hours (what the Coordinator touched) and
14 days (how long hops are kept) are taken not to end.

### Routines

A tick is a quarter of an hour, the journal's unit for retries, gaps and the
interval of triggers; times in a row count the ticks left.  `stored` is the table
(state, `next_at`, `retry_at`), `known` the subjects a trigger has recorded, `slots` the
bounded deliveries under way.  `ScheduleSweep` and `TriggerSweep` start deliveries
(`Missed` advances a time that passed too long ago without firing, `Recorded` keeps the
subjects), `Answer` is the end of one, `RunNow` the run by hand; `Pause`, `Resume`, `Edit`,
`Delete`, `CreateRoutines`, `SeedRoutines` are the user's.  What trips a trigger
changes with `Match`, `Clear`, `WindowEnds`, `Backlog`, `Assign`.  A delivery ends
(a wake and a timeout, 270 s at most) before the next trigger sweep, so a tick does not pass over a
trigger's.  A sweep goes through the routines one after another, in any order (`InTurn`), since each may take
the last slot from the next.

### BoxWake and BoxRequests

`BoxWake`: the wake commands that run (`running`), the window between two (`since`), what
the box refused, the stall of a session in `conversation_status`.  `TrafficComes` is
any call of the waker, `CommandEnds` its exit code (of the last command or an
older one), `StallSweep` the sweep that wakes boxes whose sessions wait for a limit
that was reset.

`BoxRequests`: an order of the Coordinator (`Order`, `OrderRefused`) waits for the box or is sent;
an app's call (`Call`) is sent or fails.  `Attach`, `Detach`, `BoxStops` are the box and its
two sockets, `SockOpens`, `SockReady`, `SockCloses` the sockets that ask, `Reply`,
`ReplyToNobody`, `ReplyLate`, `WaitEnds` the ends.  `inFlight` is the count of a connection.

### ItemThread and ItemHandover

`ItemThread`: `item` and `thread` are rows, `queue` and `asking` the worker's memory.  A
handler commits and then appends the marker for the session; its flag `told` says
whether the process lived to append it.  `Reply` is a reply of the user with its tap
and its voice note, `Say` an agent's, `Repeat` a retry by key, `Hold`, `Release`, `Cancel` the
bridge's and the user's dealings with a reply not yet read, `Transcribe` an agent's own words for a
note, `Worker`, `WriteFails`, `Boot` the queue.

`ItemHandover`: the row of the item (`owner`, `open`, `awaiting`), the `offers`, and what each
session was `told` of them.  `Offer`, `Withdraw`, `Approve` and `Keep` (the user's answer to
a parked offer), `Accept`, `Decline`, `RunOut` and `Sweep` (24 hours).  `wanted` is whom the
item would wait for had nobody offered it.

### Missions and Ownership

`Missions`: `linked` and `current` of each conversation, the stored `title`, the item
that is `filed`, milestones and their events (`stones`, `marks`).  Each operation is one
transaction.

`Ownership`: grants on missions and projects, in two stages of consent (`AskGrant`,
`OwnerAgrees`, `GranteeAccepts` and their refusals), and handovers as grants of level
`owner`, which copy (`gave`) what was approved when both have said yes.  Missions are filed, refiled,
closed, projects merged and closed in between; `Refile` compares with a project read
before the body of the request.

### People

Each side's `contact` row, the guest's shared session, and per room its link in
`person_rooms`, the guest device's `seat`, its twin in the guest's log and what
`crossed`.  `ParkRoom`, `ParkTalk`, `OwnerApproves`, `OwnerSends`, `GuestAccepts`, `GuestChooses`,
`GuestStartsNew`, `AgentAnswers`, `Relay`, `EndRoom` go through a room's life; `ContactEnds` ends
or blocks with all that hangs on it.  A handler that commits twice may die in
between (`cut`).  `RoomsEndWithContact` and the liveness `TalksEnd` except what such a
cut leaves.

### Transfers

The three state columns (`consent`, `upload`, `phase`), rows and files of the
chunks, uploads in flight step by step (`PutStart` to `PutRecord`), the hash of the
whole chunk by chunk.  The card decides nothing (`transfer-consent.js:113-116` asks the consent column) and is left out.
`Approve` and `CompleteOk` each release when
the other has happened; a death between commit and release leaves the transfer
approved and uploaded (`halted`) until it expires.

### FileRetry and FileWrites

`FileRetry`: the rows of `file_idem` with the boot that reserved them, and the
promises of this process.  `Claim`, `Join` (the same request while it runs), `Replay`, `ReRun`
(a mkdir after a restart), `Indeterminate` (anything else after a restart), `Attempt`
(the audit line, written before the work), `Work`, `Settle`.

`FileWrites`: inodes with their data, and the names: two paths, a temporary name and
a name in the trash per job.  Each system call that matters is an action; between
its last check and its commit a job has the event loop to itself (`cpu`), so requests of the
server interleave only while a body is streamed, and the other process (`Store`,
`Remove`, `Edit`) between any two calls.  `NothingLost` excepts what was stored between a
job's last look and its commit (`window`, which no user-space code can close) in a file the job does not keep, and what a
replacing write found where it had seen nothing (`blind`, a finding).  An edit in place, in that window, of a
file that backup or move hold as a link stays (`KeptInode`); where links failed and the file was copied it
is lost.  When the
last unlink fails a copy is taken back, a link only while the name still has the file (`UnlinkFails`).

### Blobs and BlobTranscripts

`Blobs`: row and file of each blob, uploads `landing` between file and row, what
references hold.  Every pass of `retention.js` that takes bytes is an action
(`ReapGarbage`, `ReapMedia`, `ReapOrphan`, `ExpireContent`, `Offload`, `ExpireLogs`,
`ExpireVoiceNotes`, `ExpireChatVoiceNotes`, `RecoverStaged`); a crash leaves a file staged or an upload without row.
The blob of a live log goes with it and nobody asks who else names it (`retention.js:143`); bridges upload a
blob for each log, but nothing holds them to it.  References to that very blob are no longer `sound`
then, and `RefsResolve` is about those that are.

`BlobTranscripts`: the status in the row; in memory the queue (`line`), what the
transcriber has (`busy`), the promises (`job`) and the count per user.  `AskAtUpload`,
`AskAgain`, `WaitForNote`, `JobEnds`, `ReapNote`, `CloseTranscripts`, `Exit`,
`BootTranscripts` (which takes over what is pending and recent).

### Linking and SignIn

`Linking`: offers, claimed codes and pairs in memory, `link_preapprovals` on disk.  `meant`
records the claim a starter's app was showing when its approval was tapped; an offer may be
denied before it was claimed as well as after.

`SignIn`: requests over their awaits (`awaits`), each with what it read before.
Changes of password and mail wait for each other, resets and sign-ins do not.  `basis` records
which password whoever chose the present one knew; `CodesOnce` counts accepted codes.

### VectorIndex and MessageIndex

`VectorIndex`: `docs` and `vectors` are tables, `matrix` and `page` memory.  `StartPass`,
`ReadPage`, `StoreBatch`, `EmbedderFails`, `EndPass` are a pass of the indexer with the embedder
awaited between `ReadPage` and `StoreBatch`; documents are written meanwhile and an id is
given again when the last document goes.  `NewProcess` may bring another embedder.

`MessageIndex`: `AppendMessage` indexes live; `FillBatch` and `MendBatch` are the walks with
their cursors, `StopWalks` and `StartWalks` a restart in their middle.

### Pushes

A card is pushed at once or held; `PushBoots` takes holds up again, and only for cards
that are not too old.  `NewsComes` and `WindowEnds` are the coalescing window.  `rung`
records each push with the card's age and how its ask stood.

## Runs

Eight runs pass and four find the violation of *Findings*.  Every run finishes.

| Run | Part: instance | Properties |
| --- | --- | --- |
| `sync_clients` | one client, three sockets, one conversation, one key; batches of 2, replay limit 2, own limit 1 or 9, one undrained frame, four events | `ClientFeed`: what was applied and is in flight is a gapless run; `NoDeadRegistration`; `UniqueKeys`; `FeedRefined`; `CaughtUp` (liveness) |
| `sync_agents` | two agents, two symmetric sockets, a room and a conversation of the journal's own, batches of 1, three events | `AgentsSeeTheirOwn`: no card of the user, nothing to an outsider; `AgentsServed`: an agent entitled throughout misses nothing, in bounded batches |
| `spawns` | *spawns*: two asks, one with a room; each limit one tick, a cap of one | `OneSessionPerApproval`, `CapKept`, `OutcomesTold`; `AsksEnd` (liveness) |
| | *routines*: one schedule (period 2), one trigger on a box and an allowance, one delivery at a time | `NothingSwallowed`; `RoutinesFire`: no fire without cause or twice for one, and what is due fires (liveness) |
| `rooms` | *room*: an owner with one session, an agent asked about twice, one put in by a spawn; times to live of one tick, one revocation | `ConsentFirst`, `RelayedOnce`, `BeliefsAreTrue`, `SessionsInTheRoom`; in `WaitsEnd`, asks end (liveness) |
| | *wake*: one box, window 3, backoff 1 | `WakesSpaced`; in `WaitsEnd`, a stalled session's box is woken (liveness) |
| `tracker` | *thread*: two comments, queue of one, one death; *handover*: three sessions, one of them the Coordinator and one guarded, two offers; *vectors*: two users, two ids, two bodies, two embedders, batches of 2 | `ThreadHolds` and `NotesSettle`; `OffersSettled` and `HandoversEnd`; `SimilarFound` |
| `chats` | *stream*: two streams, one buffer of two bytes, two sockets, one app; *push*: one card, three messages, two restarts; *people*: one talk, one session room, one new session, one death; *transfer*: two chunks, two uploads in flight, one death | `AppsToldTruth` (stream, push), `ContactRules` (people), `FileReleased` (transfer); `WatcherServed` (stream), `ChatsEnd` (talks end, bytes go) |
| `convos` | *read*: a conversation and its child, an app and an agent, three events; *unseen*: two messages or an item, six ticks; *archive*: three ticks, one key; *missions*: two missions, three conversations; *causes*: four sessions, a room with two names, two hops, chains of one; *requests*: two orders, a call, two sockets of the box | `ReadAsTold` (read, unseen), `ArchiveTrue`, `MissionsAgree`, `AsksServed` (causes, requests) |
| `keeping` | *retry*: two keys, one a mkdir, three tries, a restart; *files*: two jobs, two changes from outside; *blobs*: two uploads, which a live log may share, an offloaded log, one death; *ownership*: two missions, two projects, two contacts; *linking*: one app, two claimers, three codes, a restart; *sign-in*: two requests in flight, three passwords; *messages*: four events, batches of 2; *transcripts*: four notes of three users, one slot, a queue of two, one place per user, two starts | `RetriesAreOne`, `WritesAreSafe`, `BlobsKept`, `SharesHold`, `LinkedAsShown`, `SignInHolds`, `DerivedHolds` (messages, transcripts) |

**Why the bounds are enough to be interesting.**

- *sync_clients*: a third socket lets one be abandoned, one be in replay and one
  live at once.  Four events with batches of two make a replay that is overtaken while
  suspended; a limit of two makes both sides of the snapshot valve reachable.
- *sync_agents*: two agents are an owner and a guest, or a guest and an outsider; batches of one
  suspend the loop between any two events.  `DeskFirst` keeps events of the
  journal's own conversation at the start of the log: wherever one stands it is
  invisible to agents, and one before the others shows it.
- *spawns*: with a cap of one the verifier may answer both asks together.  A timeout of one
  tick is met before, at and after its end.  A schedule with a period of two and misses after one has
  times that are early, due, late and missed; one slot makes deliveries compete.
- *rooms*: two asks about one agent are what renewal needs; the second agent enters by the spawn, so
  that one may leave without ending the room.  A window of 3 over a backoff of 1
  keeps a failure and a refusal apart.
- *tracker*: a queue of one over two notes overflows; two offers are one and its replacement.  Two
  ids are enough for one to be given again under a batch that holds both.
- *chats*: with one buffer every change of stream evicts, and three units overflow it.
  Two chunks let a transfer be complete by count and wrong by content, two uploads meet on one chunk.
- *convos*: three events give a range with a hole and one to merge with.  Three ticks exceed the age
  of the archive sweep (1) and the life of a key (2).  Two missions and one item make moves
  between missions.  Two hops in a chain of one reach the limit.  Six ticks are a message, its flag, its nudge and the
  end of the flag's life.
- *keeping*: each limit is met and one request more is made, and of the limits on transcripts either binds
  alone; one restart or death is between
  any two steps.  One project and mission more than a handover needs is what a merge or a refile moves it to.

Deadlock is checked in `sync_clients`, `sync_agents`, `spawns` and `rooms`.  In `tracker`, `chats`,
`convos`, `keeping`, `people_request` and `files_overwrite` it is not: their scenarios are
bounded (a thread is full, every transfer is over, every code handed out) and so come to a stop.
Waiting for each other is caught by the liveness properties instead.

Symmetry is declared over sockets (`sync_agents`, `sync_midreplay`) and missions (`convos`), which nothing
distinguishes; these runs check safety only.

Three runs leave out states by a constraint, each a combination that adds size and no new case:
`DeskFirst` (`sync_agents`, above); `OneReported` (`convos`: an app reports ranges of one
conversation); `Together` (`keeping`: two requests in flight are both about the account or both about the
second factor, and nothing goes on after a death that left cards behind, which decide nothing).  The theorems below are about the specifications without any constraint, so what these
leave out is covered there.

**Fairness** is assumed only where the code schedules the step itself.

| Module | Assumed | Why |
| --- | --- | --- |
| `JournalSync` | weak: `ReplayStep`, `Receive` | the loop is resumed by `setImmediate` or a 20 ms poll; a device reads its socket |
| `ToolStream` | weak: `Flush`, `Resync` | the flush timer; the app sends `viewing` again when it finds a hole |
| `Spawns` | weak: `Tick`, `SweepWhole`, `TimesOut` | time, a sweep every minute, a timer |
| `Routines` | strong: `ScheduleSweep`, `QuarterHour`; weak: `Answer` of each slot | timers, which a crash may put off but not always; a delivery is capped in time |
| `Rooms` | weak: `WriteAnswer`, `Tick`; strong: `Sweep` | an answer under way is finished; deaths put the sweep off, but not always |
| `BoxWake` | weak: `WakeTick`, `StallSweep` | time, a timer |
| `ItemThread` | weak: `Worker`, `Boot` | the queue is driven on; the service is restarted |
| `ItemHandover` | weak: `RunOut`, `Sweep` | time, a sweep |
| `People` | weak: `ExpireAsk`, `StuckStart`, `ExpireInvite` | the sweep of lapsed asks |
| `Transfers` | weak: `SweepDirectory` | the retention pass |

Nothing is assumed of users, boxes, the verifier, services or restarts.
Properties of the form "again and again all is settled" are about asks that are made once, so
they say that each ends.

## Findings

1. `sync_midreplay`, `JoinedHearsEverything` (`ws.js:668`).  A replay decides once per
   conversation whether its agent may see it (`decisionCache`).  An agent that becomes entitled between two
   batches, when the loop has already said no, is registered without the events appended in
   between.  The comment at `ws.js:607-609` says that such events are picked up by a later
   batch, and `ws.js:665-667` that a change in mid-replay is like one right after.  `AgentFeed` is
   the weaker statement that holds: an agent entitled all along misses nothing.
2. `rooms_stale_tap`, `TapAnswersItsAsk` (`consent-answer.js:149`).  A renewed row keeps the
   `item_id` of the ask before until the new item is filed, which is best-effort.  When that fails, a
   tap on the old, closed item answers the new ask, where the comment at
   `consent-answer.js:135-137` says that a tap answers exactly the ask the item was filed for.
3. `people_request`, `RequestsLeftAlone` (`person-rooms.js:461`).  When a talk ends, the contact
   request its Send made ends with it; the comment at `person-rooms.js:455-458` says that
   anything else is left alone.  The code does not ask which request it ends, so a request the user
   made by hand after the talk's was over goes with it.
4. `files_overwrite`, `OverwriteRecoverable` (`file-guard.js:750`).  With `overwrite` and no file there when the
   write is prepared, no backup is made and a file that is stored while the body is streamed is replaced for
   good, where the comment at `file-guard.js:655-660` says that an overwrite is always recoverable.

## Seen while modelling

Weak spots met on the way.  Where a property would run into one it excepts it by
name, through a history variable (`cut`, `halted`, `unwritten`, `blind`, `skipped`, ...);
the others lie outside the models.

*Spawns, rooms, causes*

- `spawns.js:153` ends the row and tells the outcome in two transactions; a process that
  dies between them leaves the asking session without one, where `docs/protocol.md:2096` promises exactly one
  (`OutcomesTold` says one, or none if cut short, never two).
- "This room's child session never started." (`spawns.js:402`, `ws.js:509`) is also written when the box
  started the session and its reply was late or lost.
- A denial by the admin tool and a revocation leave the asker without an answer frame (`hope` is
  `untold`).  An approval by the admin tool between read and write of a decline leaves the row invited and tells
  the asker "refused".  An approved join to the room of a revoked owner is never relayed and never expires.
- `RelayedOnce` is about one life of the process: death between the send and the stamp sends again.
- A post that names no session of its device, and a finalized one, leaves no hop, so a relayed ask that cites it
  as `room:<room>@<seq>` is let through (`cause-hops.js:260`).  The protocol says so of a publish without
  `from_convo_id`; a bridge that posts in the Coordinator's name has to send it.
- An ask made after the outcome of a spawn, itself asked for in a turn with hidden causes, is not
  held (`cause-hops.js:177-194`, `291-297`).  Death between the append of a post and `recordRoomPublish`, and a
  start that is late or timed out, lose the hop.

*Feed, archive, unseen, pushes*

- A `peer_message` that brings an archived conversation back sends no `archive` frame (`ws.js:2369-2389`), where
  `docs/protocol.md:2767` says every change is sent.  The app follows its rule for messages, so
  `ViewIsCurrent` holds.
- The bridge's own `prompt_reply` counts as the last word (`seen.js:219-229`), so a final message before it is
  not raised; a text the user answered but never reported as seen is.
- A restart within 90 s of a card that was pushed at the end of its hold pushes it again; one pushed at once rings
  again if settings changed (`push.js:14-18`, `310-314`).  The check that a chat card still waits is keyed by room and
  device (`notify.js:163-164`).  A late 410 for an old token prunes a new one (`push.js:123-126`).
- At shutdown the waiters for a box are released while the sockets they would answer on are closing
  (`server.js:1129-1140`).

*Routines, missions, people, transfers*

- A run by hand without a Coordinator clears `retry_at` (`routines-http.js:101-104`, `routines.js:379-380`).
  The outcome of a trigger's delivery sets `retry_at` without looking whether the routine is
  enabled (`routines-triggers.js:338`).
- PATCH of a mission compares with the project it read before the body came (`missions-http.js:215-230`), so it may
  undo a merge (`projects.js:152-153`) that its comment takes for settled.
- Death between the end of a contact and the end of its rooms leaves a joined room relaying
  (`person-rooms-events.js:314`, `sharing-http.js:50-60`); between the answer to an invitation and what follows from
  it, a link stays `invited` (`ws.js:1878-1888`).  Texts said between accept and join do not cross.  A talk
  with an expired ask of the same contact is sent without a contact request (`talk-requests.js:174-176`).
- Death between the approval's commit and `releaseIfReady` leaves an approved, uploaded transfer until it expires
  (`transfer-consent.js:258-262`).

*Search, transcripts, blobs*

- A document that takes over a freed id with the same words for another user is not folded into that
  user's matrix (`vector-index.js:118`); one of the same user is served with the row of the old until it is embedded
  (`205-207`).
- A transcript whose result cannot be written back (`blob-transcripts.js:182-184`) leaves a pending row without a
  job, though the comment at `223-227` says otherwise; the user can ask again.
- The end of a live log deletes its blob though a message may name the same one (`retention.js:143`); the passes for
  other media ask first.

## Proofs

Eight modules, checked to the last leaf. The theorems hold for every value of the constants that satisfies the
named ASSUMEs of the component modules: kinds of ids are disjoint, words such as "none" or "gone" are no ids,
the rooms of two people and the jobs, notes, routines and uploads of a run are finite sets, batches and
windows are not empty, a wake's backoff is not longer than its window, orders are not calls. TLC evaluates
each in the runs. The theorems are about the specifications without any of TLC's state constraints or
symmetry.

**Every safety property of a passing run is stated by a theorem**, alone or as the conjunct that is a safety
property of a definition that has more.

| Module | Theorems |
| --- | --- |
| `JournalSyncProofs` | `TypeCorrect`, `SocketsAgree`, `HubIsAlive`, `KeysUnique`, `FlightSafe`, `CardsStayWithTheUser`, `OutsidersAreBlind`, `AgentsReadTheirOwn`, `FeedsHold`, `NoGapOnAnySocket` (`ClientFeed`), `AgentsAreServed`, `ImplementsFeed` (`FeedRefined`) |
| `SpawnsProofs` | `TypeCorrect`, `LiveStaysApproved`, `OneOutcome`, `OneSession`, `RoomsAreMarked`, `OutcomesAreTold`, `CapHolds`; `RoutinesSwallowNothing`, `RoutinesFireOnce`; `StartsAreTrue` |
| `RoomsProofs` | `TypeCorrect`, `NothingBeforeConsent`, `OneRelay`, `NobodyIsMisled`, `PresentRound`, `WindowKept`; `WakesAreSpaced` |
| `TrackerProofs` | `ThreadIsKept`, `ThreadsHold`, `AgentsWordsStay`; `HandoverIsKept`, `OffersAreSettled`, `OwnersConsent`; `SimilarStaysTrue`; `TrackerIsTrue` |
| `ChatsProofs` | `TransfersArriveWhole`; `PeopleAgree`; `PhonesAreTold`; `WatchersMissNothing`, `WatchersSeeTruth`, `ClosingTakesItsOwn`; `ChatsAreTrue` |
| `ConvosProofs` | `ReadStateIsTrue`; `NudgesTellNews`; `ArchiveIsTrue`; `MissionsStayAgreed`; `AsksAreTraced`; `EveryRequestAnswered`; `EachPartOnItsOwn`, `ConversationsAreTrue`, `AsksAreServed` |
| `KeepingProofs` | `WritesHappenOnce`; `BlobsStay`; `GivenAsAgreed`; `LinkedOnce`; `NothingCountsTwice` |
| `FilesProofs` | `NothingStoredIsLost`; `MessagesAreFound`; `NotesAreSettledOnce`; `KeptTogether` |

A composite's specification leaves the parts a behavior does not explore in peace, so a step of one part is a
stutter of the others and a component's theorem holds of what the run checks. `StartsAreTrue`,
`TrackerIsTrue`, `ChatsAreTrue`, `EachPartOnItsOwn` with the two after it, and `KeptTogether` say so; the
component theorems they rest on are about the component's own specification.

### The invariants

Few properties are inductive as they stand. What each proof adds, by component:

- `JournalSync`. `Sockets` relates the server's view of a socket to the reader's (a device reads only a socket
  it authenticated on, a socket in replay is not registered, ...); `Inside` says that an agent that is
  entitled was recorded as an insider; `Flight` bounds what is on a wire by the cursor of its socket; `Feeds`
  says, for each socket a client reads, that the device's cursor, the writes in flight and the next event the
  server will give that socket continue one another without a gap: up to the loop's cursor during a replay, up
  to the end of the log once registered. Writing preserves it because fan-out reaches registered sockets only
  and a replay in progress reads the log again. `Served` is the same for an agent, with what it may see in
  place of everything. The simulation of `ImplementsFeed` uses `Feeds` for `Receive` (the batch read starts
  where the cursor ends) and maps every other action to growth of the log or to a stutter.
- `Spawns`. `Clock`: an orchestration has an approved row, and the age of the row plus what its timer has left
  is at most `WakeWait`, or `WakeWait + StartTimeout` once the call is made; so a live row is younger than
  `OrphanTTL` and the sweep never takes one, for all waits. `Story`: a row that has not ended was told nothing
  and its room holds no text; one that ended was told its end. `Sessions`: a box that still has a request has
  not started its session. All writes that end a row go through `Settle`, so the lemmas are about `Settle` and
  each action shows that it ends only rows that wait or are approved. The cap is proved apart, from the
  cardinality of finite sets.
- `Routines`. `TimesKept`: the next time of a schedule is ahead, or has come and is owed, and a timed fire on
  its way is the only one of its routine and was advanced past; `SubjectsKept`: what a trigger recorded was
  answered or is on its way, and what is on its way was not answered yet. Several routines may trip in one
  sweep, one after another; what such a sequence leaves is shown from the function it is defined by.
- `Rooms`. An invited row was sent exactly as often as it is stamped and one that waits was not sent
  (`Relays`), otherwise a second pump or a renewed row could send again; the owner was told of an end only on
  its present socket and only after there was somebody (`Beliefs`); an ask of the owner names a session of the
  owner (`Stored`); and `spawn_id` stands on the first membership of the spawn's target and no other
  (`Rounds`).
- `BoxWake`. `WindowTells`: no more of the window has passed than time since the refusal, or since the command
  began; after another failure, no more than time and what the backoff leaves of the window.
- `ItemThread`. `SoundRow`: a comment answers an earlier one, is told once, and once withdrawn its turn is
  dropped; beside it, what is shown as chosen is a tap that stands. `AgentSettled`: an agent's note waits for
  no transcript. `ItemHandover`: `OneOut` (only the newest offer is open), `PriorKept` (an offer the user was
  asked about keeps what the item would wait for), `Consented`.
- `VectorIndex`. `VectorsTrue` (a stored vector is of the words its document has now), `MatrixFollows` (a
  loaded matrix has what is stored) and `PassGoesOn` (a document that was there throughout is embedded,
  skipped, in the page, or still ahead of the cursor).
- `Transfers`. `NobodyWrites` (nothing is written while the whole is hashed, nor after), `HashIsTrue` (the
  hash read so far is of the chunks that lie there), `WholeIsKept`, `ReleasedRightly`.
- `People`. `Tapped` (a row that asks or accepts rests on a tap of its side), `Told` (no twin and nothing
  crossed before both said yes), `Matches` (link, seat and twin agree unless a death came between),
  `OpenAmongContacts`.
- `Pushes`. `CardHolds` (a hold is for a card that is not too old, and one more push at most), `NewsHolds`
  (what waits in the window is the newest that is owed).
- `ToolStream`. `BuffersOK`, `Unwatched` (nothing waits for an app that does not watch), `InStep` (what an app
  shows and what its slot will bring meet without a hole); for the order of eviction, `OrderInv`: the buffered
  commands are those in the order, no more than the store may hold.
- `Archive`. `ViewCatchesUp` (what an app does not show yet changed no earlier than the time it will ask
  from), `KeyRemembered`. `Missions`: `LinksAreReal`.
- `BoxRequests`. `AskersWait`, `GivenWhenSent`, `CountsAgree` (the counter is the cardinality of the open
  orders).
- `Unseen`. `PastOnly`, `KnownIs` (what the tables say of what the user knows), `NamedIs` (what a nudge was
  about is remembered until it is too old to be listed). `ReadState`: `HeadsInLog`, `BadgeOf` (the badge is
  the cardinality a recount gives), `SeenOf` (the ranges are apart, in order and cover what was reported).
- `Causes`. `RestsOn` (what was sent rests on what its turn took in, and names no more), `HopIsTrue` (a
  recorded hop has all the Coordinator's hops behind it, or the one that stands for what cannot be checked;
  one without a record has none), `PassedOn` (who sent on something of the Coordinator's counts as touched by
  it). Of the walk through spawns, depth by depth, the proof shows that one that is not cut has found all.
- `FileRetry`. `KeyOnce` (one run at most; no row and no answer contradicts what it did). `FileWrites`:
  `OneRuns` (between look and commit a job has the event loop), `Fits` (what lies at its names at each point
  of a job, as far as nobody outside changed it), `StaysStored` (what is owed lies at a name no failing job
  will take away).
- `Blobs`. `FilesLand` (what a reference names has landed, and a file that lands has no row yet). `Ownership`:
  `GivenStays` (as approved, its missions closed), `GivenApart` (no mission is given twice). `Linking`:
  `CodeHeld` (a code is in one place, and in none once it has its device), `ClaimShown`, `NoteRead`. `SignIn`:
  `CodesGood` (a code not used yet was never accepted), `PasswordsGood`.
- `MessageIndex`. `OfTheLog` and `PassedBy` (what lies behind a cursor is filled and mended).
  `BlobTranscripts`: `JobsHold` (a job is in the line or with the transcriber, once, within the limits),
  `RowsHold` (a pending row has its job), `AtRest`.

### How recursion is dealt with

Folds over finite sets and sequences are recursive functions here. That a function satisfies its recursive
equation is itself a fact to prove: the function that takes each number to what the definition gives up to
there exists, by the least counterexample (`LeastNatural`, `FoldExists`, `WalkHasDepths`, `RootHasDepths`).
Induction over such a function goes the same way, since the library's rules of induction cannot be applied
here. What a recursive definition computes for *every* input is shown only where a property rests on it.

### Only model-checked

Liveness, which needs rules for fairness the prover does not have: `CaughtUp`, `AsksEnd`, `WaitsEnd`,
`ChatsEnd`; and the eventual part of `RoutinesFire` (its safety part is `RoutinesFireOnce`), `NotesSettle`
(`AgentsWordsStay`), `HandoversEnd` (`OwnersConsent`) and `WatcherServed` (`ClosingTakesItsOwn`). And the four
violations of *Findings*, which are behaviors.


## Assumptions

- Events are never deleted, seqs are dense per user; retention replaces
  payloads and keeps rows.
- SQLite keeps what it committed.  With WAL and `synchronous=NORMAL` a power loss
  may lose the last transactions (`docs/wal-checkpoint-profile.md:56`), after which
  seqs are given again; a crash of the process alone does not.
- The process may die between two commits and at every await.  It does not die in a
  transaction with half of its effect.
- The clock of the process does not go back; wall clock and timers advance together.
- TCP delivers a socket's writes in order until the socket is lost.
- A system call on a file takes effect wholly or fails with nothing done; an audit line
  that was written is kept.

## Not modelled

- *GitHub accounts* (`github*.js`): calls to an external service with little state of its own.
- *Process, storage and HTTP plumbing* (`db.js`, `server.js`, `http.js`, settings):
  schema, migrations, routing, formatting, metrics.
- *Pins* and the fields of a conversation's status other than the stall: one
  writer each and no step between a check and its use.
- *Feed*: ephemeral frames other than tool output, push hints, what a message says.  An agent
  that is not in a conversation is taken not to know the id of anything in it.
- *Read state*: the filters of the unseen list by mission, sender and private box.
- *Archive*: what exempts a conversation from the sweep is one flag.
- *Spawns*: the envelope of routines and the hourly cap of automatic approvals (same place and
  form as the daily cap), the cap of pending asks (refused before anything is written), missions
  beyond "closed meanwhile", titles, the fallback of a model.  A process that dies between claim and
  record under-counts the cap, as a comment of the code accepts.
- *Rooms*: private boxes, acks (they change no state), room titles, spawn asks in the cap.
- *Causes*: the text of a cause, the quoted turns, the windows of 48 hours and 14 days.
- *Items*: ranks, ticks, alerts, the session that starts after a handover and the question on which
  box, what a project the item is re-pointed to (`projects.js:160`) does to its rank, limits on comments.
- *Sharing*: cards of `People` (mirrors of its states), several contacts in one talk, the box
  question of a room handed over, the text hidden from the other side.
- *Routines*: the parsing of cron lines (a schedule has a period), the wording of deliveries and briefings.
- *Transfers*: limits on number and size, checked once at creation.
- *Files*: directories, symlinks, what lies outside the roots, listings and reads, quotas, the rotation
  of the audit log, a race in the middle of one check.
- *Retention*: how a pass chooses among candidates (nondeterministic here), the purge of read events.
- *Accounts*: rate limits, lockouts, the approval key of a fleet, what the privacy switches hide.
- *Pushes*: which event rings on which device, badges, the answers of the push service, tokens, mail.
- *Search*: ranking, query syntax, the sieve over what a device may see, memories.

The `map` covers about 31 % of the implementation's lines.  Much of the rest is the
list above: SQL and its migrations, validation, rendering and routes.

## Plan

Every safety property that a passing run checks is proved.  What is left, in this order:

1. A theorem that brings the room and the wake of `MCRooms` together, as there is for the
   other composites.
2. The invariants that liveness rests on (`TimesOut` is possible while an orchestration waits, a sweep ends whatever
   is past its time, the replay's cursor only grows), as far as they are safety.
3. More abstract specifications with a refinement: an ask that is answered once, of which `Spawns` and `Rooms` are two
   implementations; a store of names and bytes for `FileWrites`.
4. Shorter proofs where one invariant has grown out of several (`FilesProofs`, `ConvosProofs`).
