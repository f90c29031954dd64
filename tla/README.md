# Vizly collaboration: formal models

Vizly is a diagram editor. Several people may edit one diagram at the same time:
their browsers connect by WebSocket to collaboration servers, any number of
server instances may hold the same room, and the instances agree on the room's
content through a PostgreSQL row (Supabase) and short notices on a private
realtime channel. Beside the live room, the diagram has a copy in the cloud that
the editor saves by itself, and the room reconciles every cloud revision it
meets. An owner can throw a room's live state away and start it over from the
cloud copy. A server can also run alone and keep its rooms in files. At the other
end an editor publishes its canvas into the room's document, previews old
versions, saves to the cloud and recovers, all on one canvas.

This directory holds TLA+ models of that system, translated from the code under
`src/server/collaboration/`, the SQL functions under `src/supabase/migrations/` and
the collaborating part of the editor under `src/src/components/`, the TLC runs that
check them, and proofs that TLAPS checks. Paths below are
relative to `src/`; `server.ts` and other names without a directory are in
`server/collaboration/`.

## 1. Inventory

### Components

| Component | Code | State it keeps | Operations |
|---|---|---|---|
| Atomic room store | `supabase/migrations/20261009160702_collaboration_atomic_room_store.sql`, `supabaseAtomicRoomStore.ts`, `supabaseRoomLeaseStore.ts` | one row per room (generation, version, record), its lease rows, its recovery backups | claim, renew, release, read, exchange (compare-and-swap), recover |
| Room leases | `distributedRoomLease.ts`, `supabaseRoomRpc.ts` | receipt, deadline on the monotonic clock, renewal timer, expiry timer | acquire, `assertActive`, renew, close |
| Commits and coordination | `atomicRoomCommit.ts`, `atomicCheckpointPersistence.ts`, `roomCheckpointCoordination.ts`, `roomCoordinator.ts`, `acceptedRoomState.ts`, `checkpointProposal.ts` | none of their own: read, compute, exchange, up to 8 times | save, load, coordinate |
| Cloud reconciliation | `cloudRoomReconciliation.ts`, `cloudRoomSource.ts`, `cloudRevision.ts`, `roomCheckpoint.ts`, `roomBootstrap.ts` | the base of the last accepted cloud revision | three-way merge of canvases, checkpoint codec |
| Owner recovery | `roomRecovery.ts`, `roomRecoveryHttp.ts`, `roomRecoveryStore.ts` | confirmation of an inspected record | inspect, confirm and replace |
| Room server | `server.ts` | `connections`, `activeRooms`, `pendingRooms`, `recoveringRooms`, a queue per room | upgrade, message, recheck, broadcast, dispose, stop |
| Room lifetime | `roomLifetime.ts` | map of entries with reservation counts and disposals | acquire, release, stop |
| Room registry | `distributedRoomRegistry.ts` | `pending`, `bindings`, `recovering` | acquire, read, recover, stop |
| Room synchronisation | `distributedRoomSync.ts` | snapshot accepted last, refresh under way, `dirty` | refresh, catchUp, notifyCommitted, close |
| Notice bus | `privateRoomNoticeBus.ts`, `supabaseRoomNoticeBus.ts`, `boundedRealtimeSocket.ts` | channels, publications under way | subscribe, publish, reconnect, close |
| Presence | `distributedPresence.ts`, `roomPresenceTransport.ts`, `remoteRoomAwareness.ts`, `presence.ts` | remote peers and their deadlines, sequence floors | refresh, receive, expire, close |
| File persistence | `persistence.ts`, `persistedCanvasGeometry.ts` | one file per room, a chain of writes per room | load, save, replace |
| Authorization and input boundary | `authorization.ts`, `boundary.ts`, `documentModel.ts`, `jsonElement.ts` | none | validate |
| Production runtime | `productionRuntime.ts`, `productionConfiguration.ts`, `supabaseRoomRuntime.ts`, `index.ts`, `vercel.ts` | none | wiring |
| Yjs provider of the editor | `src/components/diagrams/collaboration/` | the client's document, the canvas published last, the snapshot that waits, the updates to send | connect, synchronise, publish, take a snapshot, adopt a revision |
| Recovery flow, version preview | the same directory, `src/components/useDiagramViewerCollaboration.ts`, `src/components/diagrams/hooks/useVersionHistory.ts` | preview session, freeze, recovery copy | preview, resume, restore, recover |
| Cloud save | `src/components/diagrams/hooks/useCloudSave.ts`, `src/services/` | lease on the preview, revision of the stored object | capture, attach a picture, save by compare-and-swap |
| Local storage; sharing; editor UI; build and scripts | the rest | - | - |

### How they interact

```
browser --ws--> server.ts --acquire/release--> roomLifetime.ts
                   |                               | loader / dispose
                   | queue of the room             v
                   |                     distributedRoomRegistry.ts --claim/close--> distributedRoomLease.ts
                   |                               | admitted read / save / recover          |
                   v                               v                                         v
   atomicRoomCommit.ts, roomCheckpointCoordination.ts  -----RPC----->  SQL functions (one row per room)
                   ^                                                                         ^
                   | refresh: read and accept in the queue                                   |
   distributedRoomSync.ts <--notices--> privateRoomNoticeBus.ts <--realtime--> other instances

   a server on its own: server.ts, roomCoordinator.ts, roomRecovery.ts ----> persistence.ts, roomRecoveryStore.ts (files)

   editor: canvas <--snapshot / publication--> YjsProviderHooks.ts --collaborationSocket.ts--> server.ts
             ^  versionPreviewSession.ts, useVersionHistory.ts (a preview takes the canvas over)
             +- useCloudSave.ts ----> the diagram in the cloud; recovery banner ----> roomRecoveryHttp.ts
```

A server is one JavaScript thread, so a function runs undisturbed from one
`await` to the next; everything else can happen at an `await`. Work on one room
(messages of clients, coordination, the reads of the synchroniser) is chained in
a promise, `room.queue`. Different instances meet only in the database, whose
functions lock the room's row, and on the channel, which may lose, delay and
reorder what it carries. All requests are sent once and given up after a
timeout; a request that was given up may still be executed.

### What is hard, and what makes each part correct

The full list, each at its line, is `hazards` in `PROJECT.json`. In short:

- **Two clocks.** The store counts 30 seconds on its clock from the moment it ran a
  request, a holder 20 seconds on its own from the moment it sent it. Correct: a
  holder that believes in its lease has it, whatever the delays and whichever
  answer comes late.
- **Requests outlive their callers.** A save that timed out may be written after
  the room was saved by somebody else, lost its lease, or was recovered. Correct:
  no write loses another one; clients are told only of what is stored; what a
  recovery replaces is kept.
- **Two copies to reconcile.** Instances accept cloud revisions on their own.
  Correct: the accepted revision never goes back, and what a room shows of it has
  been accepted and merged.
- **One room per process.** A room is shared, disposed of and loaded again by
  upgrades that come and go, while loaders and disposals fail. Correct: never two
  documents of one diagram in a process; nobody holds a room that is being
  disposed of; no reservation, binding or count leaks.
- **Editing against recovery.** An owner's recovery and a client's upgrade check
  each other's tables. Correct: never both; what blocks one of them goes away.
- **Files and crashes.** A lone server stores before it tells, merges the cloud's
  revision before it records it, and backs up before it replaces. Correct: after a
  crash between any two steps, or a retry, what was told is on disk; an edit that
  was made is stored in the end; a member who lost access is closed.
- **Merging canvases.** The room and the cloud have both changed since the last
  accepted revision. Correct: no edit of either side is lost without a conflict,
  a conflict has a reason, and the result is a graph.
- **One canvas, many hands.** Effects run after renders, snapshots wait, saves and
  restores await. Correct: what is only previewed is never published or saved, a
  recovery takes no edit with it, a snapshot that waited is taken in the end.
- **Missed notices.** Reads, local commits, notices, timers and a channel that goes
  down meet in any order. Correct: an open room catches up, is never fenced by its
  own commits, announces all it commits, and its queue never waits for itself.

## 2. Modules

```
AtomicRoomStore            the SQL functions; any caller, any arguments
   ^ EXTENDS
RoomLease                  + holders, their clocks and requests; WriteRoom is any write
   ^ EXTENDS
RoomCommit                 + rooms, jobs, writes under way, the cloud copy, recovery
   | INSTANCE ... WITH
RoomHistory                abstract: one document that grows, a revision, an archive

RoomLifetime               the entries of one process          (roomLifetime.ts)
   ^ EXTENDS
RoomServer                 + sockets, upgrades, registry bindings, recovery requests

RoomSync                   instances that follow each other's commits
Presence                   one instance announces its clients, another shows them

FileRoom                   clients, their sockets, one server and its files
CanvasMerge                the three-way merge and the acceptance of a revision
EditorSession              one editor's canvas: effects, preview, save, recovery

<module>Proofs             of RoomLease (with the store), RoomCommit, RoomServer (with
                           the lifetimes), RoomSync, Presence, FileRoom, CanvasMerge
                           and EditorSession
MC<module>                 model values and symmetry for TLC
```

### AtomicRoomStore

One diagram. `generation`, `version` and `record` are the columns of `room_state`
(version 0: no row), `leases` the rows of `room_lease`, `backups` those of
`recovery_backup`, `now` is `clock_timestamp()`. Every function holds the
diagram's advisory lock for its whole transaction, so `Claim`, `Renew`, `Release`,
`Exchange` and `Recover` are one step each, including their cleaning of expired
leases. A transaction that raises changes nothing; `...Outcome` says what its
caller sees. Backups are a set keyed by the replaced record, because the function
looks for the digest before it inserts.

### RoomLease

Each element of `Lease` is one attempt of `acquireDistributedRoomLease`, with a
fresh id. `phase` follows it from `claiming` through `open` and `aborted` to `closed`
or `failed`; `started`, `deadline` and `renewal` are the closure's variables;
`calls` are the requests on their way to the store, whether somebody still waits
for them or not. `RunClaim`, `RunRenew` and `RunRelease` execute a call at any later
time, `LoseCall` never does, `ClaimFails` and `RenewFails` give up waiting.
`lag[l]` is how far the holder's monotonic clock has fallen behind the store's since
the beginning, at most `Drift`; the wall clock used once for the receipt's expiry
(`distributedRoomLease.ts:33`) is off by up to `WallSkew` either way. The model needs
`Hold + Drift <= Grant`: 20 seconds, 30 seconds, and so up to 10 seconds of drift.

### RoomCommit and RoomHistory

A room is served under the lease `l`: `room[l]` is `room.doc`, `shown[l]`
`room.cloudRevision`, `opened[l]` says that clients are in. A document is the set of
operations merged into it, which is what a CRDT document is for these properties;
the content of cloud revision `r` is the operation `r`, present from its
reconciliation on. `job[l]` is the operation at the head of `room.queue`:

| job | code | steps |
|---|---|---|
| `load` | `getRoom`'s loader, `server.ts:131-228` | StartLoad, ReadRoom, SendWrite, AskRevision, ReadRoom, FinishCoordination, then a `sync` |
| `save` | `applyUpdate`, `server.ts:254-277`; `atomicRoomCommit.ts` | StartSave, ReadRoom, SendWrite, FinishSave or Retry |
| `poll`, `merge` | the recheck, `server.ts:427-462`; `roomCoordinator.ts` | StartPoll, ReadRoom, CheckRevision, and as for `load` |
| `sync` | `distributedRoomSync.ts`, `accept` in `server.ts:200-228` | StartPoll, ReadRoom, AcceptSnapshot |
| `recover` | `roomRecovery.ts:49-65`, `distributedRoomRegistry.ts:76-97` | ClaimRecovery, SendRecovery, RunRecovery |

`writes` are exchanges and recoveries under way; `waited` tells whether their job
still waits. `GiveUp` stands for every failure of a job (a timeout, a lost answer, a
guard that throws, two canvases in conflict, the eighth refusal): a failed save
closes its connection, any other failure the room. `DisposeRooms` joins every step
of a lease that ends it. `told` is a history variable: what clients have been sent.

`RoomHistory` is what a reader of `COLLABORATION.md` is promised, without leases,
versions, requests or instances: the document grows (`Commit`), an owner's restart
archives it (`Restart`), and clients are sent parts of the document only (`Tell`).
`RoomCommit` implements it with `document` the stored record's state, `revision` its
accepted cloud revision and `archive` the states of the backups.

### RoomLifetime and RoomServer

`RoomLifetime` is `roomLifetime.ts` with its awaits: `call[c].at` is where a call of
`acquire` or `release` waits, `value[e]` the loader's promise, `retiring[e]` that of the
disposal. Entries are numbered and a number is used again when nothing refers to
it, as the garbage collector would have it.

`RoomServer` uses these steps inside an upgrade and adds what the process keeps
beside the entries: `activeRooms`, `pendingRooms`, `recoveringRooms` (`server.ts`),
`bindings` and `recovering` (`distributedRoomRegistry.ts`). `socket[c]` goes through
`authorizing`, `acquiring`, perhaps `again` (the room was being left by everybody,
`server.ts:241-251`) or `dropping`, to `joined` and `closing`. The loader of a room
claims (`ClaimRoom`), is put into `activeRooms` (`OpenRoom`) and ends; its disposal
drains, leaves `activeRooms` and closes the lease, and only then is the binding free.
`request[o]` is an owner's recovery request.

### RoomSync

All instances that hold the room in one generation. The store is a counter: that a
version contains all earlier ones is what `RoomCommit` shows. `running[s]` is the
refresh (`waiting` for the queue, `reading`, `answered`, `accepting` while its
broadcast is awaited), `dirty[s]` the flag of `distributedRoomSync.ts`, `queue[s]` what
runs in the room's queue, `notifying[s]` the commits whose notice waits for a
refresh, `publishing[s]` and `inbox[s]` the notices under way.

### Presence

One instance announces (`roomPresenceTransport.ts`, sending half), another one shows
(its receiving half and `distributedPresence.ts`); each instance does both. `local`
are the clients with an awareness state, `previous` and `dirty` the closure's variables, `sending` how
far `refresh`'s loop is (`waiting` for its 200 ms, `queued` for the room's queue, `reading`,
`publishing`), `current` and `rest` the round's local variables, `closing` and
`delivered` the close. `readLocal` awaits a permission for each connection, so what
it returns is some of those who were there when it began, some of whom may have
left (`server.ts:175-184`). `published` are all frames, with whether their publication
succeeded; a frame of the sequence can be delivered at any time, any number of
times, or never. The listener has `floor` (the tracker's `sources`), `left` (how long a
peer is shown, its `peers` with their deadlines) and `accepting`, the operations that
wait; `taken` is a history variable.

### FileRoom

The server of `index.ts` that keeps its rooms in files, with its clients. A client
has a document (`made`), a queue of updates to send (`pending`, `collaborationSocket.ts`) and
a socket (`conn`, with what is on the `wire`). The room has a document, a `queue` and
the task that runs (`job`); the stages of a task are its awaits: `Start`, `Handle`
(access is asked for again; a client's question is answered here), `TellRevision`
(the task of that question lasts until the accepted revision has been sent under another
authorization, `server.ts:290-292`, while the client is in sync and may edit), `ReadRecord`,
`WriteRecord` (temporary file and rename), `Broadcast` for messages, and `ActFor`,
`ReadBaseline`, `ReadRevision`, `ReadCloud`, `WriteCheckpoint`, `Accept` for a coordination,
which is also what loads the room. `Join` puts the client's question on the wire. What the
server sends by itself after an upgrade does not go through the queue: `greeting[c]` says what
comes next of it, the client's access (before which its editor is read-only) or the
server's own question, and `Greet` sends it when its authorization has been answered
(`server.ts:415-417`), so the client's `Answer` may come after updates it has made in the
meantime. `queued` and `held` are `connection.queuedDocument` and `connection.pending`.
`held` counts the task that runs too, as `connection.pending` does.
`Recheck` is the timer, `Inspect`, `Confirm`, `BackUp`, `Replace` the owner's recovery,
`Crash` loses everything but the files and may leave a torn backup. Every trouble
(a dropped connection, a failure, a withdrawal of access, a recovery, a crash)
is counted against `Troubles`, so that the rest of a behaviour is calm. `told` is a
history variable.

### CanvasMerge

`MergeField` and `MergeElement` are the recursion of `merge` in
`cloudRoomReconciliation.ts`, of which an element and its fields are the two levels;
`Candidate` and `Merges` are `reconcileCloudRoom`, `IsGraph` is `validateDocument`,
`Acceptable` and `Reconciled` are the decisions of `roomCheckpointCoordination.ts`. `Pointwise`
is the reference definition: at every field of every element, presence included,
whichever side alone has changed. The state machine around them (`EditRoom`,
`SaveCloud`, `Accept`, `Refuse`, `Recover`) makes the pairs of canvases that can meet.

### EditorSession

`state` is the canvas in the editor's state, `shown` the one rendered last, `refs` what
others read through the flow-data bridge; `due` says that the effects of the last
render have not run. A remote snapshot replaces the canvas at once (`Take`, `Apply`),
waits in `pending` and is retried by a timer, or is kept by a preview; the canvas is
published by `Effect`, first into the document, then into the bridge. `doc` is the editor's copy of the
shared document, `room` the room's, `baseline` the canvas published last. `session` is
`versionPreviewSession.ts`: a preview, its `live` canvas, and `resuming` until that canvas has
been rendered. `restoring` waits for the safety backup of a restore, `saving` is a cloud save
with what it has captured, `recovery`, `frozen` and `copy` are the owner's recovery seen
from the editor. A canvas gives every field 0, an edit, or `Historic`, which only an old version
has: whether it got out is a question about one value. `Render` may happen at any time,
because the host renders for any reason, and it does happen after a new canvas, because
a replaced canvas is new arrays.

## 3. Runs

All runs finish in at most three minutes with two workers.

| Run | Module, configuration | What it shows |
|---|---|---|
| `lease` | RoomLease | an editor that believes in its lease has it; no recovery meets an active editor; nothing is revived |
| `commit` | RoomCommit, Horizon 1, one edit, two revisions | with expiring leases, crashes, late and lost writes, recoveries and a diagram saved to the cloud meanwhile: clients see what is stored, nothing told is lost, no revision shown that was not accepted, the refinement of RoomHistory, no acceptance after the loss; generations are fenced, replaced records kept, versions name contents |
| `revision_pairing` | RoomCommit, three revisions | a violation, see section 6 |
| `server` | RoomServer, two sockets, one owner | one room in memory, held rooms stay, unused ones leave, stop drains; a recovery is idle, a loader is never refused by its own predecessor, sockets are judged by their own room; upgrades end, a diagram nobody uses can be recovered |
| `sync_prompt` | RoomSync, `PromptSpec` | without the timer, every notice that reaches or was to reach a room is followed |
| `sync_timed` | RoomSync, `TimedSpec` | without notices, the timer alone; no false fence; a notice covers its commit; the queue moves on |
| `presence` | Presence, `FairPresenceSpec` | who may be shown is remembered and withdrawn, nobody withdrawn comes back, ghosts expire |
| `file_room` | FileRoom, two clients, one edit, two revisions, one trouble | what was told is in a file or a whole backup; a recorded revision is merged |
| `file_live` | FileRoom, one client, two edits, one revision, two troubles | at most three messages of a connection about the document are pending, the running one included; an edit of an editor is stored in the end; who has lost access is closed |
| `canvas_merge` | CanvasMerge | an accepted merge is the reference merge, a refused one is a conflict, the room's canvas stays a graph |
| `editor` | EditorSession, `FairEditorSpec` | a preview stays private, a recovery keeps edits, previews end and revisions are adopted |
| `restore` | EditorSession, `PromptSpec` | a violation, see section 6 |

Every property of a passing run has a mutant: a plausible slip in a definition
(an operator named in its comment as a mutant) under which TLC finds the property
violated with the same configuration. The type invariants are
theorems (section 4), and so is every invariant and every action property of a passing run;
the runs and the proofs use the same definitions.

**Bounds.** Numbers are small because the code compares times and versions and
never computes with them otherwise.

- `lease`: Grant 4, Hold 3, Drift 1 is the tight case of `Hold + Drift <= Grant`;
  Horizon 5 lets a lease be granted, renewed once late and expire; two leases, of
  which one may be a recovery.
- `commit`: two leases are two instances, or one instance and a recovery, or one
  instance before and after its loss. The timing is `RoomLease`'s subject, so Horizon
  is 1 (a lease may or may not have expired), or 0 in `revision_pairing`, and no heartbeat
  is sent (Beat 2).
  Two attempts instead of eight: one refused exchange and the exhausted budget.
  `MaxVersion` bounds the writes.
- `server`: one diagram, because its maps are keyed by diagram and the steps of two
  diagrams meet only at the capacity, whose limit is a failed acquisition like any
  other. Two sockets that upgrade, leave and come back, and a recovery.
- `sync_*`: one commit. What has to be told apart is whether a room contains a given
  commit. Several commits, and notices out of order, are in the proofs of the two
  invariants.
- `presence`: two clients in batches of one, so that a round has two frames and can fail
  between them; three frames are such a round and a tombstone, or a tombstone and a
  return. One operation may wait: with a flood of frames the expiry is the one that
  is dropped. Life 1 separates a frame that is fresh from one that waited too long.
- `file_room`: two clients, for what one is told of the other; two revisions, so that a
  coordination can be overtaken; one edit and one trouble, which with four million states
  is what a short run affords. Its two invariants are theorems for any number of each.
- `file_live`: two edits, so that an update can wait, be merged or follow while the task of
  the client's question or another update runs; that is also how the bound of three is
  reached (it is: with a bound of two TLC finds a trace). One client, because with
  two the fairness of each reconnecting client would have to be strong, and two troubles,
  so that a retry can fail again. One revision; the properties gave the same verdict
  with two revisions and one trouble, and with two revisions, two troubles and one edit. The limit
  of sixteen messages stays as it is: the property is that it is not approached.
- `canvas_merge`: two nodes that may contain each other, an edge between them, labels
  with two values; all canvases of these, every pair that three-way merges meet.
- `editor`: one field and one edit. `PreviewIsPrivate` and `RecoveryKeepsEdits` gave the same
  verdict with two fields and with two edits. `restore` needs two fields: one that the version
  shares with the canvas published last, one that makes it a version of its own.

Runs with `CHECK_DEADLOCK FALSE` are those whose system may stop: at the horizon,
after `stop()`, or when the edits and troubles of the instance are used up.

**Fairness.** `server`:
loaders, disposals and authorizations are made of requests with timeouts, promises
that settle resume those that await them, and a closing socket is terminated after
half a second (`server.ts:94-99`); no fairness for clients, owners, lost leases or
`stop()`. `UpgradesDrain` is stated for executions in which sockets stop coming and
going: the model does not order the resumption of promises, and without that premise
an upgrade could find a room that is being left again and again. `RoomSync`: weak
fairness for answers, timeouts and disposals; strong fairness for `Read`, which waits
for the queue among commits, because the queue is a chain of promises and what was
queued first runs first. In `PromptSpec` a channel that is up delivers and one that is
down comes up again (the realtime client reconnects), and the timer is given no
fairness. In `TimedSpec` the timer ticks (`setInterval`), notices may all be lost and
the channel may stay down.
`Presence`: strong fairness for the expiry's turn, because `setInterval` goes on and
sixteen frames do not arrive at every one of its instants; weak fairness for the queue
and the clock; none for publications or deliveries.
`FileRoom`: weak fairness for sockets that deliver, close and reconnect (the Yjs provider
retries), for the server's greeting (two sends, each after one authorization), for the steps of the room's queue (file calls end, requests have timeouts),
for the recheck timer, and for the two last steps of a confirmed recovery, which await
nothing but files; none for edits, retries by hand, inspections or troubles.
`EditorSession`: weak fairness for `Mount`, `Render` and `Effect`, which React does by
itself, and for the 100 ms timer of `RetryPending`; none for users, the server or the network.

## 4. Proofs

Every theorem holds for all values of the constants that satisfy the module's
ASSUMEs. `PROJECT.json` lists them; the argument of each module is this.

**RoomLeaseProofs**, first part: the store under any callers (`StoreInvariant`,
`StoreOneGeneration`, `StoreRecoveryAlone`, `StoreGenerationChangeIsFenced`,
`StoreReplacedRecordIsKept`, `StoreVersionNamesContent`). `StoreInv` is the
type, unique lease ids, `OneGeneration` and `RecoveryAlone`, and is inductive as it
stands. A claim can break `OneGeneration` only with a generation of its own, and
`GrantedIsAccepted` shows that the row or a live lease imposes theirs. The action
properties follow from the same invariant step by step; that a changed generation is
fenced needs `RecoveryAlone`, because it is the live recovery lease that excludes
the editors.

**RoomLeaseProofs**, second part: the leases (`LeaseInvariant`; `LeaseTypeCorrect`,
`ActiveLeaseIsBacked`, `ActiveLeaseHoldsGeneration`, `RecoveryExcludesEditors`,
`LeaseIsNotRevived`, `LeasesUseTheStore`).
`ActiveIsBacked` is not inductive: whether the row outlives the deadline depends on
requests and receipts under way. `LeaseInv` adds that a receipt on its way stands for
a row granted at least `Grant` after the request was sent (`ReceiptIsBacked`), that an
active editor's row reaches `Drift` beyond its deadline, and once a renewal has been
granted `Grant` beyond the start of that renewal (`DeadlineIsBacked`), that deadlines
lie at most `Hold` after the last request (`TimersAreConservative`), that calls belong
to the attempt that sent them, in a phase in which they can exist
(`CallsAreOfTheirAttempt`), and that an attempt claims once (`ClaimedOnce`).
`Hold + Drift <= Grant` then closes the gap. That no recovery meets an editor
follows: an active editor's row is live in the store, and `Recoverable` demands that
there is no such row. `LeasesUseTheStore` is a refinement: every behaviour of the
leases is one of the store, and so keeps what was proved of the store.

**RoomCommitProofs** (`CommitInvariant`; `CommitTypeCorrect`, `ActiveRoomsAreStored`,
`ToldIsKept`, `ShownRevisionIsAccepted`, `NothingIsAcceptedAfterLoss`; the refinements
`CommitImplementsLeases` and `CommitImplementsHistory`, and the store's action properties
through the first). What is proved relates a room in memory to a row that others write, so
`CommitInv` follows everything between them, from the row outwards:

- *a reading is of the past* (`ReadingInv`): its version is not above the row's; an equal
  version has the row's content, and within its generation the row has only grown since;
- *a write that can still succeed contains what it replaces* (`WriteInv`): the exchange
  compares versions, so the row it replaces is the one that was read, and the candidate was
  merged from that reading; the job that still waits for a write is the one that sent it;
- *a job that was told "committed" finds its candidate in the row* (`AnswerInv`), and *a room
  shows only what the row has* (`ShownInv`), both as long as the row is of the lease's
  generation; after a recovery nothing is claimed of them any more;
- *a generation does not come back* (`ClaimsInv`): the one that a recovery starts is the
  fresh id of an attempt, and once anybody knows it that attempt is spent. Without this, a
  delayed answer of before a recovery could pass for one of after it.

`LeaseInv` gives the rest: an active editor is of the row's generation, whatever became of
its requests, so for active rooms the conditional parts hold. Each step is shown to be a step
of the leases, to leave them alone, or to write through `WriteRoom` (`CommitStepIsLeaseStep`).
`HistoryStep` maps each step to `RoomHistory`: a successful exchange is a `Commit`, because it
contains what it replaces, a recovery a `Restart` whose archive is the backup made in the same
transaction, an answer to clients a `Tell`, all else a stutter.

**RoomServerProofs**, first part: one process's rooms (`LifetimeInvariant`;
`LifetimeTypeCorrect`, `NoSecondRoom`, `HeldRoomStays`). That a room is held says nothing of
the map, so the invariant counts:
`leases[e]` is the number of callers that reserve `e`, until the service stops a room
in memory is in the map, and an entry that retires has no reservation. Then the
release that brings the count to zero is the last one, and a loader can only start
when no room of the diagram is left in memory. The counting lemmas rest on the
finiteness of `Caller`.

**RoomServerProofs**, second part: the server (`ServerInvariant`; `ServerTypeCorrect`,
`ServerHasOneRoom`, `ServerKeepsHeldRooms`, `RecoveryMeetsNobody`, `RegistryAdmitsEveryLoader`,
`SocketsAreGuarded`). Every step of the server is a step of
the lifetime, leaves it alone, or starts an upgrade (`Upgrade`, which only names the diagram
of an idle call), so `LifetimeInv` is kept by the lemmas of the first part. `ServerInv` adds
where a socket may be while its call waits (`SocketInv`), that a room which holds its lease
is in memory and bound, that an open one is active (`RoomInv`), that the tables name nothing
else (`TableInv`), that `pendingRooms` counts the upgrades and that a reserved diagram
belongs to one request. No step on one room disturbs another: two rooms of one diagram that
hold a lease would both be in memory, which `OneRoomInMemory` excludes (`HoldingAlone`). A
diagram is idle when `activeRooms` and `pendingRooms` say so (`ReservableIsIdle`) because a
loader is awaited by an upgrade, and a room somebody holds is open, hence active
(`HeldIsActive`).

**RoomSyncProofs** (`SyncInvariant`; `SyncTypeCorrect`, `NoRoomIsFencedFalsely`,
`NoticesCoverCommits`). The core is that a refresh reads and accepts inside the
queue: the document cannot move between the read and its acceptance, so the answer
holds all the room has committed. A notice that waits for a refresh is of a commit
the document has, a refresh ends with the snapshot accepted last at or after the
document, and so the notice covers the commit.

**PresenceProofs** (`PresenceInvariant`; `PresenceTypeCorrect`, `AnnouncedStaysRemembered`,
`CloseWithdrawsEverybody`, `WithdrawnStaysWithdrawn`). Who is outstanding, announced and not
withdrawn by an acknowledged frame, grows with every frame, even one whose publication
fails, and shrinks only with an acknowledged one. `PresenceInv` says where the publisher
keeps those clients: in `previous` between rounds, during a round among those it announces or has
yet to withdraw (`RoundWithdraws`), during the farewell among those it has yet to withdraw,
with no round beside it (`FarewellIsAlone`). A round that fails half-way leaves them all in
`previous` because it stores the union before its first frame. At the listener the floor is
above every frame taken and whatever waits in its queue was published, so a frame that is
delivered late or twice is refused. The two sides share only `published`, and the invariant is
proved in two halves.

**FileRoomProofs**, first part (`FileRoomInvariant`; `ToldStaysDurable`, `BaselineStaysMerged`).
That what was told is on disk needs to know what the room is about to tell: `FileInv`
adds that an open room's document is stored while no task has gone beyond it
(`RoomIsStored`), that a task read the record that is still there (`LoadIsCurrent`,
`StagesAgree`), because nothing else writes a room's file while it is open, and that the
recorded baseline is merged into the room's document too (`RoomHasBaseline`), since a
save writes that document under the file's baseline. A recovery can only start while
there is no room, and replaces a record whose whole backup it has read back.

**FileRoomProofs**, second part: the queue (`FileQueueInvariant`; `FileTypeCorrect`,
`QueuesStayBounded`). At most three tasks of a connection are pending: one that runs (the question, which
lasts beyond its answer, or an update) and behind it, in either order, the answer to the server's
question and one update. That needs the path of a message from the socket through the queue to the
running task. `QueueInv` says that along that path the client's question comes before
everything else and its answer once (`Before`; `WireInOrder`, `QueueInOrder`, `InOrder`), while
its updates may be before, after and on both sides of that answer, because the server asks
after two authorizations; that there is no answer before the server has
asked (`InOrder`), that a client whose
question is unanswered (`Asks`) makes no update, that at most one task of each kind waits, since an update that
meets a waiting one is merged into it (`UpdateIsCollected`), that `held` does not exceed the
tasks (`HeldIsCounted`), and that a client who is away has no task in an open room
(`TasksHaveSockets`), for otherwise its next connection could add to the old one's. The
theorems assume `QueueLimit > 2`, where the code has 16 (`server.ts:392`): with a smaller limit
the tasks above would close the connection, and what the limit does is not what is shown
here, namely that a client of this repository never reaches it. A closing connection takes its tasks out of the queue (`Without`); that the
others stay, each once and in their order (`WithoutFilters`), is an induction over the queue.
`Without` is a recursive function, and the induction is made by the least prefix of which
the claim fails (`PrefixesAreFiltered`).

**CanvasMergeProofs** (`CanvasInvariant`; `RoomStaysAGraph`, `EditsStayMerged`, `ConflictStaysReal`).
`MergedElementIsPointwise` is the algorithm's correctness: for all values of three
elements, a merge of one of them that does not clash is the reference merge and its
facets agree. `ClashHasAReason` is the converse: an element clashes only if one side deleted
what the other edited, or both changed one of its fields to different values; so a merge
without such an element is the reference merge, and if it is refused that is no graph
(`ConflictHasAReason`). `ConflictStaysReal` asks the reason of the canvas that was refused: whichever
saved revision `r` a step refuses, it is `r` that is old, has no base to be merged on, or is in conflict
with the room. The invariant says that the accepted revision is a saved one and that all
canvases are typed graphs; the merge is applied to those only.

**EditorSessionProofs**, first part (`EditorInvariant`; `PreviewStaysPrivate`). That nothing historic is
in the document depends on where a historic canvas can be when an effect publishes.
Until something is restored, `EditorInv` says: the room, the document, the snapshot that waits
and the live canvas of a preview are never historic; with no session, neither are the state,
the rendered canvas and the bridge; while a preview ends, the state is not, though the rendered
canvas may still be, and the session ends only when the rendered canvas is the live one; a save that still has its
lease, while there is no session, has captured nothing historic.

**EditorSessionProofs**, second part (`KnownInvariant`; `RecoveryKeepsAllEdits`). A recovery
copies what the bridge has, not what the editor's state has. `KnownInv` says that an edit which has
been rendered is in the bridge once the effects have run (`BridgeShowsRendered`), and that
while a recovery is planned the canvas is frozen and rendered, and no snapshot waits that would thaw
it (`PlanIsFrozen`), so nothing can slip between the copy and the restart. `Edited` leaves out
the values a version shows: a canvas that has been replaced by an old version has no edit to
lose.

**Limits.** Liveness stays with TLC (fairness and ENABLED are beyond the prover): `StopDrains`,
`UnusedRoomLeaves`, `UpgradesDrain`, `BlockedRecoveryIsFreed`, `NoticeIsFollowed`,
`CommitReachesRooms`, `QueueMovesOn`, `GhostsGo`, `EditIsStored`, `RevokedIsClosed`,
`EditorCatchesUp`. The library's induction theorems take an operator as parameter and
cannot be used; where an induction was needed, it is over the prefixes of a recursive function.
The proofs are about the specifications' safety parts (`CommitSpec`, `FileSpec`, ...), which the
fair specifications imply.

## 5. What is left out

Inside the modelled parts:

- `AtomicRoomStore`: roles and grants, argument validation, the size of a record.
- `RoomLease`: the shape checks of a receipt are an answer that `ClaimFails`; the
  message of an abort.
- `RoomCommit`: records of before the checkpoint format, and the one-time upgrade of
  an old document (`server.ts:146-154`); that a cloud object changes between the read
  of its revision and that of its content, which the source checks and refuses
  (`cloudRoomSource.ts:63-95`); the merge of two canvases, and whether it conflicts,
  are choices here, and `CanvasMerge`'s subject.
- `RoomServer`: the message protocol (`FileRoom` has it), rate limits and buffers; the capacity of 64
  bindings; the recovery status socket (`server.ts:339-351`), which is a `Reject`; the
  reservation that `Depart` releases is never the last one, so its failure is not a
  case.
- `RoomSync`: generations (a read of another generation is a failure), presence, the
  budgets of the bus. Between the end of the refresh loop and the clearing of its
  promise lie microtasks only, and every caller of `refresh` comes from the network or
  a timer, so the two are one step.
- `Presence`: one source and one generation; the capacities of 128 sources and 256
  peers, the cursor that is shown, and the awareness ids remote peers get
  (`remoteRoomAwareness.ts`); the loss of the publisher's lease is a failed publication
  and a close.

- `FileRoom`: presence messages, which are counted in `connection.pending` as well (one that
  waits and one that runs, at most) and which `QueueIsBounded` therefore says nothing of; rate limits; the size of records. Files are trusted to survive what
  `fsync` and `rename` promise, and one process is assumed to own them: the code has no lock
  against a second one. An orderly close of a page flushes its last updates
  (`collaborationSocket.ts:67-70`), but the queued task may find its socket closed and drop
  them, so `EditIsStored` speaks of edits whose client is still there.
- `CanvasMerge`: records inside an element (the same recursion), arrays (values), the
  size budgets; a revision number that is met again with another canvas, which the code
  refuses.
- `EditorSession`: switching to another diagram with an open preview
  (`useVersionHistory.ts:329-354`); elements added and deleted; the selection and the
  drag that a snapshot keeps; the revisions of a save's compare-and-swap.

What the models show of the code's limits, without any document that says otherwise:

- A torn backup left by a crash blocks the recovery of that one record (the digest of
  the file does not match); nothing is lost.
- A member who has become a viewer with edits that are not stored yet is closed at every
  reconnect, because the document offers them again.
- A client that was offline during an owner's recovery merges its old document back when it
  reconnects.
- A diagram saved to the cloud, and the same field edited again before the next recheck, is a
  conflict, as `server/README.md` says of fields changed on both sides.
- Edits made after the socket has reconnected but before the synchronisation has ended are
  replaced by the remote snapshot. In the window between a state change and its render, a
  preview or a recovery copy is based on the canvas rendered before.

Not modelled at all: tokens, origins and sizes at the boundary (stateless checks),
row-level security policies (statements about single rows), local storage, the editor's
user interface with its themes, 3D views, export and AI assistant, build and scripts. These are most
of the repository's lines, and they have no protocol: they transform or render one
document in memory.

## 6. Findings

`revision_pairing`. The recheck coordinates a room with the cloud copy and applies the
returned document (`server.ts:439`); the accepted revision is then read by another
request (`server.ts:445`, `productionRuntime.ts:39`). If another instance coordinates a
newer revision between the two, the room pairs the newer revision with a document
that lacks its content, and announces it with the older document's state vector.
`cloudRevisionProtocol.ts:26` says "The accepted checkpoint revision is paired with
the already sent document." The trace needs two instances and three revisions; the
room catches up at its next refresh. `commit` shows what does hold: the revision
shown is one the shared record has accepted.

`restore`. `restoreVersion` replaces the canvas by the version and reports
"Restored to snapshot: {{message}}." (`src/locales/en.json:1279`). What reaches the shared
document is only what differs from the canvas published last
(`YjsProviderHooks.ts:359-362`, `documentModel.ts:30`), and during a preview nothing is
published (`versionPreviewSession.ts:99`). A field that a peer has changed during the preview,
and that the version has in common with the canvas published last, is not written: the room
keeps the peer's value, and the restored canvas gets it back with the next snapshot.

## 7. Plan

Done, in this order: the store, the leases, commits over them with the abstract history,
lifetimes and the server, synchronisation, presence, the lone server with its files, clients
and message queues, the merge, the editor's session; and the proofs of all their safety
properties and of both refinements.

What would come next:

1. The composition of `RoomCommit` with `RoomSync` for several instances: that the counter of
   `RoomSync` is the version of the row follows from `CommitImplementsHistory`, but is an
   argument of this text.
2. For `FileRoom`, the abstract promise of `RoomHistory` with the record file in the row's place; its
   backup is written in a step before the replacement, so `Restart` would have to be split.
3. The composition of `EditorSession` with a room of several editors, and its switch
   between diagrams.
