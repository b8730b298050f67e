# Tessera.io in TLA+

A verification project for Tessera.io: modules that model collaborative
editing, presence, the execution of code, and how the AI service starts, splits
files and stores them, the TLC configurations that check them, and proofs that TLAPS
checks. File names without a directory are in the directory this README is in; `server.ts` is `apps/sync-server/src/server.ts`,
`provider.ts` is `packages/collaboration/src/provider.ts`, `useCollaboration.ts`
is `apps/web/src/hooks/useCollaboration.ts`, `aiService.ts` is
`apps/web/src/services/aiService.ts`, `worker.ts` and `sandbox.ts` are in
`apps/execution-engine/src`, `db.py`, `main.py` and `rag.py` in `apps/ai-service/src`.

## 1. Inventory

| Component | State | Operations | What makes it correct |
|---|---|---|---|
| sync-server, rooms (`server.ts`) | `rooms`: per room a Y.Doc, an Awareness, the participants; per socket `currentRoomId` | `join-room`, `sync-step-1`, `sync-step-2`, `sync-update`, `awareness-update`, `disconnect` | the room ends up with every edit; a room lives exactly while it has participants |
| sync-server, running code (`server.ts`) | handlers that await the queue | `execute-code`, with `queue.add` and `waitUntilFinished` | every run is answered, once, to whoever asked |
| provider (`provider.ts`) | `synced`, listeners on socket, document and awareness, the throttle timer | handshake, remote and local updates, `clearLocalDoc`, `destroy` | what the client has and what the room has meet, without echo |
| hook (`useCollaboration.ts`) | the socket, the current provider, document, awareness | `connect`, `disconnect`, cleanup | a reconnect brings the client back into sync |
| page (`App.tsx`) | `isRunning`, `output`, `language`, the rendered page | language selector, Run button, Ctrl+Enter, `execution-result` | one run at a time, in the language shown; the output is that of the last run |
| awareness (`awareness.ts`, `provider.ts`) | states and clocks of all participants | set, throttle, relay, time out | everybody in the room sees everybody, and nobody who has left |
| worker (`worker.ts`) | slots, hang timers; the queue in Redis | take a job, settle it, stall, shut down | every job gets one outcome, whatever Docker does |
| sandbox (`sandbox.ts`) | a container per attempt | image, create, start, wait or time out, collect, remove | containers are ephemeral, the status is the program's |
| ai-service (`db.py`, `rag.py`) | the MongoDB client, a collection and its indexes | start-up, ingest, search, health check | start-up by several workers at once, chunks that cover the text and are all stored when the caller is told so |
| AI service client (`aiService.ts`) | none | `ingestRagDocument`, `searchRagChunks`, `getAiServiceHealth` | a failure of the service is never taken for an answer |

**How they interact.** A browser tab has one socket.io socket; the hook emits
`join-room` on every `connect` and builds a provider, which starts the Yjs
handshake in both directions (`sync-step-1` carries a state vector,
`sync-step-2` what its sender lacks). Updates go to the server and from there to
the rest of the room. `execute-code` makes the server put a job into the BullMQ
queue and wait for it; the execution engine, another process, takes it, runs the
program in a container and returns the result through the queue.

**What is hard.** The two ends of a connection learn of its loss at different
times; socket.io buffers what is emitted while disconnected and flushes it
*before* the `connect` handler runs; each reconnect leaves one more provider
bound; rooms live in memory only and disappear with their last participant or
the process; the execution path has three timers (sandbox, hang, job lock) that
race with Docker, and jobs are executed again when their lock is lost.

**Not modelled.** Layout and view settings of the page (font size, minimap, panel,
download) and the IntelliSense tables: local to one page, without a state that
anything else reads. The health check, the search of the AI service and its MCP
tools: each is one read that is awaited and passed on; which chunks a search
returns is computed by MongoDB. Configuration: parsed once, before anything runs.
What is left of `App.tsx`, `cpp.ts` and `SidePanel.tsx` is markup and tables, so
nothing more of the system can be told apart by a property of its behaviour.
PROJECT.json lists every component.

## 2. Plan

Order of the modules, most important behaviour first. *Done* marks what exists.

1. *Done.* `YDoc`, `CollabSync`: the document of one room, end to end;
   `CollabSyncProofs`: its safety for all clients and bounds.
2. *Done.* `JobQueue` (abstract), `ExecutionEngine` implementing it,
   `ExecutionEngineProofs`; `ExecutionRequests`, which composes the page and the
   server with `JobQueue`.
3. *Done.* `Presence`: awareness clocks, the 50 ms throttle and what it encodes,
   the relay, time-outs, with the connection life cycle of `CollabSync`.
4. *Done.* `IndexSetup`: `ensure_collection_indexes` run by several workers, and
   `IndexSetupProofs`.
5. *Done.* `RagChunks`: `_split_into_chunks`, and `RagChunksProofs`.
6. *Done.* `SharedDoc`, what `CollabSync` promises, and the refinement.
7. *Done.* `RunControls`: the language of a run.
8. *Done.* `RagIngest`: several calls for one file, over the chunks of `RagChunks`,
   and `RagIngestProofs`.
9. *Done.* `SharedDocProofs`: the proof of `DocSpec`, from `PageInv`.
10. *Done.* `PresenceProofs`: `OwnStateRules`, from `PresenceInv`.
11. *Done.* `ExecutionRequestsProofs`: `OutputIsOwn` and `OneAtATime`, from
    `RequestsInv`.

## 3. Modules

### YDoc

A document is the set of facts it has received: "struct *k* of author *a* was
inserted" or "was deleted". That is what Yjs synchronisation can tell apart. An
insertion counts only when all earlier ones of its author are there; the rest
waits (Yjs: `pendingStructs`). The state vector covers the integrated
insertions, `EncodeStateAsUpdate` returns what lies beyond it and all deletions,
and the update event carries what a transaction put into effect. Structs do not
depend on structs of other authors here: a dependency can only delay
integration further, and the invariants are about facts received.

### CollabSync

| Model | Code |
|---|---|
| `doc`, `synced`, `up`, `sendBuffer` | the Y.Doc, `synced`, `socket.connected`, socket.io-client's send buffer |
| `conns`, `Providers` | each `connect` adds a provider; none is destroyed before unmount |
| `open`, `joined`, `roomDoc` | the server's sockets, those with `currentRoomId`, `room.doc` |
| `c2s`, `s2c` | FIFO packets of each connection |
| `silent` | history: what the room learnt from a `sync-step-2` while the client was in it |
| `HandleConnect`, `HandleDisconnect`, `Cleanup` | `useCollaboration.ts` 75-92, 32-48 |
| `Type`, `ClearLocalDoc`, `HandleSyncStep1/2`, `HandleSyncUpdate` | `provider.ts` |
| `OnJoinRoom`, `OnSyncStep1/2`, `OnSyncUpdate`, `OnDisconnect`, `DropBeforeJoin` | the handlers of `server.ts`; the last is `if (!currentRoomId) return` |
| `ServerRestart` | the process stops and starts, by signal or crash |

The two ends of a socket notice its loss in steps of their own
(`HandleDisconnect`, `OnDisconnect`), so packets are lost in either direction
and an old socket of a client can still be a participant when the new one joins.
One room, since the web client joins only `default-room`.

### SharedDoc

What `CollabSync` promises, without sockets, handshakes and packets: replicas, the
room, and the set of facts in transit from one to another. A replica grows by what
its owner writes and by what is in transit, and loses nothing while its page is
open; the room grows likewise and loses nothing while anybody is in it; only what
is in a document gets into transit, and what is there may be lost. An insertion is
written once only, which Yjs relies on: two with one id are taken for the same.
`DocSpec` in `CollabSync` is the refinement: `doc`, `roomDoc`, `mounted` and
`joined # {}` are the abstract variables, and `Transit` collects what the channels
and the send buffers carry. `KeepsOwn` says why an insertion is new when it is
written: what an author has typed is on the author's page while that is open.

### JobQueue, ExecutionEngine

`JobQueue` is what the server relies on: a job that is added gets one outcome,
for good, and does get it. `ExecutionEngine` is the worker and
`executeInSandbox` with one action for each Docker call; each may fail, and no
fairness makes Docker answer. A job has attempts `<<job, n>>`: when its lock is
lost (`LockExpires`) the check for stalled jobs (`MoveStalled`) puts it back, up
to `maxStalledCount` times, and the earlier attempt may still be running. An
attempt occupies a slot (`processing`) until the processor's promise settles,
with the sandbox's result or by the hang timer; in the latter case
`executeInSandbox` continues without a slot. `phase` is the call it waits for,
`container` what Docker has, `stray` records the containers the engine has lost
track of and so names the only ways to leave one behind: the process ends,
`createContainer` fails after making it, the removal fails.

### ExecutionRequests

The page, the socket and the `execute-code` handler, with `JobQueue`'s actions
for the queue (`INSTANCE JobQueue`). A handler is split at its awaits
(`adding`, `waiting`) and goes on after its socket is closed. `view` is React's
last commit: events of the socket change the state and are committed later,
whereas the state change of a click or key press is committed before the next
one. `isRunning` and `output` are the states of `App.tsx`.

### RunControls

The language selector, on top of `ExecutionRequests`. The effect of `App.tsx`
58-71 binds the keydown listener to the closure of one render, so the listener has
a `language` of its own; a commit that changes `isRunning` or `connected` makes a
new one. `emitted` is the language in the `execute-code` packet of the last run and
`shown` the one on the page when it was started.

### Presence

| Model | Code |
|---|---|
| `clock`, `shown` | `meta` and `states` of a client's `Awareness` |
| `pending` | `pendingAwarenessClients`; the timer of 50 ms is set when it is not empty |
| `HandleAwarenessLocalUpdate`, `SendPending` | `provider.ts` 120-152: the listener, and the timer's callback |
| `HandleAwarenessRemoteUpdate` | `provider.ts` 153-159, with the event it causes in every provider |
| `SetLocalState`, `RemoveOutdated` | a cursor that moves or the renewal after 15 s; the removal after 30 s of silence (y-protocols) |
| `OnAwarenessUpdate`, `OnDisconnect` | the handlers of `server.ts` 121-132, 167-182 |

The state that a client has at a clock is known by the clock. An update is a set
of entries (client, clock, state or "gone"); `News` says which of them
`applyAwarenessUpdate` takes, and that a client answers its own removal with a
higher clock. The providers that earlier connections leave behind have timers of
their own and send as well. `RemoveOutdated` may happen at any time: whether 30 s
are over is not modelled, which allows more than happens.

The server removes an awareness state on `disconnect` (`server.ts` 175). That is
its own and not the client's, but nothing depends on it: nothing of
`room.awareness` is ever sent and nothing listens to it, so it is left out. Who
left stays visible to the others until they time it out.

### IndexSetup

A worker of the AI service goes through `connect_db` and
`ensure_collection_indexes`, one action for each call it waits for; `phase` is
that call. MongoDB is external and the set-up meets it in any state an older
version may have left: with the collection or without, with other indexes of the
same names or keys (`taken`, a vector index of another definition included, which
`db.py` 174 finds by its name), with or without search indexes. An
`OperationFailure` of a call about an index is a duplicate (taken for success), "not
supported" or anything else (skipped with a warning, `skipped`), and may come after
the index was made. A lost connection is no `OperationFailure`, ends the start, and
may come after the call took effect.

The two calls about the collection are another matter, since `db.py` 90 catches
`CollectionInvalid` only: a database that refuses one of them (`refuses`: not
authorised, authentication failed) ends the start, although the collection may be
there and the database can be reached.
`create_collection` of the driver asks whether the collection exists and raises
`CollectionInvalid` if so; the comment in `db.py` 91 counts on the same error when
another worker comes in between. Whether the server says anything then depends on
its version (the `NamespaceExists` it may answer is no `CollectionInvalid`), so
`CreateCollection` allows both.

### RagChunks

`_split_into_chunks`, one action for each round of the loop. A text is the list of
its word lengths, as sums (`letters`); chunks and the list `current` are ranges of
words. `current_len` is the code's, which counts a blank after every word.

### RagIngest

Calls of `ingestRagDocument` for one file, on top of `RagChunks`: all of them split
it in the same way. `client` is the promise of the caller, `server` how far `ingest`
is, `stored` how many of the call's documents are in the collection. `insert_many`
is ordered: MongoDB inserts one document after the other, may refuse one, and may go
on when the driver has lost the connection or the process is gone. `Response` is the
test of `response.ok`, `FetchFails` a connection that was not made or was lost,
whatever the service has done by then. A file is never removed, so a retry stores
it a second time; nothing in the code or its documentation says otherwise.

## 4. Runs

| Run | Bounds | What it shows |
|---|---|---|
| `collab_reconnect` | 2 clients, one of which connects twice; 2 edits | `ServerCovers`, `MissingOnlySilent`, `ConvergesUnlessSilent` and `RoomDocSurvives` through all interleavings of editing, losing connections and unmounting; `DocSpec`: all this is a `SharedDoc`; `SyncInv` and `PageInv`, the invariants the proofs rest on |
| `collab_live` | 2 clients, one of which connects twice; 1 edit, 1 server restart, fair | a connection that lasts gets synced, edits reach the room, also one rebuilt after a restart, traffic dies down; `DocSpec` through the restart |
| `collab_convergence` | as `collab_live`, without restart | **violated**, see 6 |
| `requests_safety` | 2 clients, one with 2 connections and 2 runs, 1 restart | `OutputIsOwn`, `OneAtATime` |
| `requests_answered` | 1 client with 2 connections and 2 runs, 1 restart, fair | `RunAnswered`; `RequestsInv`, the invariant the proofs rest on |
| `requests_returned` | the same without restart | **violated**, see 6 |
| `requests_language` | 1 client, 2 languages | **violated**, see 6 |
| `execution_jobs` | 2 jobs, 1 slot, no retry, 1 restart of the worker, fair | `ContainersAccounted`, `StatusIsReal`, implements `JobQueue`; `ContainersGo`: where Docker answers, the container of a program that never ends goes away too |
| `execution_stalled` | 1 job, 2 slots, up to 2 retries (3 attempts), 1 restart, fair | late attempts change nothing, and no requeue is saved or added; `EngineInv`, the invariant the proofs rest on; implements `JobQueue` |
| `presence` | 2 clients; one makes a second state, the other two more and connects twice; fair | `OwnStateRules`: no client loses its own state or is shown with a later one than it has; `StateSeen`: the last state of each reaches the other, through the throttle and after wrong time-outs; `PresenceInv`, the invariant the proofs rest on |
| `rag_ingest` | texts of up to 4 words and 8 letters, chunk sizes up to 6, 2 calls | the chunks cover the text in order (`CoversText`), fit (`ChunksFit`) and could not be longer (`ChunksFull`); `AnsweredStored`: a call that succeeds has stored the whole text |
| `index_setup` | 2 workers on any initial database, which may be lost, come back and change what it refuses | `ServingIndexed`; `StartsAgain`: where MongoDB answers, a worker that starts on an existing collection comes to serve unless the database is lost or refuses to list collections, and one that has come to the indexes unless it is lost: no failure about an index ends a start, and nothing a failed start or another worker left behind does |

Why the bounds suffice. The interesting cases need two clients (one that
changes something, one that may miss it), a second connection of one of them
(a leaked provider, an old socket still joined, a flushed buffer), a deletion
after an insertion (two edits) and one restart. More clients add nothing but
more receivers of a relay; the proofs hold for any set of them. For presence, a state of one client
finds the timer running for a state of the other, and a third one lets a client that was
removed by mistake answer. A text of
four words has a chunk of several words, one of a single long word and one in
progress. Two workers are all a race needs, since they only meet in the
database; so are two ingests, a call and its retry. For the engine: two jobs compete for a slot, three attempts
overlap, and a maximum of two requeues exercises the boundary as well as the
code's three. Every bound is a constant (`MaxConn`, `MaxEdit`, `MaxRestart`,
`MaxClock`, `MaxRun`, `MaxStalled`, `MaxWord`, `MaxLetter`, `MaxSize`, `Call`), and the
proofs hold for all values.
`CHECK_DEADLOCK FALSE` is set in every configuration: when users and networks stop and the
bounds are used up the system rightly rests.

**Fairness.** `CollabSync`: the event loop of each browser and that of the server go
on while something waits for them, a packet or the news that the other end of a
connection is gone (transport close, ping timeout); no handler is promised a turn of
its own. Nothing is assumed of users, the network and restarts.
`ExecutionRequests`: the same, React commits, Redis answers and jobs finish,
which is what `ExecutionEngine` establishes. `ExecutionEngine`: BullMQ hands out
jobs and finds stalled ones, the lock of a process that is gone expires, and the
hang timer fires. Docker is not assumed to answer: `ContainersGo` is about the
behaviours in which it does (`DockerAnswers`: every call is answered, but
`container.wait` may last for ever). `Presence`: the event loop of a browser goes on
while something waits for it, timers and the renewal by `Awareness` included, and so
does the server's; no callback is promised a turn of its own. `IndexSetup`: the
specification has no fairness. `StartsAgain` is about the behaviours in which MongoDB,
while it can be reached, answers the calls of the worker with success or a failure
(`MongoAnswers`). The code does not see to that: `MONGODB_TIMEOUT_MS` bounds the
search for a server, and a call that was sent may be waited for without limit.

## 5. Proofs

`CollabSyncProofs` proves, for any set of clients and any bounds:

- `Typing`: `Spec => []TypeOK`.
- `Synchronisation`: `Spec => []SyncInv`. `ServerCovers` and `MissingOnlySilent`
  are not inductive: that the room is being sent what it lacks depends on the
  handshake being intact. `SyncInv` adds that a socket that is open and not
  joined has its `join-room` followed by `sync-step-1` in the channel, behind
  nothing but flushed updates, and has been sent nothing (`HandshakeInv`); that
  the send buffer holds updates of the client's own document (`BufferInv`);
  that channels carry only what their sender has (`ChannelInv`); and the order of
  sockets (`SocketsInv`). The proof has one lemma per action, over lemmas about
  appending to and taking from a channel and about `EncodeStateAsUpdate`.
- `Coverage`: `Spec => []ServerCovers`, and `OnlyGap`:
  `Spec => []MissingOnlySilent`, both from `SyncInv`.
- `Convergent`: `Spec => []ConvergesUnlessSilent`. With no packet under way, both
  inclusions of `SyncInv` are about documents alone: a client has what the room has,
  but for what is `silent` to it.
- `Survival`: `Spec => RoomDocSurvives`.

`SharedDocProofs` proves, for any set of clients and any bounds:

- `OwnTextKept`: `Spec => []PageInv`, and `SharedDocument`: `Spec => DocSpec`. The
  two lean on each other. A step of `CollabSync` is one of `SharedDoc`'s if its
  `Type` writes an insertion that is nowhere yet, which `PageInv` gives; and any
  step of `SharedDoc` keeps `KeepsOwn` (`OwnStep`), so that the steps need not be
  gone through a second time. `Type` and `ClearLocalDoc` are `Write`, a remote
  update is `Learn`, `sync-step-2` and `sync-update` at the server are `RoomLearns`,
  the last `disconnect` and a restart are `RoomCloses`; all other steps only move
  packets. That these bring nothing new (`Network`) is shown channel by channel: what a
  client or the server emits is in a document after the step.
- `NothingLost`: `Spec => Doc!LosesNothing`. What that means to a user: an open page,
  and a room that somebody is in, lose nothing in any step.

`ExecutionRequestsProofs` proves, for any clients, runs, connections and restarts:

- `RequestsTyping`: `Spec => []TypeOK`, and `OneRunOnePlace`:
  `Spec => []RequestsInv`. That a late answer never meets a newer run depends on
  where the last run is: in the send buffer, in a packet to the server, in a handler
  that adds its job or waits for it, or in a result on its way back, and in one of
  these places at most; of an older run nothing is left in any of them, and while a run is
  in one of them the page shows it as running. Steps that lose packets or whole handlers
  only take places away; the steps that move a run from one place to the next have a lemma
  each.
- `OutputOfLastRun`: `Spec => []OutputIsOwn`, and `OneRunAtATime`:
  `Spec => []OneAtATime`, both from `RequestsInv`.

`PresenceProofs` proves, for any clients, clocks and connections:

- `PresenceTyping`: `Spec => []TypeOK`, and `NothingAhead`: `Spec => []PresenceInv`.
  `OwnStateRules` is not inductive: a packet with an entry ahead of its client's clock
  would break it later. `PresenceInv` says of every table and every packet that nothing
  in it is ahead of the client it is about, that an entry that says "gone" leaves that
  client a clock to answer with, and that whoever is shown or pending has been heard of,
  so that what is sent about it has a clock.
- `OwnState`: `Spec => []OwnStateRules`, from `PresenceInv`.

`ExecutionEngineProofs` proves, for any jobs, slots, retries and restarts:

- `EngineTyping`: `Spec => []TypeOK`, and `EngineInvariance`:
  `Spec => []EngineInv`, in one induction, since each needs the other (that
  `stalls` stays in its range depends on a waiting or active job having been
  requeued at most `MaxStalled` times). `EngineInv` adds to the two properties
  that an attempt still to come is idle and has no container (`NotBegun`); that
  a result exists from the removal on and not before; that output is collected
  from a program that has ended; that the attempt a status comes from has
  returned, so that nothing changes its result; and that the current attempt of an
  active job has begun, which tells a job that failed because it hung from one that
  was not requeued as often as it may be.
- `Accounting`: `Spec => []ContainersAccounted`, and `RealStatus`:
  `Spec => []StatusIsReal`, both from `EngineInv`.
- `QueueRefinement`: `Spec => Queue!Safety`. `Add` is `JobQueue`'s `Add`; the last
  `MoveStalled` of a job and the settling of the attempt that holds the lock are
  its `Finish`; every other step leaves `Recorded` alone.

`RagChunksProofs` proves, for any text and chunk size:

- `SplitInvariance`: `Spec => [](TypeOK /\ SplitInv)`. The three properties are not
  inductive: that the next chunk will fit rests on what `current_len` counts, and
  that no chunk is empty on the lengths being positive, since `split()` returns no
  empty words.
- `NothingLost`: `Spec => []CoversText`, `Fit`: `Spec => []ChunksFit`,
  `NoneTooShort`: `Spec => []ChunksFull`, and `Typing`: `Spec => []TypeOK`.

`RagIngestProofs` proves, for any file and any number of calls:

- `Stored`: `IngestSpec => []AnsweredStored`. The invariant joins `SplitInv` with two
  parts: the chunks cover what the loop has passed (`PassedCovered`), and only a call
  all of whose documents are stored is answered "ok", none beginning before the text
  is split, after which the chunks stay as they are (`CallsInv`).

`IndexSetupProofs` proves, for any number of workers:

- `SetupInvariance`: `Spec => [](TypeOK /\ IndexInv)`. `IndexInv` says of every
  phase what the worker has passed; it is kept because a worker changes nothing of
  another's and the collection and its indexes only grow.
- `Indexed`: `Spec => []ServingIndexed`.

Assumptions: only the named ones on the constants, which TLC evaluates in the runs:
bounds are natural numbers, some of them positive, and "failed" is a status of a job
while "none", "pending" and "error" are not (`StatusAssumption`).

Only model-checked: the liveness properties (`ConnectLeadsToSync`,
`EditReachesRoom`, `EventuallyQuiet`, `RunAnswered`, `ContainersGo`, `StateSeen`,
`StartsAgain`, the part of `QueueSpec` that says that every job finishes), which
rest on fairness and are out of the prover's reach. Every invariant and every
action property of the passing runs is proved.

## 6. Where the code and its documentation differ

- **Convergence.** `README.md` promises "deterministic, conflict-free state
  resolution across clients". The server applies a `sync-step-2` without passing
  it on (`server.ts` 96-106), so what a client typed before its connection was up
  or between two connections reaches the room but not the others, until they
  reconnect or the author edits again. `MissingOnlySilent` states exactly this gap, and
  `ConvergesUnlessSilent` that there is no other; both are proved.
- **Results.** "Result returned after a code execution job completes."
  (`shared-types`, `ExecutionResult`). The result goes to the socket that asked;
  after a reconnect it is dropped, and as nothing else resets `isRunning` the page
  cannot run code again until it is reloaded. `RunAnswered` states what does hold.

- **Language.** The title of the Run button offers the shortcut for what the button
  does (`App.tsx` 118). After another language has been chosen the shortcut sends the
  code in the former one, until a run or a reconnect makes a new listener: `language`
  is missing from the dependencies of the effect (`App.tsx` 71).

## 7. Conventions

`MC*` modules give the constants their values for TLC. An operator `X_Y` is the
operator `X` with the plausible bug `Y`; nothing uses it, and PROJECT.json names
the property that fails when `Y` is made. `map` in PROJECT.json ties every
definition to the lines it models.
