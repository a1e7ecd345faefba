# A formal model of Tortue

Tortue is a BitTorrent client in Rust: a library (`src/tortue_lib`) and a
terminal program. The library separates a *domain* of plain state machines,
which do no input or output, from *adapters* that run them over sockets, files
and timers. This directory holds TLA+ modules for the domain of one torrent, for
the adapters that run it (loop, peer tasks, disk, trackers), for the fetching of
a magnet link's metadata and for the bytes that peers exchange, the TLC
configurations that check them, and TLAPS proofs about them. Paths below are
relative to `src/tortue_lib/src` unless they start with `src/`.

## 1. The system

| Component | State | Operations | Modules |
|---|---|---|---|
| `Swarm` (`domain/swarm.rs`) | status, the three parts below, pending upload reads, client id | `step(input) -> outputs` for connections, messages, local pieces, read answers, commands, ticks | `Swarm` |
| scheduler (`Swarm::plan`) | none of its own; a local map of holders | picks (block, peer) pairs until the slots are used | `Scheduling`, `Planner`, `PlanLoop` |
| upload queue (in `Swarm`) | `pending_reads`, `next_upload_read_id` | request, cancel, answer, cancel all of a peer or of everybody | `Uploads`, `UploadService` |
| `PeerRegistry` | peers by address, connection by peer id, addresses by piece, seeders, leechers | connected, disconnected, apply(message), queries | `PeerRegistry` |
| `BlockAssignments` | block -> peers asked for it | assign, unassign, release_peer, counts | `BlockAssignments` |
| `PieceManager` | pieces (blocks received, or complete), our bitfield | receive_block, queries | `PieceManager` |
| messages (`domain/message.rs`) | - | encode, decode, needs_fast, affects_scheduling | `Message`, `Codec` |
| `Metainfo` (`domain/torrent.rs`) | geometry, hashes, files | parse, validate | `Torrent` |
| `SwarmIO` (`adapters/swarm_io.rs`) | the `Swarm`, a command channel per peer, read tasks | restore, select loop, performs outputs | `SwarmIO` |
| `PeerIO`, connector (`adapters/peer_io.rs`) | a cancel handle per address, one task per peer | connect with retries, session, reconnect, accept, disconnect | `Sessions`; one session byte by byte: `PeerStream` |
| listener, `SwarmRegistry` | info hash -> channel | accept, read and answer a handshake, look up the swarm | the handshake: `PeerStream`; nothing starts them yet in the code |
| `DiskStorage` (`adapters/disk_storage.rs`) | a queue of 8 commands, a worker, files | write, read, flush | `DiskStorage` |
| `Metadata` (`domain/metadata.rs`) | size, pieces of the info dictionary, peers | `step(input) -> outputs` for addresses, disconnections, messages | `Metadata` |
| `MetadataIO` (`adapters/metadata_io.rs`) | the `Metadata`, a command channel per peer | select loop, performs outputs | `MetadataIO` |
| `TrackerIO` (`adapters/tracker_io.rs`) | event, backoff, interval | announce loop over HTTP or UDP | `TrackerIO` |
| `Bitfield`, `Bencode`, handshake (`domain/`) | - | operations on bytes | `Bitfield`, `Bencode`, `Codec` |
| magnet links, `.torrent` files | - | parsing of text | not modelled |

`SwarmIO::run` first feeds every piece found on disk back into the swarm
(`restore`), then loops: it waits in one `tokio::select!` for a command, tracker
addresses, an inbound connection, a peer event, a finished disk read or a timer,
calls `Swarm::step`, and performs the outputs one by one. Peer sessions, the
disk worker and the trackers are tasks of their own that talk to the loop
through bounded channels. `Swarm::step` itself runs to its end without awaiting
anything, so everything that happens inside one step is atomic; what
interleaves is the order of inputs, and the time between an output and the input
that answers it. That is where the difficulties are:

- messages of a peer that was choked, left, or was replaced in the meantime;
- two connections of one peer, over one or two addresses, in either direction;
- reads answered after they were cancelled, or shared by several requesters;
- requests that are never answered, since nothing makes them expire;
- state kept twice (received counter and blocks, bitfield and pieces, classes
  and availability, ids and addresses) and updated by different handlers;
- a scheduler whose loop works on its own copy of the holder counts;
- announces that fail, or answer with any interval, while the user and the
  download change what is to be announced;
- metadata from peers that lie, leave, or are dialled twice;
- a stream of bytes that two programs with different features cut into messages.

`PROJECT.json` lists them under "hazards", each at its line and with the
properties that cover it.

### What makes each component correct

- connections: at most one per peer id, and everything the swarm believes about
  an address dies with it;
- requests: only for blocks of the torrent, only to peers that will answer them,
  never more than `MAX_IN_FLIGHT_PER_PEER` to one, and released in time, so that
  no silent peer keeps a block from a willing one;
- pieces: a piece is hashed when it is full and not before; a wrong one is
  forgotten and nothing else is; a complete one is stored and announced once;
- loop and peer tasks: the swarm's view of its peers is that of the tasks once
  the events on their way have arrived; every task ends that nobody holds;
- disk: reads see the writes before them, what was accepted is written, a successful
  flush means that every piece is in its files, no caller waits for ever;
- scheduler: follows its policy, hands out all it can, and returns;
- uploads: only bytes of complete pieces, only while uploads are on, only to
  peers that still wait, each read answered or cancelled, the queue bounded;
- metadata: what is missing has been asked of every known peer, one honest peer
  (that numbers its extensions as we do) is enough, and what the fetcher believes
  of its tasks is true once settled;
- trackers: waits neither too short nor too long, completion is
  told in the end;
- bytes: what one end means is what the other reads (but for IPv6 addresses, see
  section 3), whatever comes in between;
  both ends judge a handshake alike; nobody is believed to have a piece he lacks.

## 2. Modules

`Swarm` is put together by extension, as the struct is from its fields:

    Torrent <- Message <- PeerRegistry \
            <- PieceManager             >- Scheduling <- Planner \
            <- BlockAssignments        /              <- PlanLoop  >- Swarm <- SwarmProperties
                                                         Uploads  /

- `Maps`: the two `HashMap` operations the models need.
- `Torrent`: the exact sizes of pieces and blocks. Bytes are abstracted to
  whether a block is `"good"` or `"bad"`; SHA-1 accepts a piece exactly when all
  its blocks are good. `GeometryAssumption` is what `Metainfo::validate` accepts
  *and* what a well-formed torrent guarantees: `validate` itself also lets
  through a list of hashes that is too long, and rejects a torrent whose last
  piece is full (`domain/torrent.rs` 74-85; `src/docs/architecture_review.md`
  section 6 says so too). A full last piece is therefore outside the model.
- `Message`: decoded messages. A `Bitfield` is the set of indices its bits name,
  spare bits included, so it may name pieces that do not exist.
- `PieceManager`, `PeerRegistry`, `BlockAssignments`, `Uploads`: one operator per
  method; those that change state define the primed variables of their part.
- `Scheduling`: the conditions and the sort key of `plan()`, shared by
  `Planner`, which states the policy as a rule for the next request, and
  `PlanLoop`, which has the loops of the code.
- `Swarm`: one action per input of `step`. `RejectMessage` to `OnPex` are the
  arms of `on_message`; each does all the arm does, `PeerRegistry::apply`
  included. `budget > 0` says that the step is inside `plan()`: no input is
  taken until the requests are sent, one `PlanPick` each. `Idle` is the guard of
  all inputs: restoring is over and no step is running.
- `UploadService`: the promise of the upload side, without reads, ids and
  sharing.
- `SwarmProperties`: the properties, and fairness.
- `Sessions`: the peer tasks and what `SwarmIO` holds of them. A task goes
  through the phases Connecting, Starting, Live and Ended. `peerCmds` and
  `peerCancels` are the two maps by address; since an address may have an old
  task that is ending and a new one, tasks carry a number here and the maps say
  whose channel end they hold. `IsCancelled` covers `disconnect` as well as a
  cancel sender that is dropped because another one takes its place.
- `SwarmIO`: `Swarm` and `Sessions` composed. Each branch of the `select!` is an
  action that takes an input, makes the step of `Swarm`, and puts its outputs in
  `todo`; each arm of `handle_output` is an action that performs one. What an
  output gives rise to (a failed send, the step after a disconnection) goes to
  `nested` and comes first, as on the stack in the code. Peer tasks step in
  between.
- `SwarmIOProperties`: its properties and fairness.
- `DiskStorage`: callers, queue, worker and files. A byte is its position in the
  torrent, so that a misplaced one shows.
- `DiskStorageProperties`: its properties and fairness.
- `Metadata`: one action per input of `Metadata::step`. What arrived for a piece
  is good or bad. `asked` remembers which pieces have been asked of whom.
- `MetadataIO`: `Metadata` and `Sessions` composed as `run()` does: it dials, takes
  events, performs requests with `try_send`, and returns with the dictionary.
  The remote peers are there too: an honest one answers what it is asked for.
- `FetchProperties`: properties and fairness of both.
- `TrackerIO`: the loop of one tracker task beside the statistics that `SwarmIO`
  publishes and the channel of addresses. Seconds are values: which wait was
  chosen is modelled, that time passes is not.
- `TrackerProperties`: its properties and fairness.
- `Bitfield`, `Bencode`, `Codec`: the conversions, on sequences of bytes, one
  operator per function. Recursion is written as recursive functions: the digits
  of a number, the value of digits, and the calls of the decoder, one within
  another, by their depth (`Calls`). Bits are taken by division.
- `PeerStream`: two ends and the bytes between them, from the dialling end's
  handshake to the last frame. The dialling end may be another program: it is
  then free in its features and may send frames this program never sends.
- `PeerStreamProperties`: its properties.
- `MCSwarm`, `MCPlanLoop`, `MCSwarmIO`, `MCDiskStorage`, `MCFetch`, `MCTracker`,
  `MCPeerStream`: instances for TLC.
- `TorrentProofs`, `SwarmProofs`, `PlanLoopProofs`, `SessionProofs`,
  `SwarmIOProofs`, `DiskProofs`, `BootstrapProofs` (metadata and trackers, where a
  download starts from), `PeerStreamProofs`: section 4.

Choices of the model:

- `out` is the *set* of outputs of the last action. Within one step the code's
  order is fixed by the kind of output: what is cancelled or disconnected
  because of an old connection precedes what is sent to the new one, and a
  piece is announced, written, and only then the download declared complete.
- The choices that the iteration order of a `HashMap` makes are
  nondeterministic: which of several peers is asked (`PlanPick`), and which of
  several equal blocks comes first in the policy. In `PlanLoop` equal blocks
  keep the order in which they were listed, as the stable sort does.
- Byte counters, `peer_interested`, rates and snapshots are shown to the user
  and decide nothing; they are left out. Message kinds whose handler changes
  nothing the model keeps are one action, `OnQuiet`.
- `receive_block` returning an error and returning no completed piece have the
  same effect in `on_message_piece`, and are one case.
- `LocalPiece` receives the leading blocks that the file covers in one closed
  form: blocks arrive in order and only the last can complete the piece.
- Both connection directions are modelled, as `Swarm` supports them. Today
  `application/download.rs` 81-83 gives `SwarmIO` an inbound channel nobody
  sends on, so in the shipped program all connections are outbound; the
  outbound-only behaviours are among those checked.
- A remote with our own peer id is refused by `peer_io.rs` (392, 504) before the
  swarm sees it, hence `ClientId \notin PeerId`.
- An address may connect again without a disconnection: `PeerIO` reconnects
  within one task (`peer_io.rs` 300-334) and sends `Disconnected` only when the
  task ends.
- In `SwarmIO`, a message on its way to a peer is delivered or fails; what
  waits in a peer's own channel is not kept. A send fails when there is no task,
  or when the task does not take it for 20 seconds, so it may fail at any time.
  A session looks at its cancellation before all else each time it is polled
  (`peer_io.rs` 181-184); one that comes while it is being polled is seen the next
  time only. A task may thus still report a connection after it was told to stop:
  `Start` has no guard against that.
- A task in the phase Connecting or Starting holds its command channel without
  reading it. A `Broadcast` reaches it there, so a `Have` may be queued before
  the `Bitfield` that should come first. `PeerStream` has that order: such `Have`s
  wait in `early`, and `WriteEarly` writes them before the bitfield goes out.
- `Return` stands for every way out of `run`: the handle or the trackers are gone
  (the loop ends when the last tracker task has, even while peers are
  connected), or the store failed in the middle of the outputs.
- `DiskStorage` assumes nobody else touches the files. tokio's `File` hands a
  write to another thread; its failure is reported by the next write or flush of
  that file, and a read in between returns what is there. `broken` are the files
  with such a failure. Any port user is allowed that writes each piece once and
  reads pieces it has written; `SwarmIO` is one, and flushes only at the end. Once
  the owner has returned the program may end (`Exit`), and what is queued is lost;
  a write that is cut off then is one of those that stop short.
- In `PeerStream`, a read takes place when all its bytes are there. Bytes that
  arrive one by one need no steps: `read_exact` keeps what it has read, and
  nothing cancels it but the end of the session (`peer_io.rs` 218-245: the future
  of `read_peer_messages` lives as long as the session). The module has the first
  session of a task: what a reconnection finds in the command channel is left out,
  but for the `Have`s. A keepalive is a message like others, sent once the bitfield is
  (it takes 120 seconds).
- Numbers in `Codec` are below 2^31 (TLC's integers), so the overflow of longer ones
  is left out, and so is that deep nesting exhausts the stack of the decoder; names
  of extensions are ASCII, and which error refuses an input is left out. `as usize` of a negative
  number is `Huge`: like the real value it is larger than any piece or size.
- In `MetadataIO`, how full a channel is, is not modelled: any request may be lost
  to a full one. `spoilt` remembers whether one to an honest peer was, since
  nothing asks again.
- `TrackerIO` abstracts answers to whether they parse and what they say.
  `accepted` remembers the events a tracker took. `fetch_metadata` announces with
  fixed statistics (`magnet.rs` 19-24), which is the case that nothing is
  published.
- `SwarmHandle` can set `UploadOnly` (pause), `Active` (resume) and `Stopped`
  (shutdown); `DownloadOnly` exists in the domain and is checked as well.

Bounds in guards: `MaxReads` (upload reads started in a behaviour), `MaxSessions`
(tasks spawned) and `MaxCalls` (calls of the disk). Read ids, task numbers and
call numbers grow by one and are compared for equality only; two reads are
enough for a stale answer of the first to meet the second, two tasks for the end
of one to meet the start of another. `Receivable` keeps messages that would
exceed `MaxReads` out of the events. `MaxEvents` and `CommandCapacity` are the
capacities of the channels (1024 and 8 in the program), set to 1 or 2, and so is
`MaxFound` (128 in the program): a full channel is then a common case. `MaxSaid`
is the number of frames an end sends, three and two: each frame meets each other
kind before and after it. `RawFrames`, `Greetings` and `Fetched` are the frames
of another program, the pairs of handshakes and the pieces completed meanwhile:
pieces 0 and 8 of 9 are the first bit of either byte, the second of which has
spare bits. All the rest is finite by nature once the constants are.

## 3. Runs

Each run takes the inputs its question needs; what a run leaves out is covered
by another.

| Run | Instance | Shows |
|---|---|---|
| `swarm_connections` | 2 addresses, 2 peer ids (one on each side of ours), both directions; a piece on disk and one to fetch; every kind of message | types; one connection per id; nothing is known of unregistered addresses; requests in flight are answerable; classes agree with availability |
| `swarm_download` | 2 pieces (2 blocks; 1 short block), 2 peers, 2 requests per peer, good and bad data, choke, reject, pause | the in-flight limit; counters, bitfield, resets, storing and announcing agree; the planner leaves no willing peer idle |
| `swarm_uploads` | 1 complete piece, overlapping, unaligned and invalid ranges, a queue of 2, 3 reads, status changes | refinement of `UploadService`; queue bound; no leaked read; every wait ends |
| `swarm_progress` | one honest peer, one that may do anything but lie about data | the download completes |
| `plan_loop` | every state of 2 peers and 2 pieces the swarm can be in, 520 000 states | the loop returns, keeps its copy of the counts right and follows the policy |
| `io_sessions` | a dialled address whose remote changes its id, an inbound connection of the same peer from another address, the last block, or a seed that is asked and asked no more; status changes, 2 tasks, 2 reads; 2.1 million states | a registered peer has a channel, and so has every peer with a request in flight; once settled, swarm and tasks agree; pending reads and read tasks correspond |
| `io_tasks` | a dialled address with the last block, dialled again and again, 3 tasks: the end of the first takes the channel of the second, whose cancel handle the third overwrites; returns between the outputs of a step | tasks that were cancelled, and tasks that lost their channel, end |
| `disk` | 2 pieces over files of 1, 0 and 2 bytes, 4 calls, a queue of 2 | reads see writes; flush means stored; stored pieces stay; calls return; accepted writes are made while the owner is there |
| `fetch` | 2 pieces, an honest peer and one that lies about the size or a piece, changes its id for `ut_metadata`, refuses and leaves, 2 tasks, both addresses discovered again and again; 365 000 states | missing pieces are asked of every known peer; fetcher and tasks agree once settled; one honest peer is enough if its id for `ut_metadata` is ours |
| `announce` | HTTP or UDP, answers that parse with and without an interval and ones that do not, a channel of 2 | waits bounded; completion is told |
| `wire` | 4 pairs of greetings, 9 pieces, 16 messages, 8 foreign frames, pieces completed before and after the bitfield; 2 million states | messages arrive as sent, but for IPv6 addresses; handshakes agree; what is known of pieces is true, and complete in the end |
| `violation_reconnect` | the connections of `io_sessions`, without messages | see findings |

Two or three peers suffice because every rule relates at most two of them (the
old and the new connection, the holder and the candidate, two requesters of a
range), and the third is needed only where two choked holders must meet one
unchoked peer. Two pieces, one with a short last block, give partial, complete
and untouched pieces at the same time. Peer ids lie on both sides of
`ClientId`, so that either direction is the preferred one.

In `fetch` a piece index that never existed may be refused and asked again, as the
code does. `plan_loop` and `disk` set `CHECK_DEADLOCK FALSE`: `plan()` returns and then
stops, and so does the disk worker when its owner has left; that nobody is stuck
before is `Returns` and `CallsReturn`. All other runs check for deadlock.

The properties of `SwarmIO` hold at points of rest (`Selecting`: the loop waits;
`Quiet`: besides, no event is on its way and no task about to end). In between
they need not: an address may be registered whose task has ended, until the
event arrives.

`TickFindsWork` and `PlanExhausts` speak of states in which no choked peer holds
a block (`HoldersUnchoked`); others are reached, since a peer in `swarm_download`
does send Allowed Fast. In those both fail, for a reason worth knowing: the budget of `plan()` counts the free slots of unchoked
peers, but a request to a choked peer that allowed the piece spends one too, so
one call may stop with an unchoked slot free. The next tick makes up for it.

### Fairness

`FairSpec` assumes: restoring goes on and a step once begun ends (weak fairness
of `LocalPiece`, `PlanPick`: both are straight-line code); the block timer is
served (strong fairness of `TickBlock`: the timer fires for ever, and `select!`
polls its branches in random order, so no branch that is ready again and again
is passed over for ever); the disk answers the reads it was asked for (same
branch argument); and an *honest* peer answers each request it has. The
hypothesis of `DownloadCompletes` adds that this peer has every piece and, from
some time on, stays connected and unchoked, and that downloading is on. Nothing
is assumed of other peers. Wrong data is excluded from that run: Tortue does not
ban a peer that sends it, so a peer that sends a wrong block each round can
prevent completion for ever. So is Allowed Fast: a choked peer that allowed a
piece, is asked for it and chokes again, each time, takes the budget of every
call of `plan()` away from the honest one.

`IOFairSpec` assumes that the loop and the outputs go on; that a branch of a
`select!` that is ready again and again is polled (strong fairness of `TakeEvent`);
that a task told to stop sees it, and one that is in a session again and again sees
that its channel is gone (strong fairness of `Stop`); that a task gets its event into
a channel that is full now and then (of `Finish`: tokio's channels serve their
senders in order); and that an attempt to connect ends, after `MAX_ATTEMPTS` at the
latest. The first message of a session is written or it is not, within
`CONNECT_TIMEOUT`: `Onward` is `Start` *or* `Break` then, and nothing says which. A
task is in one phase at a time, so the actions under one fairness condition do not
stand in for each other. Nothing is assumed of
the user, and of peers only that a later write to one ends: a task whose write to a
peer stalls does not look at its command channel meanwhile (`peer_io.rs` 266 has no
timeout), though it still sees a cancellation. `StoppedTasksEnd` holds whatever the
remote does. `LostTasksEnd` has a hypothesis, `LetIn`: a remote that lets the task
connect again and again lets it into a session again and again. A remote that
resets every connection before the first message is out (`peer_io.rs` 195-200) keeps
a task without a channel alive: each attempt that succeeds starts the count of
attempts anew, and only a session looks at the channel. Both are stated as "again
and again there is none": what is cancelled or lost stays so until it is gone.

`FairDiskSpec` assumes that the worker goes on, and that senders are let in; `Exit`
may come as soon as the owner has returned, and need not.

`FetchFairSpec` assumes that outputs are performed, that the loop takes an event
when there is one again and again (its `select!` polls in random order), and that
an honest peer greets and answers for each piece, however often its channel of
events is full in between. The hypothesis of `FetchCompletes` is that from some
time on an honest peer stays connected to a task that has its channel, and that
this peer's id for `ut_metadata` is ours (see the differences below); the
conclusion exempts behaviours in which a wrong size or piece came, or a request
to an honest peer was lost: the first size counts for ever (`metadata.rs` 63), a
peer that lies is never dropped, and a lost request is not repeated.

`TrackerFairSpec` assumes that the task wakes up, that the channel is drained,
that an HTTP request ends, by the client's timeout of 10 seconds at the latest
(`tracker_io.rs` 168), and that a tracker asked again and again answers properly
at some time. Of UDP nothing is assumed: `socket.recv` has no timeout
(`tracker_io.rs` 316, 328), so one lost datagram ends the announcing.

### Findings

`violation_reconnect`. An outbound task whose session breaks connects again and
reports `Connected` once more, with no `Disconnected` in between (`peer_io.rs`
314-330). The swarm still has that peer id, at that address and with the same
direction, so it takes the new session for a duplicate and answers
`DisconnectPeer` of that very address: the active peer, its requests and its task
go. A reconnection thus never succeeds, whereas `src/docs/plan_peer_listener.md`
line 102 wants a rejected connection to leave the active peer and its assignments
alone.

Differences met while modelling, each stated where the model keeps to the code,
and without a run of its own:

- The table in `swarm.rs` 342-349 says a peer without a connection is accepted. If
  an address is registered again under another peer id without a disconnection (a
  reconnect to an address where the remote has a new id), `connected`
  (`peer_registry.rs` 47) overwrites the address but leaves the old id in `by_id`.
  When the first peer then comes back over another address it is compared with
  that stale entry and rejected. `IdsLeadBack` in `SwarmProofs` is the half that
  holds.
- The comment in `swarm.rs` 630-631 says a block cannot usefully have more holders
  than there are unchoked peers. Choked peers hold blocks as well when they sent
  Allowed Fast; if they stay silent, the cap keeps a willing unchoked peer from
  being asked. Without Allowed Fast, `TickFindsWork` holds.
- `parse_socket_addrs` (`message.rs` 541-569) takes every list whose length is a
  multiple of 6 for IPv4 addresses (543); the comment on the other branch, "IPv6: 16
  bytes address + 2 bytes port" (555), describes lists such as
  `UtPexMessage::encode` writes under `added6` (524-527), but a multiple of 18 is a
  multiple of 6, so that branch is never taken. Each IPv6 address that this program
  sends is read by this program as three IPv4 addresses made of its bytes.
  `tracker_io.rs` 258 and 411 read the answers of trackers with the same function.
  `AsRead` is what is made of a list, `wire` has such lists, and `PexIsReadOfFour`
  proves that exactly the lists of IPv4 addresses are read as they were told.
- By BEP 10 each end of a connection chooses the ids under which it wants to be sent
  extension messages, and states them in its extension handshake; `Swarm` answers
  accordingly (`swarm.rs` 559-573). `Metadata` compares the id of what arrives with
  the id the *sender* has chosen (`metadata.rs` 72): pieces from an honest peer whose
  `ut_metadata` is not 1, as ours is, are ignored, and the fetch waits for ever,
  although `src/README.md` lines 31-32 list BEP 10 and BEP 9 as supported.
  `FetchCompletes` therefore has the hypothesis that the id is ours.
- `fetch_metadata` gives the bytes of the info dictionary to a parser that expects
  the whole `.torrent` (`magnet.rs` 36, `torrent.rs` 117-122), so a fetch that
  completes is still refused; `src/docs/architecture_review.md` 154-158 knows of
  it. `MetadataIO` ends where `run()` returns.

Known to the authors and therefore not a finding: events are keyed by address,
so the late `Disconnected` of an old task removes the channel of a new task at
the same address (`src/docs/plan_peer_listener.md` line 105 asks for a
connection number). `SwarmAndTasksAgree` and `LostTasksEnd` show that even then
the swarm and the tasks come to agree again, at the price of the new connection.
Section 8 of `src/docs/architecture_review.md` (lines 170-174) asks that `Stopped` be
announced at the real stop, after the completion. The code, and the model,
announce it whenever uploads are off (`tracker_io.rs` 110), although the swarm goes
on and may be resumed, and `Completed` after it; no property here claims an
order. Likewise line 55 of the same document asks for the disk's queue to be
drained when `SwarmIO` returns without `Completed`; that it is not is `Exit`, and
`AcceptedIsWritten` claims nothing beyond that point.

## 4. Proofs

TLC checks the instances above; the following is proved by TLAPS for all values
of the constants that satisfy the named assumptions (`TorrentAssumption`,
`MessageAssumption`, `SwarmAssumption` and those of the other parts).

- `TorrentProofs`: `BlocksTilePiece`: every byte of a piece is in exactly one
  block, whatever the sizes. `BlockIndex` therefore finds the block a range came
  from, which the download proofs use. The module also has `Induction`, on sets of
  numbers. The library's induction theorems are about operators and no installed
  prover can instantiate them; this one comes from the well-foundedness of finite
  sets under inclusion, and takes the set of the numbers a property holds of.
- `SwarmProofs`, about `Swarm`:
  - connections: `TypeCorrect`, `OneConnection`, `KnownPeers`, `Classes`;
  - downloads: `Answerable`, `InFlightLimit`, `NothingStuck`, `ExactBitfield`,
    `StoredOnce` and `MismatchForgets` (action properties: when a piece is written
    and announced, and when blocks are forgotten);
  - scheduling: `TickFinds`, `PlanHandsOut`;
  - uploads: `ReadsWanted`, `UploadLimit`, `ReadsAccounted`, and
    `UploadRefinement`: `Swarm` implements `UploadService`.
- `PlanLoopProofs`, about the loops of `plan()`: `CountsInStep`,
  `LoopsImplementRule` (they implement `Planner`), and `SwarmAdmits`, which ties
  the two to `Swarm`: every state of the swarm is one `plan()` may be called in;
  `CallHasList`: in each of them there is a list the sort can give.
- `SessionProofs`: what each operation of the peer tasks changes. Lemmas only, for
  the two compositions that run such tasks.
- `SwarmIOProofs`, about `SwarmIO` with its tasks, events and reads:
  `ChannelsAreHeld`, `ReadsMatch`, `TasksAgree`; and `SwarmInside`: each step of the
  loop is one step of `Swarm` or none, so what `SwarmProofs` shows of the swarm
  alone holds of the one in the loop.
- `BootstrapProofs`: `FetcherAsks`: `MissingIsAsked` for every set of peers, size
  and message; `FetcherAgrees`, about `MetadataIO` with its tasks; `FetcherInside`:
  each step of its loop is one input of `Metadata` or none; `TrackerWaits`.
- `PeerStreamProofs`, about a connection byte by byte: `HandshakeReads` and
  `SayableMeans` (a handshake, and every message this program sends, is decoded
  to what it was encoded from, but for IPv6 addresses, which become what `AsRead`
  says), `PexIsReadOfFour` (a peer exchange is read as it was told exactly when all
  its addresses are IPv4), `StreamHolds` (the inductive invariant), and from it
  `MessagesArrive`, `PeersAgree` and `PiecesAreKnown`: `ReceivedAsSent`, `HandshakesAgree` and `AvailabilityArrives` for every number of pieces, all
  messages that may be sent and all frames of another program.
- `DiskProofs`: `FlushIsHonest` (a successful flush means that every accepted piece
  is in its files), `StoredPiecesStay` (no write touches a piece in place) and
  `ReadsAreRight` (`ReadsSeeWrites`: an accepted piece reads as its bytes), for
  every layout of pieces over files, empty ones included.

The argument. `Next` has some thirty disjuncts, but most touch little. *Footprint*
lemmas say, for each part of the state, which few ways it can change
(`RegistryFootprint`: not at all, by `apply`, by a disconnection, by an accepted
connection; likewise for pieces, requests, uploads, budget and status). Each
invariant is then proved by cases over the footprint of the parts it mentions.

What had to be strengthened to be inductive:

- `TypeOK` needs that requests in flight are for blocks (`BlocksAssigned`): a
  `RejectRequest` names any range a peer likes.
- `OneConnectionPerPeerId` is not inductive: it needs that `by_id` leads back to
  each registered address (`IdsLeadBack`). The converse cannot be had: `by_id`
  may contain ids that lead nowhere (section 3).
- `InFlightBounded` needs that the requests in flight are finitely many.
- `NoPieceStuck` and `BitfieldIsExact` need each other, and that the pieces not
  restored yet are blank (`PieceInv`), since `restore` overwrites them.
- `TickFindsWork` and `PlanExhausts` have a hypothesis, `HoldersUnchoked`: no
  choked peer holds a block. Without it both are false, because the budget of
  `plan()` and its cap on holders count unchoked peers only (section 3). The proof
  of the first counts the holders of a block among the unchoked peers
  (`HoldersFit`), that of the second shows that each request takes exactly one of
  the slots the budget counted (`PickTakesSlot`).
- `PendingReadsAreWanted` needs that nothing is pending until restoring is over,
  and `UploadsBounded` that pending ranges come from requests, finitely many.
- The refinement of `UploadService` maps `waiting` to the pairs in `pending_reads`
  and `served` to the `Piece` messages in `out`; `PendingReadsAreWanted` gives the
  step of `UploadReadCompleted`.
- `ImplementsPlanner` maps the rule's budget to `left`, once nothing can be asked
  of anybody to 0. The loop goes over its list once per depth and never looks back,
  whereas the rule looks at every block for every request. What relates them is
  `Passed`: a block that can still be asked for has more holders than the depth
  of the pass, or as many and its turn to come. It holds because a request only
  takes slots and adds holders (`AskCounts`: `Plannable` never grows), and it gives
  that the block at hand comes first by the rule (`TurnIsNext`, with the order of
  the keys) and that nothing is left when a sweep is over (`SweptAll`). `plan()`
  therefore sweeps once: a second sweep, which the code allows, finds nothing.
- The three properties of `SwarmIO` speak of points of rest, and `IOInv` says what
  they become in between, while outputs wait in `todo` and `nested`. The tasks
  (`SwarmTasks`): a channel leads to a task of its address, or the end of one is
  on its way. `PeersHaveChannels`: a registered peer has a channel, or an output
  that sends to it or disconnects it is waiting. `LivePeersKnown`: the live task
  of a channel, alone at its address and with no end reported, is known to the
  swarm, or its `Connected` is on its way, or it is to be disconnected.
  `OutputsOK`: outputs that wait are addressed to known addresses. `ReadsOK`:
  running reads have distinct ids, which the swarm gave out. `ReadsHeld`: pending
  reads and handles agree up to the outputs still to be performed. TLC found
  `IOInv` to hold on an instance with reads and on one with crossing connections
  before it was proved.
- `FetcherAndTasksAgree` needs `FetchTaskInv`: every task is at an address that was
  dialled, and a peer the fetcher knows has a task at its address or the end of
  one is on its way (a task is lost when its address is dialled again).
- `FlushMeansStored` (`DiskInv`) needs that every accepted piece is in place or in
  the queue while no file is broken (`StoredInv`), that behind a flush only reads
  are queued (`QueueInv`), and for this that one caller at most is not a read
  (`CallInv`). What a write puts where is `WriteMakesRight`, what it leaves alone
  `WriteKeepsRight`. That the offsets are the sums of the lengths before them
  (`OffsetsAdd`) is an induction over the files: a recursive function is a
  `CHOOSE`, and `OffsetsExist` builds what it chooses, file by file.
- `ReadsSeeWrites` (`ReadInv`) needs that no write of a piece is behind a read of
  it in the queue, and therefore that a read is called for only once the write
  is queued. What is read of a piece in place is `ReadsInPlace`: the sequence
  gathered from the first files is their share of the range, in order
  (`GatherRule`, by induction over the files).
- `MissingIsAsked` (`FetchInv`) needs that nobody is known before a size is: the
  peers known already would otherwise have to be asked when it comes.
- The properties of `PeerStream` need to know what is on the way (`StreamInv`): the
  bytes to an end that has not greeted are the other's handshake and the frames
  sent since, and to one that has, the frames it has not read, from the start of
  one or, between the two reads of a frame, of its payload (`WireAt`); what an
  end sends begins with its extensions (`FirstAt`); its bitfield is that of the
  pieces it has, what it says of them before the bitfield is true, and from the
  bitfield on its messages and the `Have`s that wait in `early` add up to them
  (`PiecesAt`, with `Introduced`).
  An action either reads a frame, sends one, or gives up, and there is one lemma
  for each of these (`ReadingKeeps`, `SendKeeps`, `CloseKeeps`).

The codecs. A step keeps `WireAt` only because a frame is read back as what it was
made from. `Holds(s, i, w)` says that the bytes `w` are in `s` from place `i` on;
each reader is shown to return what was written at its place, whatever is before
and after: numbers of four bytes (`ReadU32Reads`), integers (`ParseIntReads`: the
decimal digits of a number, built by dividing, are read as that number), byte
strings (`ParseBytesReads`), then dictionaries entry by entry (`ReadEntry`,
`ReadsDict`) with the depth of calls they take, and `DecodeWhole` shows that the
bound on that depth, which depends on the input's length, is enough. The
order of keys in a dictionary is a `CHOOSE`; `TwoKeys` and `ThreeKeys` show that for
the keys in use there is exactly one. Recursive functions are a `CHOOSE` too, and
for each that there is one is shown by induction (`FlattenExists`, `DigitsExists`,
`NumberExists`, `CallsExist`, `HoldingExists`). The assumption is
`StreamAssumption`: what the ends are given to send is made of the messages of
this program, with numbers of the model's width, blocks as long as their range
says, peer exchanges that name somebody, by addresses of IPv4 and IPv6, and a length
that fits the header of a frame.

`CallSpec` in `PlanLoop`, which the theorems about `plan()` start from, allows every
state with `SwarmOK`, and as `blocks` the list of the wanted blocks in the order of
their keys. That there is one, for every torrent and set of peers, is `CallHasList`
(no two blocks have the same key, and a finite set in line has a sorted list: an
induction on its size); `SwarmAdmits` is that `SwarmOK` is what `Swarm` reaches.

Every safety property of the runs, invariant or action property, is stated by one of
these theorems. Only model-checked is liveness, which is out of the prover's reach
(`DownloadCompletes`, `WaitsEnd`, `Returns`, `StoppedTasksEnd`, `LostTasksEnd`, `CallsReturn`,
`AcceptedIsWritten`, `FetchCompletes`, `CompletionIsAnnounced`). Nor is it proved what
the decoder makes of *every* input: the theorems speak of what this program
writes, and of foreign frames only that they come to a message or an error
(`DecodesOrRefuses`).

## 5. Not modelled

- Reading `.torrent` files and magnet links: straight-line parsing of text over
  `Bencode`, without state. What `Metainfo::validate` accepts is
  `GeometryAssumption`.
- The bytes of tracker requests and answers: built and parsed field by field at
  fixed places; `TrackerIO` keeps whether an answer parses.
- `SwarmRegistry` and the sockets of the listener: a map behind a lock and an accept
  loop that nothing in the repository starts. The handshake of `handle_peer` is in
  `PeerStream`, and what `SwarmIO` does with an inbound peer in `SwarmIO`.
- Opening files, building paths (`DiskStorage::create_files`): done once, before
  anything runs.
- `Bitfield::unset_bit`, `has_bit`, `set_all`, `unset_all` and `completion_ratio`:
  only tests call them.
- `application/download.rs`, `errors.rs`, `lib.rs` and the terminal program: wiring
  and display. The initial statistics and the capacities of channels come from
  there.
- The passage of time: timers are steps that may happen at any moment.
