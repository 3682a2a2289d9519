# HumanFileShare in TLA+

HumanFileShare is a desktop application that finds peers on the local network,
connects to the first one, and sends it the files dropped on its window. This
directory models its own logic (`src/src/**/*.rs`): the tasks, the shared state,
the channels, the pools and the retries, on top of Iroh (QUIC, mDNS, blobs),
which is the environment here.

## Inventory

| Component | State | Operations | Talks to | Hard behaviour | What makes it correct |
|---|---|---|---|---|---|
| Peer stream, `net/discovery.rs` `peer_stream` | `last_peers`, the snapshot, a channel of 128 events | one poll per second, one event per difference | reads Iroh's table; feeds the peer task of the session | the table changes between snapshot, lookup and (blocking) send | arrivals and departures alternate; stale news is corrected |
| Discovery cache, `net/discovery.rs` | `PeerCache`: peers, time, TTL | `known_peers`, `known_peers_fresh`, `peer_count`, `get_peer`, `invalidate_cache` | Iroh's table | query and store under different locks | an answer is no older than the TTL or the last invalidation |
| Session, `main.rs` | the tasks' positions, the request channel (32), the cancellation token | `run_networking`, `handle_peer_event`, `connect_to_peer`, `handle_send_request`, the file poller | everything below | four writers of the portal; two records of the peer; backpressure; shutdown | files in order, none lost, to a peer that was on screen; the portal tells the truth; no self-shutdown |
| Application state, `app/state.rs` | one `RwLock` of portal, peer, lists; a shutdown flag | one critical section per method | UI and tasks | each method is atomic, a sequence of them is not | see the session |
| Transfer manager, sender, `net/transfer.rs` | transfers map, its own pool of one connection per peer, connected peer | `send_files`, the send task, `cancel_transfer`, cleanup | Endpoint, the peer's handler | retry, lost ACK, cancel against completion, partial failure of a batch | one outcome per transfer; Completed means delivered |
| Transfer manager, receiver, `net/transfer.rs` | one handler per connection, the callback | accept, read, download, export, ACK, notify | sender, `AppState.received_files` | broken connections, restart, ACK before callback | what is acknowledged is stored, and shown if the callback is set |
| Endpoint pool, `net/endpoint.rs` | entries per peer with id, reference count, last use; a total | get, add, return, cleanup; `connect`, `get_pooled_connection`, drop, `into_inner` | Iroh connections | counts kept by hand, returns by spawned tasks | exact count, limits, no connection in use expires |
| Endpoint lifecycle and address cache, `net/endpoint.rs` | Running or Shutdown; cached `NodeAddr` with TTL | `node_addr`, invalidate, `connect`, `accept`, `shutdown` | Iroh | state read, then await, then cache write | an invalidated address comes back only through a fetch that overlapped the invalidation; shutdown completes whatever Iroh does |
| Device key, `net/endpoint.rs` | one file of 32 bytes | load or create | file system | crash between create and write; two processes | one identity for ever |
| Pairing, `net/pairing.rs` | the code with its age, `PairingState` under a lock | generate, parse; wait, connect, cancel, fail, complete | nothing in `main.rs` yet | calls of several tasks in any order; a wait sleeps on an old state; what can be typed | what is typed is read as the code it says; a cancelled session gives no peer; a wait ends |
| User interface, `ui/` | none of its own | render, drop, pick files, quit | `AppState` | rendering only | - |

The hazards this code is exposed to are listed, each at its line and with the
properties that would catch it, in `PROJECT.json`.

## How it fits together

The UI thread queues files in `AppState` and raises the shutdown flag.
`run_networking` creates the endpoint and the transfer manager and spawns five
tasks: the shutdown monitor, the peer task (reads the peer stream, records the
connected peer in `AppState` and in the transfer manager), the file poller (moves
pending files into a bounded channel), the transfer task (takes a request from
it, calls `send_files` and waits for every handle), and the receive task (sets
the callback and cleans up every minute). Each file is sent by a task of its own,
over a connection of the manager's pool or of the endpoint's.

## Modules

| Module | Models | Notes |
|---|---|---|
| `PeerStream` | the task behind `Discovery::peer_stream` and its channel | a round is `Poll`, one `AnnounceFresh`/`SkipFresh`/`AnnounceLost` per difference in any order (a hash set's), `EndRound`; `Appear`/`Vanish` are Iroh's; the reader is `Session`'s peer task |
| `Session` | `main.rs` with the operations it uses of `AppState`; extends `PeerStream` | one step per critical section: `connect_to_peer` is `ConnectApp`, `ConnectTm`, `ConnectPortal`; `handle_send_request` is `TxReceive`, `TxCheck`, `TxNoPeer` or `TxMark`, `TxChoose` (`send_files` takes the peer), `TxSendOk` or `TxSendErr` ... |
| `FileQueue` | what the application promises about dropped files, abstractly | implemented by `Session` |
| `Delivery` | what sending a file promises, abstractly | implemented by `Transfer` |
| `Transfer` | both sides of `transfer.rs`, and `Endpoint::connect` as far as a retry can tell | `send_files` file by file, the send task's steps, the per-connection handler of the peer, breaks and restarts; `download_from_ticket` beside them |
| `DiscoveryCache` | `PeerCache` and the operations of `Discovery` that use it | a call is `Begin`, then `Hit` or `Miss`, `Query`, `Store`, `Return`: the check and the store are critical sections of their own, and other threads' steps come between; `iter_peers`, `peer_count` and `has_peers` go as `known_peers` does |
| `PairingCode` | `PairingCode`: `to_compact`, `parse`, the word lists | pure operators: `Encode`, `Parse`, and the reference `Says`; a text is its fields, not its characters |
| `Pairing` | one device's `PairingSession`; extends `PairingCode` | `NewInitiator`, `NewJoiner`; `wait_for_peer` is `Call`, `ReadState`, `Wake`, `connect_to_peer` is `Call`, `WriteExchanging`; `Cancel`, `Fail`, `Complete` are one step each |
| `EndpointPool` | `ConnectionPoolInner`, `connect`, `get_pooled_connection`, `PooledConnection` | each pool operation is one step (one async mutex); a caller's steps interleave with others' |
| `DeviceKey` | `load_or_create_device_key`, `write_key_unix`, `with_config` | one step per file operation, each with its failure; `Crash` at any point; several processes |
| `Endpoint` | `node_addr`, `invalidate_node_addr_cache`, `shutdown`; extends `DeviceKey` | exists while its process runs; `Acquire` is the cache's async mutex, `CloneEndpoint` the read of the state, `Fetched` Iroh's answer |
| `SessionProofs`, `TransferProofs`, `DiscoveryCacheProofs`, `PairingProofs`, `EndpointPoolProofs`, `EndpointProofs` | theorems about the module of that name and those it extends | see below |
| `SessionQueueProofs`, `TransferRetryProofs` | more of them: the refinement of `FileQueue` and the writers of the portal; the streams of a retry | extend `SessionProofs` and `TransferProofs` |
| `MC*` | small instances for TLC | constants are in the `.cfg` files |

Correspondence of state:

* `Session`: `portal`, `appPeer`, `pending`, `shutdown` are fields of `AppState`;
  `tmPeer` is `TransferManager.connected_peer`; `peerPc`, `pollPc`, `txPc` are the
  positions of the three tasks; `sendCh` and `events` the two channels. A file is
  its number in the order of queueing, a `Vec` of files that moves as a whole is a
  set of numbers. The four-valued portal includes `Searching`, which nothing sets.
  `dest` is the peer that
  `send_files` has chosen for the request it works on. The history variables are `queued`, `handled`
  and `shown`, the peers on screen between the transfer task's check and that choice.
* `Transfer`: `entry` is the state in the transfers map, `result` the task's own
  copy of it, `report` the last one sent to the handle: three copies that the code
  updates at different moments. `tmPool` and `epPool` are the two pools' entries
  for the one peer. A stream is the transfer and attempt that opened it; `reply` is
  what its other end answered. `disk` is the peer's download directory, which alone survives
  `PeerRestarts`: for each name, the transfer whose content is there, for an export
  replaces a file of the same name. `NameOf` gives the names; `received` counts how often
  a transfer is in the list that the receiving application shows. In this module the endpoint's pool only grows:
  `connect` never returns a reference, which `EndpointPool` shows.
* `DiscoveryCache`: `table` is Iroh's table of nodes that have an address, `cached` and `age`
  the fields of `PeerCache`, the age counted in ticks up to the TTL (older makes no
  difference); `invalidate_cache` sets it to the TTL, as the code sets `last_updated` to
  more than a TTL ago. `always`, `ever`, `uptime`, `origin`, `early` and `overlap` are history,
  on which no step depends.
* `Pairing`: `code`, `state` and `age` are the session's; `typed` is what the user typed
  last, `pc` and `answer` are the callers' positions and results. `cut` is history: the
  session is cancelled since before this caller's call, and nobody connected since.
* `DeviceKey`: `file` is `device_key`: absent, short, or a whole key. `used`, the keys
  under which an endpoint was ever bound, is history.
* `Endpoint`: `state` and `cache` are the fields of the same purpose, `lock` is the mutex
  of the cache. An address is the number of changes the device's address has gone
  through, so that "older" means something; `floor` and `late` are history, and say what
  the last invalidation found.
* `EndpointPool`: an entry is its `connection_id`; `owner` says in whose `Vec` it is,
  `ref` is `ref_count`, `old` the entries idle for longer than the timeout. The
  order of a `Vec` is the order of the ids (`IdsInOrder` is proved with the rest).

## Runs

| Run | Bounds | Shows |
|---|---|---|
| `session_peers` | 2 peers, event channel of 2, request channel of 1, 1 file | A reader never hears twice of an arrival, stale news is corrected; a request's files go to a peer that was on screen between the check (`main.rs:416`) and the choice (`transfer.rs:565`), a connection can always be retracted, no task ends before Quit. One round may hold more events than the channel has room for, so the stream blocks with an old snapshot. |
| `session` | 1 peer, both channels of 1, 2 files | While one file waits in the channel, or is being sent, the other is held by the blocked poller or still pending: first-in first-out, nothing lost, every file dealt with, a refinement of `FileQueue`. "Transferring" is true; it ends, and every file is dealt with, unless a `send_files` hangs; a peer that left is released, a sole peer that stays is connected. |
| `session_portal` | 1 peer, 1 file | Violation: Connected without a peer after a loss during a transfer. |
| `transfer` | 2 transfers in 1 call or 2, 2 connections, a pool of 1; one may be cancelled, the other's ticket used elsewhere | Refinement of `Delivery`; the list of active transfers is true; who waits for an ACK has its stream with the peer, or a broken connection. |
| `transfer_retry` | 3 transfers, 2 connections, a pool of 2 | No ACK is taken for another's; a retry duplicates at most once. Three transfers are needed for one to pool the connection that two others then share. |
| `transfer_live` | 2 transfers, a pool of 1 | Calls end unless a ticket is never made; started transfers conclude; acknowledged files are shown, unless the receiver restarts or its handler was done before the callback was set. |
| `received_disk` | 2 transfers of one name | Violation: the second replaces the first on disk, and the list shows both. |
| `discovery_cache` | 1 peer, 2 callers, a TTL of 2 ticks | A fresh answer has a reason to be, direct calls go past the cache, the cache converges. The list is replaced as a whole, so one peer is enough; two callers store their queries in either order; a TTL of 1 would leave no time in which a fresh cache can age. |
| `pairing` | 2 + 2 words, 2 callers, 1 peer, a validity of 1; all of 0, 42 and 99, and a hundred variants typed | What is typed is read as the code it says; a cancelled session gives a later wait no peer; a wait ends. The variants are listed in `MCPairing`: words in any order and case or of neither list, numbers with more or fewer zeros, of 100, of 256 and more, texts that are too long, two and four fields. |
| `endpoint_pool` | 2 callers, 2 peers, pool of 3, 2 per peer, 5 calls | Exact count, both limits reached and kept, connections in use kept. The callers stop at the bound on calls, hence no deadlock check. |
| `endpoint` | 1 process, 3 keys, 2 callers, 2 address changes | One identity across crashes and failed writes; an invalidated address returns only through a fetch that overlapped the invalidation; shutdown closes the endpoint though a fetch may never be answered. Two callers suffice for any such overlap, two changes for an address older than the last one. |
| `endpoint_pool_quiet` | same as `endpoint_pool` | Violation: references that are never given back. |

A violation run checks one property that a comment of the code states;
`PROJECT.json` quotes it. The traces are short and worth reading: they are the
design questions this project raises. The models have more behaviour of this kind,
which no run singles out:

* A peer that leaves Iroh's table between the snapshot and its lookup is recorded as
  known without an event (`SkipFresh`, `discovery.rs:347`), although the stream's
  comment (line 326) promises an item "whenever peers are discovered or lost". A `Discovered` read while another peer is connected
  is discarded and never repeated (`PeerDiscovered`, `main.rs:360`). Both are premises of
  `SolePeerConnected`.
* `send_files` asks for the peer once (`TxChoose`) and goes on with it when the peer leaves and
  another is connected: `SentToShown` says that it was on screen when the request was handled, not
  that it still is. Nor need it be the one on screen when the files were dropped.
* A file whose handler is done before `receive_loop` has set the callback (`transfer.rs:480`, 828) is
  acknowledged, in the download directory, and never listed (`Unheard`).
* `create_ticket` awaits `node_addr` without a timeout (`transfer.rs:547`). If Iroh never answers,
  the call never returns, the transfer task takes no other request, and the portal stays on
  "Sending..." (`TicketHangs`, `SendHangs`).
* The retry "with a fresh connection" (`transfer.rs:718`, 725) drops the manager's own
  pool entry, and `Endpoint::connect` may then return the same connection from its pool
  (`Retry`, `ConnectPooled`). Nothing on that path looks whether a connection still works, and
  the pool's reference is never returned, so once every connection to a peer has broken, as
  when the peer restarts, the sender does not dial it again and every later transfer to it fails,
  until the sender restarts too (`BrokenPeerStaysCutOff`). A terminal state (`TransferState::is_terminal`, line 73) in
  the transfers map may be overwritten: a cancelled transfer can end as completed
  (`CancelTransfer`, `Store`, line 753). A transfer whose ticket cannot be made stays
  `Pending` in the map (`TicketFails`).
* `into_inner` leaves its entry, with its reference, in the pool (`IntoInner`). `return_connection`
  gives up on a full pool before it takes the count back (`endpoint.rs:262`), so a pool full of
  entries in use stays so when nobody uses them any more (`FullPoolStaysFull`).
* A crash between `Creates` and `Writes` leaves a short key file, and every later start
  fails (`ReadFails`) until someone removes it. A `node_addr` whose fetch overlaps
  `shutdown` stores its address after the cache was cleared, and later calls get it as a
  `Hit`, not the error of `IsShutdown`.
* A query in flight at `invalidate_cache` restores what was invalidated (`overlap`).
* `connect_to_peer` overwrites any state, a cancelled one too (`WriteExchanging`); a wait
  that sleeps times out although the session is completed meanwhile (`Wake`); the validity
  of a code starts anew where it is typed (`NewJoiner`); `Rejected` and `AlreadyCompleted`
  are never returned. `PairingCode`'s derived equality compares `created_at` too, while
  the tests (`pairing.rs:773`, 790) expect two parses of one text to be equal: the model's
  `Code` is the three parts that the hash is made of.

`MaxFiles`, `NumTransfers`, `MaxConns`, `MaxBatch`, `Cancellable`, `Downloadable`, `MaxCalls` and
`MaxMoves` bound what would otherwise grow for ever; nothing else is bounded. The
capacities (`EventCap`, `ChanCap`, `PerPeer`, `MaxSize`), `TTL` and `Validity` are the code's
parameters, set small so that they are reached.

## Fairness

Weak fairness of each task (`Stream`, `PeerTask`, `Poller`, `TransferTask`, `Call`,
`SendTask`, `Handler`): Tokio polls every ready task, and its timers fire. It
includes that an import, a dial, a download or an export ends, in success or
failure, and that the transfers of a call, seen from `Session`, end; for a broken connection that
is QUIC's idle timeout, and `Transfer` checks that it suffices once the tickets are made. Making a
ticket awaits `node_addr`, so that step is not fair: neither `Transfer`'s at `sfPc = "ticket"` nor the
return of `send_files` in `Session` (`txPc = "files"`). `CallEnds`, `FilesHandled` and `SendingEnds`
therefore have a first disjunct, `TicketHangs` or `SendHangs`: this await is what they depend on, and the
only one. `EveryTransferConcludes` speaks of started transfers, which have their ticket. The
poller's and the transfer task's fairness is weak only: their awaited conditions
(room, a request) are kept by nobody else's step. Nothing obliges the user, the
network, the initialisation, or Iroh to answer `node_addr` (`Fetch` is not fair). The
cache's mutex is Tokio's, which serves its waiters in order: strong fairness of `Acquire`.
The receiver's `Listen` and restarts are not fair. In `DiscoveryCache` and `Pairing` the clock
(`Tick`) and a thread that is in a call (`Proceed`, `CallerStep`) go on; nobody has to call,
cancel or complete.

## Proofs

The instances above are small; the theorems hold for every value of the constants, under
the assumption that the module names (`SessionAssumption`, `TransferAssumption` ...): capacities
are positive naturals, "no peer" is not a peer, and the like. All are checked by TLAPS.

`SessionProofs`, for any peers, files and capacities of the two channels:

* `TypeCorrect`, `RequestsGoToShown` (`SentToShown`), `OnlyQuitStops` (`NoSelfShutdown`) and
  `SendingIsTrue` (`SendingIsReal`). The second rests on `PeerRecords`, which says what the two
  records are at each step of the peer task's handlers (so they never hold two different peers,
  `RecordsAgree`), on `OthersLeavePeer`: only that task writes them, and on `Choosing`: between the
  check and the choice, what either record holds has been on screen. The third needs
  `NoneEnded`: while the network runs no task is over.
* `NewsAlternates` (`NoDoubleDiscovery`) and `NewsIsCorrected` (`StaleNewsCorrected`). Neither is
  inductive alone: a second `Discovered` may be appended only because the first can be
  retracted, so its `Lost` is in the channel or still to be announced. They are proved together
  with `Round`, the relation of a round's remaining news to its snapshot (`News`).
  `StreamKeeps` and `ReceiveKeeps` say that the stream's steps and the reader's keep what
  can be retracted retractable.
* `ConnectionsEnd` (`ConnectionRetractable`): the news that the reader takes from the channel is
  correctable, and stays so through the three steps in which it is recorded (`Attached`).
* `PipelineHolds` (`PipelineIsFifo`): the invariant `Holding` adds that only queued files are in
  the pipeline, and that the poller and the transfer task hold none between two requests,
  without which their next request could overwrite one. One lemma per step that moves
  files (`PipeQueue`, `PipeTake`, `PipeSend`, `PipeReceive`, `PipeDone`, `PipeDropped`).

`SessionQueueProofs`, under the same assumption:

* `SessionImplementsQueue` (`ImplementsFileQueue`): `waiting` is the union of the five places a file
  may be in, and every step is a step of `FileQueue` or leaves it alone. `QueueFiles` is a `Drop`,
  the ends of `handle_send_request` are a `Deal`, `Cancel` and `InitFails` are `Shut`, and what is
  dropped with a closed channel is a `Forget`, which is allowed only then. That a `Deal` overtakes
  nobody is `PipelineIsFifo`; that a file which moves is not also somewhere else needs the
  places to be disjoint (`Places`, from `InOrder`); `ChannelGains` and `ChannelLoses` say what
  a send and a receive do to the channel's files.
* `OnlyFinishedMisleads`: an action property. `ConnectedMeansPeer` is violated (run `session_portal`);
  this says by which write alone, so that a repair of `TxFinished` is a repair of the property.
* `PeerChangesByNone`: an action property from `PeerRecords`.

`TransferProofs`, for any number of files, batches, connections and pool entries:

* `TypeCorrect`, and `ActiveListTrue` (`ActiveIsRunning`). The latter needs `Progress`: what the
  task's own copy of the progress and its last report say at each of its steps (`Told`), and
  that the files past the cursor are untouched.
* `CompletedIsStored` (`CompletedIsExported`), if no two files have one name (`DistinctNames`;
  `received_disk` shows what happens otherwise). The invariant `Stored` follows the ACK back:
  a handler that is about to write it has exported the file of its stream.
* `TransferImplementsDelivery` (`ImplementsDelivery`), under the same condition: every step is a
  step of `Delivery` or leaves its variables alone. `Spawn` is a `Start`, `Finish` a `Conclude`,
  `Export` and `DownloadFromTicket` are `Deliver`, which needs that the peer only serves tasks that
  have started (`Requested`).

`TransferRetryProofs`, for the same constants:

* `ListedAtMostTwice` (`AtMostTwice`) and the sharper `ListedOnceUnlessRetried`. What a transfer may
  still add to the receiver's list is counted: one for each of its two attempts that has not
  opened its stream (`Unsent`) or whose stream is with the peer (`InFlight`). `Budget` says that this
  and what is listed already come to two at most. It is kept only because a stream is in one
  place at a time (`Exclusive`), or a callback would leave a copy behind, and because a stream
  with the peer has been sent (`SentOnly`), or it could be sent again. A place is a connection
  and a seat: seat 0 is its handler's, seat k the kth of its inbox, so that an accept moves
  every stream of the connection forward by one (`SeatsMove`).
* `NobodyStranded` (`NoneStranded`): a stream leaves the peer by an answer, or because its connection
  breaks (`ServedStays`). It needs `Dialled`: a connection in use has been dialled, so the one
  dialled next is not one that somebody already waits on.
* `ShownUnlessNamesCollide` (`ShownIsOnDisk`, violated by `received_disk`), under `DistinctNames`.
* `OutcomeIsFinal`: an action property; and `CopiesComeToAgree`: the three copies of a transfer's state
  agree once its task has ended, unless it was cancelled. Both rest on `Progress`.
* `BrokenPeerStaysCutOff`: an action property. `CutOff`, no working connection, an entry in the
  endpoint's pool and no dial under way, is never left, and nothing is completed in it.

`DiscoveryCacheProofs`, for any peers, callers and TTL: `TypeCorrect`, `FreshAnswers`
(`FreshIsJustified`) and `DirectAnswersHold` (`DirectAnswers`). `Sources` relates the origin of the
list to the calls in flight, `Recorded` says what a direct call may rely on at each of
its steps.

`PairingProofs`, for any word lists (without repeated words, each of three letters or more),
texts and callers: `TypeCorrect`, `ReadAsTyped` (`TypedIsRead`) and `CancelIsKept`
(`CancelHolds`). The second is about `Parse` alone: a text that says a code is at least seven
bytes long, so the cheap length test turns none away from below, and the word lists have no
word twice, so at most one code is read. The value of a number's digits is a recursive
function of which nothing needs to be known.

`EndpointPoolProofs` proves, for any sets of peers and callers, any limits and any
number of calls:

* `TypeCorrect`: `Spec => []TypeOK`,
* `Bounded`: `Spec => []PoolBounded`,
* `InUseIsKept`: `Spec => []RefsCoverHolders`,
* `FullPoolStaysFull`: an action property; in a pool full of entries in use nothing is popped,
  added or returned (`CloggedPool`).

They assume only `PoolAssumption` (finitely many callers, natural limits). None of the first
three is inductive by itself. The invariant `IInv` adds that ids are allocated
in order (so that an added entry is new, and the counter can be incremented), that a
call has a peer, that the entry of each wrapper is in the pool of that peer, and
that a count covers its wrappers. The last two need each other: an entry with a
wrapper has a positive count, so neither `get` nor `cleanup` expires it
(`HeldIsReferenced`, `Keeps`), so the wrapper's return finds it and decrements a
positive number. The proof is in two layers: one lemma per pool operation
(`GetKeeps`, `AddKeeps`, `ReturnKeeps`, `CleanupKeeps` ...) that says what it does to
the entries alone, and three about the wrappers (`NoNewHolder`, `NewHolder`,
`ReturnedKeeps`), to one of which every action of a call is reduced. TLC checks
`IInv` too.

`EndpointProofs` proves, for any processes, callers and number of address changes:

* `OneIdentity`: `Spec /\ []OneCreates => []IdentityKept`, and `SoleIdentity`, the same
  without the condition if `Proc = {Self}`;
* `EndpointTypeCorrect`: `Spec => []TypeOK`;
* `InvalidationIsKept`: `Spec => []InvalidationHolds`.

They assume that "no file", a short file and "no key" are not keys (`KeyAssumption`),
and `EndpointAssumption`. The identity rests on `FileMatches`: a process that creates the
file knows it absent, one that writes knows it short, one that binds or runs knows its
own key in it. `OneCreates` is what makes it inductive: without it the file of a process
that runs can be truncated by another that looked for it earlier. The cache rests on
`FetchesHold`: a fetch that the last invalidation did not find answers with an address
at least as new.

Every safety property that a passing run checks is proved, two of them for files of different
names (`DistinctNames`). Only model-checked: liveness (`FilesHandled`, `SendingEnds`, `LostPeerReleased`,
`SolePeerConnected`, `CallEnds`, `EveryTransferConcludes`, `AcknowledgedIsShown`, `CacheConverges`,
`WaitEnds`, `ShutdownCloses`), which is out of the prover's reach.

## Not modelled

Rendering and drag and drop (`ui/`); Iroh itself, mDNS, QUIC and the blob store,
whose effects are environment actions; the content of files, tickets and messages
(a message that does not parse is `RequestFails`); transfer speeds and byte counts;
`reset_to_idle`, the removals from `received_files` and the transfer lists of `AppState`, which
nothing in the program calls. A file name is what follows the last separator of a path; names
that are not valid there are left to the file system (`RequestFails`). `Export` is one step, and one that
fails (`RequestFails`) leaves an earlier file of that name as it was: that Iroh's export does so is assumed;
where it does not, a retry that fails half-way damages a file already listed. The exchange between two
devices that pair is a placeholder in the code.

## Plan

1. Done: `PeerStream`, `Session`, `Delivery`, `Transfer`, `EndpointPool`, `DeviceKey`, `Endpoint`,
   then `DiscoveryCache`, `PairingCode` and `Pairing`, each with its proofs: from what a user
   sees to what it rests on.
2. Done: the abstract file pipeline (`FileQueue`), `AtMostTwice` by a count of a transfer's streams,
   and the action properties of the retry, the portal and the full pool.
3. Extend: `EndpointPool` under `Endpoint`'s shutdown (`connect` asks the pool before the
   state); `Transfer` in place of the session's view of `send_files`.
4. Prove: the steps of `EndpointPool` against an abstract pool (a set of entries in use), and of
   `PeerStream` against an abstract set of known peers.
