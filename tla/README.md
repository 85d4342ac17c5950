# AMOGH: a verification project

TLA+ models of the HFT mesh engine in this repository, checked with TLC on
small instances and, where a statement matters for every size, proved with
TLAPS.  Paths below are relative to `src/`.

- [The system](#the-system): its parts, their state, what they should promise
- [The modules](#the-modules): how each corresponds to the code
- [The runs](#the-runs): what each one checks, its bounds, what it shows
- [Fairness](#fairness)
- [The proofs](#the-proofs)
- [What the checks found](#what-the-checks-found)
- [What is not modelled](#what-is-not-modelled)

To repeat a run: `tlc -config MCPeerTable_accept.cfg MCPeerTable`.  To repeat the
proofs: `tlapm SPSCRingProofs.tla`, and likewise for the other seven.

## The system

One process, `hft` (`main.cpp`), trades.  Two feed threads receive ticks from
exchanges and push them into a ring; a router thread pops them into two order
books, whose nodes come from a fixed pool, and hands feature vectors to an ML
server through a mapped file, from which predictions come back.  When a prediction signals an
opportunity the engine either trades alone or asks a peer firm, over a mesh of
TCP connections, to execute one leg; either way a record goes to a ledger file.
Beside it stand the ML server (`ml_server.py`, Python) and a pair of programs,
`scp_sender` and `scp_receiver`, that carry such messages over UDP, hidden among decoys.

| Component | State it keeps | Operations | Hard behaviour | What should be true |
|---|---|---|---|---|
| Tick ring, `ring_buffer.hpp` | two atomic indices, an array of 80-byte slots | `push`, `pop`, `empty`, `size` | feed and router run at once, loads may be stale | FIFO, nothing lost or torn, no slot written while read |
| Mesh: peer table, `mesh_node.hpp` | `peer_fds_`, `capability_table_`, epoll set | accept, `connectToPeer`, `handleRead`, `handleDisconnect`, the heartbeat sweep, `selectBestPeer` | four threads; descriptors are reused; peers stop, reset, fall silent | registrations are true, available firms can be reached, silent and ended ones go |
| Delegation, `main.cpp` and `mesh_node.hpp` | `pending_requests_`, id counters, the ledger file | `onMLSignal`, `sendExecRequest`, `handleExecConfirm`, `checkPendingTimeouts`, `writeLedger` | an answer races its own time limit and its own bookkeeping; requests go to different peers; the process ends with some under way | a request is booked at most once, or given up, and never neither |
| Mesh: threads, `mesh_node.hpp` | `running_`, the listening and epoll descriptors, three threads | `start`, `stop`, event, heartbeat and capability loops | closing descriptors in use; a send after a reset | a stopped node runs nothing; stop ends |
| Memory pool, `memory_pool.hpp` | free list inside the slots | `alloc`, `free` | exhaustion, double free | a slot has one owner |
| Order book, `order_book.hpp` | level maps, id map, mid price history | `addOrder`, `cancelOrder`, `executeOrder`, snapshots | ids used twice, empty levels, pool exhausted midway | level totals equal the sum of their orders |
| Feed, `ws_feed.hpp` | a socket, a TLS session, `running_` | `start`, `stop`, connect, read, clean up | failing halfway, reconnecting, stopping while a read blocks | every attempt starts clean; nothing is freed under its thread; an ended connection is given up |
| Engine, `main.cpp` | `g_running`, two books, `order_counter` | `init`, `run`, `stop`, `processTick` | a signal at any moment, the order of stopping | it stops, and nothing runs afterwards |
| ML bridge, `main.cpp`, `features.py`, `ml_server.py` | two files, the stamp last read | copy a vector in place, poll it; write a prediction aside and rename it; read it | two processes without a lock, either may die and come back | predictions are whole; vectors are taken once, in order, and are taken |
| ML server, `ml_server.py` | `_ws_clients`, the latest prediction, asyncio tasks | inference loop, accept, disconnect, broadcast | a client that goes during a broadcast | the broadcast goes on |
| SCP link, `scp_*.cpp`, `scp_common.h` | `real_seq`, `running`, a socket; the receiver's statistics | send a message, send a decoy, filter, act | loss, repetition, reordering, damage, restarts; two threads and one socket | what is acted on was sent; what arrives whole is acted on; the numbers add up |

How they meet.  The feeds call `push` from their own threads, the router
calls `pop` in a busy loop.  `processTick` runs on the router thread.
`onMLSignal` runs there too and calls `sendExecRequest`, which takes the mesh's locks;
the answer comes back on the mesh's event loop thread and calls
`handleExecConfirm`, which writes the same ledger file.  The mesh's
threads share `peer_fds_` and `capability_table_` under `peers_mu_` and the
pending requests under `pending_mu_`.  `stop()` joins feeds and mesh one after another, on the main thread.  Everything in the process, feeds and mapped files
included, draws on one table of descriptors.

## The modules

| Module | What it is |
|---|---|
| `TickQueue` | abstract: the bounded lossy FIFO that the router is promised |
| `SPSCRing` | `ring_buffer.hpp`, at the grain of its atomic accesses; refines `TickQueue` |
| `PeerTable` | the peer table of `mesh_node.hpp`, over a kernel that reuses descriptors |
| `TradeLog` | abstract: the ledger its owner is promised, whatever becomes of connections, clocks and the engine |
| `ExecDelegation` | from an ML signal to a ledger record: `main.cpp` and `mesh_node.hpp`; refines `TradeLog` |
| `MemoryPool` | `memory_pool.hpp`: the free list threaded through the slots, and `PoolSpec`, what the pool expects of its owner |
| `OrderBook` | `order_book.hpp`, over `MemoryPool` |
| `TickBook` | `OrderBook` driven by `processTick` of `main.cpp` |
| `DatagramChannel` | abstract: an unreliable datagram channel, what a firm is promised by the link |
| `SCP` | the sender's two threads, the network and the receiver; refines `DatagramChannel` |
| `Engine` | the process: main thread, feeds and mesh threads, from `init` to the end of `stop` |
| `PredictionBoard` | abstract: a board on which whole predictions replace each other, none by one of an older vector |
| `MLBridge` | the two processes and the files between them; refines `PredictionBoard` |
| `WsClients` | the asyncio tasks of `ml_server.py` that share the list of clients |
| `MC*` | the constants of the runs |
| `SPSCRingProofs`, `PeerTableProofs`, `ExecDelegationProofs`, `MemoryPoolProofs`, `OrderBookProofs`, `SCPProofs`, `EngineProofs`, `MLBridgeProofs` | theorems and proofs |

The engine's parts are composed where the steps of one decide what another does: `OrderBook` over
`MemoryPool`, `TickBook` over `OrderBook`, `ExecDelegation` over both ends of its connections, `MLBridge` over both
processes.  `Engine` takes from the parts only what blocks, what uses a descriptor and what ends.

### SPSCRing

`head_`, `tail_` and `buffer_` are `head`, `tail` and `buffer`.  `push` is split at
every access that another thread can observe:

| Code | Action |
|---|---|
| relaxed load of `tail_`, :19 | `LoadTail` |
| acquire load of `head_`, return false, :21-22 | `RejectFull` |
| start of the copy into the slot, :24 | `BeginCopy` |
| end of that copy | `EndCopy` |
| release store of `tail_`, :25 | `Publish` |
| acquire load of `tail_`, return nullopt, :32-33 | `PopEmpty` (a stutter) |
| start and end of the copy out of the slot, :35 | `BeginRead`, `EndRead` |
| release store of `head_`, :36 | `Release` |

A slot is a struct of 80 bytes, so a copy takes time; while it lasts the slot
holds `Garbage`, and a copy that another thread disturbed may leave or return any
mixture.  *Staleness*: a thread's load may return an older value of an index
that another thread writes.  Each thread has a *view* of the other side's index
(`headSeen`, `tailSeen`), which only moves forward (coherence) and catches up at an arbitrary
time (`SeeHead`, `SeeTail`).  Because a view jumps to the current value while the
index may have moved several times, and the jump is at an arbitrary moment, every value a load could
return is covered.  Slots need no view: an acquire load that sees
a release store sees the slot written before it.

`offered`, `lastIn` and `delivered` are history; ticks are pairs of a feed and a number.

### PeerTable

`registered` is `peer_fds_`, `table` is `capability_table_`.  The kernel's side of a
descriptor is `owner` (who is at the other end), `unread`, `ending` (`fin`
for a clean end, `rst` for a reset) and `edge`.  `open` and `accept` return the
*lowest free* descriptor, as POSIX says; that is what makes a stale number dangerous.

| Code | Action |
|---|---|
| `eventLoop`, epoll_wait and dispatch, :177-194 | `PollAccept`, `PollRead` |
| `acceptPeer`, :196-214 | `Accept`, `AcceptRetries`, `AcceptDone` |
| `handleRead`, :216-227 | `Receive` (the recv) with a handler, `RecvAgain`, `RecvEnds` |
| `processMessage`, HELLO, CAPABILITY, HEARTBEAT | `HandleHello`, `HandleCapability`, `HandleHeartbeat` |
| `handleDisconnect`, close, then erase under the lock | `RecvEnds` or `HangUp`, then `Unregister` |
| the second `handleDisconnect` for `EPOLLHUP`, :188-189 | `HangUp` |
| `heartbeatLoop`, the sweep, :332-337 | `Sweep` |
| `connectToPeer`, :101-136: socket in epoll, then table | `CallConnect`, `CallRegister` |
| `selectBestPeer` under the lock, `send` after it | `SelectBestPeer`, `SendRequest` |
| another part of the process opens and closes a descriptor | `OtherOpens`, `OtherCloses` |

Choices worth knowing:

- *One event at a time.*  epoll_wait returns up to 64 events; the model takes them one by one.  A
  descriptor is at most once in a batch and only the event loop closes
  connections, so taking a batch apart adds no behaviour within the mesh and loses none but those in which
  another thread reuses a number that is already in the batch; `Others` covers reuse.
- *Time.*  A time stamp is held as its age in heartbeat periods, `now - last_heartbeat_ns`, which is
  what the code tests.  A stamp never set is `Expired`.  A capability report carries the *peer's* clock,
  so its age may be negative by the firm's `Skew`; the difference is unsigned, so the code takes a
  negative age for a long silence (`Missed`).
- *Messages.*  The kind of a message is chosen when it is read: a peer may send any message at any
  time.  Peers run the same code and send less than that; this is an over-approximation.
  EXEC_REQUEST and EXEC_CONFIRM do not touch the peer table and are in `ExecDelegation`.
- `AcceptRetries` is the `continue` on every error but EAGAIN: a step that changes nothing.  The kernel looks for a
  descriptor before it looks at the queue, so the error is EMFILE whenever none is free, and `AcceptDone` (EAGAIN) needs a free one.
- `connectToPeer` is called by nothing in `main.cpp`: `Connects = {}` is this engine;
  `Connects # {}` is the class as written.

### ExecDelegation

`reqId`, `soloId` and `bookId` are the three static counters (`req_id`, `trade_id`,
`id`); `pending` is `pending_requests_`, by age; `ledger` is the file.  `run` counts the starts of the
engine; the code keeps no such number, the model needs it to tell the records of one start from those of another.

| Code | Action |
|---|---|
| `onMLSignal`, the branch that trades alone | `TradeSolo` |
| `onMLSignal`, the branch that delegates, up to the choice of a peer | `Delegate`, `NoPartner` |
| `sendExecRequest`: send, then the entry under `pending_mu_` | `Send`, `InsertPending` |
| the peer's handler of EXEC_REQUEST | `PeerConfirms` |
| handler of EXEC_CONFIRM: callback (ledger), then erase under the lock | `BookConfirm`, `ErasePending` |
| `checkPendingTimeouts`: clock, then lock and purge | `ReadClock`, `PurgeOverdue` |
| the process ends; `MeshNode` opens the ledger to append, the static counters begin again | `Restart` |

Choices worth knowing:

- *Links.*  A link is a descriptor with a peer's TCP connection: in order on its own, lost when it breaks
  (`PeerDisconnects`), and without any order with the others.  `selectBestPeer` chooses for every request anew, so
  `Delegate` takes any link (which one, is what `PeerTable` is about), and confirms come back in any order.  The link chosen may
  be down when `Send` runs, or up again and another peer's.
- *Confirms* carry the request's id and whether the peer approved, which `handleExecConfirm` does not look at; the id is kept.
- *Time.*  `Tick` may run between `ReadClock` and `PurgeOverdue`, up to `MaxStall` times: the wait for the lock.
  `Overdue` is the unsigned comparison: an entry younger than the clock reading counts as overdue.
- *Restart.*  The engine may end between any two steps.  What survives is the ledger.  `writeLedger` is one
  write of 101 bytes and a flush and is taken as one step; a process killed within it may leave a part of a record, which is not modelled.

*The abstract log.*  `ImplementsTradeLog` maps `session` to `run`, `asked` to `reqId - 1`, the log to the run and request of the ledger's
records (`None` for a trade made alone) and `givenUp` to `timedOut`.  `Delegate` and `NoPartner` are `Ask`, `TradeSolo` is `TradeAlone`,
`BookConfirm` is `Book` of the request confirmed, `PurgeOverdue` is `GiveUp` of any number of them, `Restart` is `Begin`; everything else
stutters.  `TradeLog` has no connection, so it says what they cannot do to the ledger: it only grows, each record is of the session it was
written in, of a request asked in it, and of none twice.  It also says what is *not* promised: an order among requests, or that a
request given up was not booked, or will not be yet (finding 10).

### MemoryPool and OrderBook

`next`, `freeHead` and `used` are the first bytes of the slots, `free_head_` and `used_`;
`Alloc` and `Free` are `alloc` and `free`.  A slot in use holds the object where the link was, so the
pool would read something else there: `Taken`.  `free` does not look whether
the slot is in use; that it is, is the owner's obligation, which `PoolSpec` states and the
book is shown to keep.

| Code | In the model |
|---|---|
| `order_map_`, `bids_` and `asks_`, the objects in the slots | `orderMap`, `levels`, `object` |
| `addOrder` | `AddOrder` |
| `cancelOrder` | `CancelOrder` |
| `executeOrder`, part of the order is left; nothing is left | `PartialFill`; `FullFill` |
| `removeFromLevel` | `Left` |
| `maybeSnapshot`, called at the end of each | `MaybeSnapshot`, a conjunct of each |

Choices worth knowing:

- *Callers are free.*  Ids may be used again while they are in the book (as
  `processTick` does) and quantities may be 0 (as every Bybit tick's are, `ws_feed.hpp:202-211`).
- A level's `order_ids` is a *set*: nothing reads its order or how often an id
  occurs, and `std::remove` removes every occurrence.
- A level is erased when its *total* is 0, not when its list is empty: so does `Left`.
- The snapshot clock subtracts unsigned (`Due`): a clock that went back counts as long after.
- `mid_history_idx_` grows without end but is only used modulo the
  size and compared with look-backs of at most that: `NextIndex` keeps what matters.
- The printed counters `updates_` and `dropped_` and the two callbacks are left out; an operation on an unknown id, or an
  add to an exhausted pool, changes only these counters.

`TickBook` adds `order_counter`, shared by two books, of which one is
modelled: `OtherVenue` is a tick of the other.  `AddBid` and `AddAsk` are the two
calls of `addOrder` in `processTick`; the pool may run out between them.

### SCP

| Code | Action |
|---|---|
| `main` of the sender, up to the menu | `Start`, `Hello` (twice: a capability, a heartbeat) |
| a command; `q` or the end of the input | `Command`; `Quit` |
| `join`, then `close` | `JoinAndClose` |
| `chaff_injector_thread`, the test and the turn | `ChaffCheck`, `ChaffSend` |
| `send_exec_request`, `send_heartbeat`, `send_capability` | `SendExecRequest`, `SendHeartbeat`, `SendCapability` |
| `build_real_frame`, `build_decoy` | `ContentOf` and `RealFrame`, `Decoys` |
| `recvfrom` and the turn; its error | `Receive`; `ReceiveFails` |
| `process_frame`: ethertype and tag; CRC; type | `Discard`; `BadCRC`; `Handle` |
| the network loses or damages a datagram; a datagram arrives again | `Lose`, `Corrupt`; `Receive` leaves it in `net` |
| the sender is killed (it handles no signal) | `Die` |

Choices worth knowing:

- *Tag and checksum.*  `generate(seq)` is taken to be different for different numbers and a CRC to
  tell a frame from a damaged one: a tag is its number, a CRC is the content it was computed over.
  A decoy may have the right tag, or the right CRC, by chance: both are in `Decoys`.
- *Byte order.*  `Swap` is `htonl` and `ntohl`.  A payload has one field that only the receiver
  converts (`instrument_id`) and one for all those that both convert, or neither.
- `net` is a set: any datagram may be next, so any order is possible.  Two equal decoys are one.
- `sent` is history; `got` is what the handlers were given, which is all they do.

### Engine

| Code | Action |
|---|---|
| `init`: mesh and feeds are started; the node cannot listen | `Start`; `InitFails` |
| `sigHandler`; `run` leaves its loop | `sigHandler`; `LeaveRun` |
| `WebSocketFeed::stop`: the flag; join and clean up | `StopFeed`; `JoinFeed` |
| `MeshNode::stop`: the flag; the closes; the joins | `StopMesh`; `CloseMesh`; `JoinMesh` |
| `runLoop`: the test; a failed attempt; the end of a connection | `LoopTest`; `Reconnect`; `Leave` |
| `connectAndHandshake`, by where it fails | `Connect`, `ConnectFails`; `TlsDone`, `TlsFails`; `UpgradeDone`, `UpgradeFails` |
| `receiveLoop`: the test; a read that returns bytes; one that fails | `Receive`; `ReadFrame`; `ReadEnds` |
| `cleanupSSL` | `Cleanup`, a conjunct of three actions |
| `eventLoop` and `acceptPeer` | `EventTest`, `EventTimeout`, `EventListen`, `EventRead`, `AcceptPeer`, `AcceptDone` |
| a turn of `heartbeatLoop` or `capabilityLoop` | `Broadcast` |

Choices worth knowing:

- *Blocking.*  `TlsDone` needs the exchange's answer; `ReadFrame` its data; `ReadEnds` that the
  connection ended.  While it says nothing the thread stays where it is.
- *SIGPIPE.*  Nothing ignores it.  A send to a peer whose reset was reported before (`peer`), or a write of
  TLS to a connection that was reset, may kill the process: `alive` becomes `FALSE` and nothing moves any more.
- *Frames.*  A read may begin in the middle of a frame, so whatever is read may look like a close frame.
- A feed's descriptors are counted (`held`): one that is forgotten or closed twice shows.

### MLBridge

| Code | Action |
|---|---|
| `initMmap` for each file: `O_TRUNC`, then `ftruncate` | `CutFeatures`, `SizeFeatures`, `CutPredict`, `SizePredict` |
| `writeToMmap` of a vector, a `memcpy` | `BeginWrite`, `EndWrite` |
| `readFromMmap` of the prediction | `ReadPrediction` |
| `read_latest`: too short; the read; the comparison of stamps | `NoVector`; `BeginRead`; `EndRead` |
| the models and the explanation; an exception | `Infer`; `InferFails` |
| `write_prediction`: open, write and close, rename; an error | `OpenTmp`, `CloseTmp`, `Replace`; `WriteFails` |
| a process ends, or is killed; is started | `EngineDies`, `ServerDies`; `EngineStarts`, `ServerStarts` |

Choices worth knowing:

- *Tearing.*  A vector is its stamp and the rest (`body`).  Copy and read each take the two halves in either
  order, and the other process may run in between.
- *Files by name.*  The server renames a finished file over the prediction's name; the engine opens
  the name at every tick.  A file that lost its name is read by nobody and left out.
- *The abstract board.*  `ImplementsBoard` maps the vectors taken to those of `used`, and the board and what the engine
  saw to what a reader finds in the file (`Found`): nothing in an empty one, and in a part of one something that is no
  prediction at all.  `EndRead` of a new vector is `Take`, `Replace` is `PutUp`, `CutPredict` and `SizePredict` are `Wipe` or stutter,
  `ReadPrediction` is `Look`, `EngineDies` is `Forget`.  Opening, writing and closing the temporary file stutter: that is what it is for.
- The stamps are 1, 2, ...: `nowNs` is taken to grow.  A vector made up by the server is `Synthetic`.
- Training and inference always end, possibly with an exception, which is logged; the explanation is one of three texts.

### WsClients

asyncio tasks interleave only where they await.  `busy` says that the broadcast has not given up the
event loop since its last step; a send that need not wait does not give it up.  The iteration is over the list itself, by position.

## The runs

Passing runs.  Each property is also run against a *seeded fault*, an operator
marked `Faulty` in the module that changes one action the way a plausible bug
would; TLC finds the property violated with each of them, so none holds for
lack of behaviour.

| Run | Question | Bounds and why they are enough |
|---|---|---|
| `ring_one` | Does the ring implement `TickQueue`, without a slot race (`NoSlotRace`), and do ticks arrive (`EveryTickArrives`) and room return (`RoomReturns`)? | One feed, `N = 4`, 7 ticks: the ring fills (3 ticks), rejects, wraps, drains and fills again, with every staleness.  Safety is proved for every `N` |
| `peers_accept` | On a node that only accepts, beside another thread that opens descriptors: are registrations true (`RegisteredIsOpen`) and available firms reachable (`AvailableIsReachable`), is a connection that ended closed and forgotten (`EndedIsForgotten`)? | One firm, two connections, three descriptors for them and the foreign thread: the firm is back before its old end is handled, the number closed in `handleDisconnect` is taken before it is erased, and the descriptors run out, for a while or for good.  `NoRoom`: nobody is ever chosen, which `peers_connect` covers.  More firms are covered by the proofs |
| `peers_connect` | With `connectToPeer`, and a foreign thread using descriptors: does the mesh leave that thread's alone (`OthersKeepTheirs`), does a silent firm become unavailable (`SilentIsUnavailable`)? | One firm, three descriptors, one connection: the call, the event loop and the foreign thread can each hold one; every registered descriptor may be chosen and sent on.  The firm's clock is one period ahead, so that ages are negative, fresh and expired; `MissLimit` 1 for 5 (and 0 in `peers_accept`): the sweep distinguishes only which side of the limit an age is on |
| `exec_book` | Is a request booked once (`BookedOnce`), are the trade ids of a start unique (`TradeIdsUnique`), is every request resolved (`EveryRequestResolves`), do entries go (`PendingDrains`), is all of it a `TradeLog` (`ImplementsTradeLog`)? | Three signals over two links and two starts, so that two requests are under way on different links, a link breaks and comes back under a third, and ids occur in both starts; `DelegatedBase` 2 for 1000, so the solo counter reaches it; `Limit` 0 and `MaxStall` 1: an entry is in time, over it, or younger than the clock reading.  Safety is proved for every bound |
| `book_orders` | Do entries lead to live orders (`EntriesAreLive`), does the book keep the pool's protocol (`PoolSpec`), is the free list whole (`FreeListIntact`), are totals sums (`TotalsAreSums`), is a price quoted, and does it list them, exactly while orders rest there (`LevelsListOrders`)? | Three slots, two ids, two prices, quantities 0 to 2: an id is used a third time while twice in the book, orders share a level, a level's total reaches 0 with orders in it, the pool runs out.  One time stamp: the first operation takes a snapshot, later ones do not; other clocks and the wrap of the index are covered by the proof of `TypeOK` |
| `scp_link` | Does the link implement the channel (`ImplementsChannel`), is every genuine frame that arrives acted on (`GenuineIsHandled`), do the statistics add up (`CountersAgree`), is the socket open while it is used (`ChaffHasSocket`), does a sender told to quit end (`QuitEnds`)? | Three messages and two lives of the sender, so that a number occurs twice with different messages; two datagrams processed; one on its way at a time, which is enough for loss, damage and repetition, while overtaking needs `Room` 2 and is covered by the proofs, which hold for every bound |
| `engine_stop` | Does nothing go away under a thread that uses it (`FeedOwnsItsSocket`), does every attempt start clean (`AttemptsStartClean`), is a stopped engine quiet (`StoppedIsQuiet`), does it stop (`EngineStops`), is an ended connection given up (`EndedIsGivenUp`)? | Two feeds, as in the engine, so that one is stopped while the other runs; one connection each (and any number of failures), one peer.  Safety is proved for every number |
| `bridge` | Are predictions whole (`PredictionsWhole`), are vectors taken once and in order (`VectorsInOrder`), is one that is found whole and new taken whole (`NewVectorIsTaken`), is all of it a `PredictionBoard` (`ImplementsBoard`)? | Two vectors and two lives of each process, each of which may end at every step: two vectors tear, a restarted process meets what the other one remembers.  Safety is proved for every bound |

Violation runs.  Each checks what the repository says of itself against what
the code does; see [What the checks found](#what-the-checks-found).

| Run | Property | What TLC shows |
|---|---|---|
| `peers_request` | `RequestGoesToAvailable` | selected, then disconnected or marked, then sent |
| `peers_spin` | `LoopReturns` | two connections take the two descriptors there are: `accept` answers EMFILE for ever, and the connections that could give one back are not read any more.  With one connection at a time the property holds |
| `book_top` | `TopOfBook` | a second tick with a lower bid: the first one's is still the best |
| `ws_dead` | `BroadcastRuns` | with two clients, a failed send to the first, whose handler removes it while the second is served: `remove` raises and the task is over |

`CHECK_DEADLOCK` is left on for the ring, the peers, the requests and the books: `PopEmpty`, `Tick`, `ReadClock`, `NoTick` or an
operation on the book is always possible, as the real loops are.  It is off in `scp_link`, `engine_stop`, `bridge` and `ws_dead`:
a program that has quit, been killed or used up the bound on its lives really stops.  `Symmetry` is used only in `book_orders`,
over the ids: they are interchangeable, and no liveness is checked.

## Fairness

Fairness is on threads of the process, never on peers, exchanges or callers.

- `SPSCRing`: the router polls in an endless loop (`WF(Pop)`), and a store reaches the other
  thread's loads in finite time (the standard says "should"; every target does).
- `PeerTable`: the event loop thread runs (`WF(EventLoop)`); `epoll_wait` serves
  ready descriptors in turn (`SF(PollRead(fd))`, `SF(PollAccept)`): an event is not postponed for ever by others; the sweep runs
  and time passes.  `SF(RecvAgain)` says that no peer sends faster than `handleRead`
  reads for ever: a handler that reads until EAGAIN is at the mercy of a peer that
  never lets it get there.  This is an assumption on load, not something the code enforces.
  That descriptors are free again is *not* assumed: `EndedIsForgotten` excepts the spin by name (`AcceptSpins`).
- `ExecDelegation`: a send begun is finished; the event loop ends every turn
  with `checkPendingTimeouts` (`epoll_wait` has a time limit, so turns do not stop), hence `SF(ReadClock)`,
  even if confirms keep coming; time passes.  That a turn ends takes descriptors for `acceptPeer` (finding 4), which this module has none of.
  Nothing is asked of peers, of links or of `Restart`: `EveryRequestResolves` excepts a request whose engine ended.
- `SCP`: the sender's threads run: `WF(JoinAndClose)`, `WF(ChaffCheck)`, `WF(ChaffSend)` (`sendto` on UDP does not
  block for ever).  Nothing is asked of the network, the keyboard or the receiver.
- `Engine`: `WF(MainThread)`, `WF(EventThread)`, `WF(Broadcast)`: threads that do not wait for anybody outside (sleeps end, the
  sends do not block for ever, and `run` drains the ring faster than the feeds fill it for ever).
  `WF(FeedRuns(f))`: a feed runs except in a read of a connection that is up, which waits for the exchange.
  `SF(ReadEnds(f))`: what is left to read of an ended connection is finite, so that reads do fail in the end.
  That no exchange is silent for ever is *not* assumed as fairness; `EngineStops` has it as a premise, `ExchangesSpeak`, because
  the code has no time limit of its own.
- `MLBridge`: a server that lives goes round its loop (`WF(Server)`).  Nothing is asked of the engine or of the ticks.

## The proofs

All eight proof modules are checked to the last leaf.  The theorems hold for every value of the
constants that satisfies the named assumptions of the module, and under the
condition stated with each.

| Theorem | Condition | Argument |
|---|---|---|
| `SPSCRingProofs!TypeCorrect` | none; any number of producers | one step per action; `SuccIs` keeps indices in range |
| `RingInvariant` | `OneProducer` | `RingInv` is inductive with `TypeOK` |
| `NoRace` | `OneProducer` | a copying producer is at `tail` and `Succ(tail)` is not the head it saw; a reading router is at `head`, which is not the tail it saw; the order of the views keeps the two apart |
| `RingIsQueue` | `OneProducer` | step simulation: `Publish` is `Put`, `Release` is `Take`, every other step stutters |
| `PeerTableProofs!TypeCorrect` | none | one step per action |
| `OthersAreLeftAlone` | none (the property has its own: `Calm`) | `DescriptorInv` is inductive with `TypeOK` while `Calm` holds |
| `RegistrationsHold`, `FlagsHold` | `Connects = {}` (the properties have their own: `Calm`) | `PeerInv` is inductive with `TypeOK` and `DescriptorInv` while `Calm` holds |
| `ExecDelegationProofs!TypeCorrect` | none | one step per action |
| `AtMostOneRecord` | none | `UniqueInv` is inductive with `TypeOK` |
| `UniqueTradeIds` | none (the property has its own) | `TradeInv` is inductive with `TypeOK` |
| `OneReportPerRequest` | none | `PendingInv` is inductive with `TypeOK` |
| `LedgerIsTradeLog` | none | step simulation with `UniqueInv` and `PendingInv` |
| `MemoryPoolProofs!PoolStaysIntact` | `PoolSpec` | the free list that the invariant asserts is exhibited: its tail after `Alloc`, extended at the front after `Free` |
| `PoolRefusesWhenFull` | `PoolSpec` | the list that exists has `Size - used` slots and ends in nothing, so the head is nothing just when there are none |
| `OrderBookProofs!TypeCorrect`, `EntriesStayLive`, `FreeListStaysIntact` | none | conjuncts of `BookInv`, which is inductive |
| `NoDoubleFree` | none | from `BookInv`: every `Free` in a step of the book is of the slot of an entry, which is in use |
| `BookRefusesWhenFull` | none | the same as for the pool, from `BookInv` |
| `TotalsStaySums`, `LevelsStayListed` | none | `LevelInv` is inductive with `BookInv` |
| `TicksAreCallers` | `EnoughIds` | every step of `TickBook` is a step of `OrderBook`, so all of the above holds under it |
| `TopTightens` | `EnoughIds` | a tick's steps only add to the prices quoted, and with `LevelInv` a quoted price is one where orders rest |
| `SCPProofs!FramesStayKnown`, `TypeCorrect` | none | `IInv`: types, and every CRC on the wire belongs to no content, to a decoy or to a message sent |
| `LinkIsChannel` | none | step simulation: the sends are `Send`, `Handle` of a frame whose CRC fits is `Deliver` of a message sent |
| `StatisticsAddUp` | none | with `IInv`: an intact frame that passes is a decoy or of a type that is counted |
| `GenuineFramesAreHandled` | none | a frame of `sent` passes and is intact, so `Handle` is the only alternative |
| `SocketOutlivesChaff` | none | with the places of the two threads |
| `EngineProofs!TypeCorrect`, `FeedsOwnTheirSockets`, `AttemptsAreClean`, `StoppedEngineIsQuiet` | none | conjuncts or consequences of `IInv` |
| `MLBridgeProofs!TypeCorrect`, `PredictionsAreWhole`, `VectorsAreInOrder` | none | conjuncts of `IInv` |
| `FilesAreBoard` | none | step simulation with `IInv` and `WorkInv` |
| `PredictionsDoNotGoBack` | none | `Ahead` is inductive with `IInv` and `WorkInv` |

**Why the strengthenings are needed.**

- `NoSlotRace` says nothing of stale views.  `RingInv` says where everyone is: counted
  upwards from the *head the producer last saw*, the true head, the tail the router last saw and the
  true tail come in this order.  The lemmas on `Distance` (injective in its second
  argument, what `Succ` adds to it, how it shifts with its origin) are what modular
  arithmetic is reduced to.  `RingInv` also carries the content of the slot at
  `tail` through the copy, so that what `Publish` appends to `Contents` is the tick offered.
- `RegisteredIsOpen` alone is not preserved: a step of `handleDisconnect` depends on which
  descriptor the event loop holds.  `DescriptorInv` says whose descriptors are: what another thread holds is its
  own, and the one `handleRead` works on is a connection, so the close in `RecvEnds` never hits a stranger.  `EventInv` adds that between `close` and
  `erase` the number is nobody's, or another thread's, but no connection: only `acceptPeer` makes one of it, and it runs on the same thread.
  The second close of `HangUp` is the step that breaks both beside other threads, and `Calm` is what excludes it
  (`Calm` left out, TLC finds `RegistrationsTrue` violated, and with two firms `FlagsTrue`: finding 5).  `AvailableIsReachable` is preserved
  because `acceptPeer` and `handleDisconnect` run on one thread, and only a HELLO in hand sets the flags.
- `BookedOnce` is about the ledger only.  `UniqueInv` says that a request of this run is in one place at most: its id is below `Unsent`
  once it is under way or booked (`SentInv`), it is on one link, in one direction, once, and then in no record (`PlaceInv`).  No order
  among requests is needed, and none holds.
- `TimedOutOnce` (what was reported is not pending) is not kept by an insertion that comes after the report.  `PendingInv` adds that entries are made in the order of the
  ids and that nothing was reported of an id without an entry yet (`Uninserted`).
- `TradeIdsUnique` needs `TradeInv`: within a run solo ids are below `soloId`, delegated ids
  lie in `DelegatedBase..bookId - 1`, and each kind increases along the ledger.
- `EntriesAreLive` and `FreeListIntact` need each other: freeing a slot keeps the list whole only if the
  slot is in use, and allocating one keeps entries apart only if the head of the list is not in use.
  `BookInv` has both, with the types, and `CountInv`: `used_` is the number of slots in use, which gives the list its
  length.  Ids may be used twice, but the slot of an entry holds the order of *that* id, so no
  two entries share a slot, and erasing the entry of a freed slot leaves none that leads there.
- `TotalsAreSums` is about a sum over a set.  `SumOf` is a fold of the community modules: the lemmas up to `SumAgree` show that the fold
  *is* the one additive function on the finite sets of slots (empty set 0, one more slot adds its share), by induction over subsets as a
  well-founded order, and after that only additivity is used.  Each operation then moves one share.
- `LevelsListOrders` says that an order which wants something is quoted; that is no matter of lists but of totals: a level
  with such an order has a total above 0, by `TotalsAreSums`, and cannot be erased.  `LevelInv` has both, and for the lists that of the orders with one id all but
  one are stranded (`OneOrderPerId`): when an id is taken off a list, no order that can be reached loses its place.
- `ImplementsChannel` speaks of what was acted on; what makes it true is on the wire.  `FramesKnown` says that a CRC
  is of a message sent, of a decoy or of nothing, which damage cannot change, since it does not compute CRCs.  A frame that passes
  the CRC then *is* a message sent, or has the type DECOY in the content the CRC was computed over.
- `FeedOwnsItsSocket` and `AttemptsStartClean` are about six of the places a feed can be in; `FeedInv` says for each of
  the ten what it has, `pause` being the one where it may have a connection or not.  `MainInv` says
  which threads have ended by the time main is where it is, so that `JoinFeed` cleans up only behind a thread that ended.
- `VectorsInOrder` compares vectors taken; a step that takes one depends on what the file, and a read in the
  middle, may hold.  `StampsInv` says that such a stamp is at least that of every vector taken
  (`NotOlder`), and that if the same server has taken it, it remembers it (`Remembered`); between the halves
  of a write, that the new stamp is in nobody's hands.  `PredictionsWhole` needs `FilesInv`: what the files
  hold at each place of the two processes, in particular that only a finished file is renamed.
- `ImplementsBoard` allows a prediction to be put up only if it is of the *last* vector taken.  `WorkInv` carries that from the read
  through the models and the temporary file to the rename: one thread does all of it, and takes no other vector before it is through.
- `PredictionsAdvance` compares what the engine saw with what it sees next; between the two lies the file.
  `Ahead` says that it is never of an older vector than what the engine saw, and `LastIsNewest`, from `VectorsInOrder`, that what `Replace` brings is not either.

**Conditions, as they apply to this program.**  `OneProducer` is the class's own contract, which
`main.cpp:50-51` does not keep.  `Connects = {}` is kept: `main.cpp` never calls `connectToPeer`.  `Calm`
says that the process has no other thread that opens descriptors, or that no event in hand carries EPOLLHUP with EPOLLIN; this
process has such threads (it opens and closes files for every tick, and the feeds open sockets), so what is stated with `Calm` holds for it until
a connection is reset, and not after (finding 5).
`EnoughIds` says that ids do not run out, as 64 bits see to.  `TradeIdsUnique` is stated up to the
999th solo trade of a start of the engine; after that the two counters overlap, and the next start repeats the ids (finding 9).

**Theorems whose property has no run.**  `TimedOutOnce`, `RefusesWhenFull`, `TopOnlyTightens`, `PredictionsAdvance`,
and the inductive invariant of the ring, `RingInv`: each says something beside what the runs ask, or is the stronger statement from which it follows, and is proved for
every size.

**Model-checked only.**  Liveness (`EveryTickArrives`, `RoomReturns`, `EndedIsForgotten`,
`SilentIsUnavailable`, `EveryRequestResolves`, `PendingDrains`, `QuitEnds`, `EngineStops`, `EndedIsGivenUp`, `NewVectorIsTaken`), because the
prover does not reason about ENABLED; and everything a violation run shows.  Every safety property of a passing run is proved.

## What the checks found

Disagreements between the code and what the repository says of it, each with its lines in `PROJECT.json`.
Four are shown by a run:

1. `sendExecRequest` selects under the lock and sends after it (`peers_request`).
2. `processTick` adds and never cancels: the book shows the best prices there ever were, and its pool runs out (`book_top`).
   It is so for every stream of ticks: `TopTightens`.
3. The broadcast removes a client that its handler may have removed before, and ends with the exception (`ws_dead`).
4. `acceptPeer` retries on EMFILE inside the event loop, which alone could free a descriptor (`peers_spin`).

The others follow from the modelled actions, or from the layouts, without a run of their own.

In the engine and the mesh:

5. A reset connection is disconnected twice, by number (`HangUp` with `Others`): the second close may hit another thread's descriptor.  Nothing else does (`OthersAreLeftAlone`).
6. `main.cpp:50-51` starts two producers on a ring made for one: both copy into one slot (`BeginCopy` with two `Producers`).
7. HELLO does not set the time stamp, so a new firm is marked silent at once; only another HELLO brings it back (`HandleHello`, `Sweep`).
8. `checkPendingTimeouts` reads the clock before the lock, and subtracts unsigned (`ReadClock`, `Overdue`).
9. The ledger is appended to across starts while the counters of trades begin again, so its trade ids repeat; and what was pending when the engine ended is neither booked nor reported (`Restart`).
10. A confirm is booked whether or not it is still pending (`BookConfirm`).
11. An ask's id is the next bid's: its entry in `order_map_` is overwritten and the order stays for good (`AddBid`, `AddAsk`, `Stranded`).
12. A snapshot is taken between a tick's bid and ask: the first mid price recorded is 0 (`MaybeSnapshot` in `AddBid`).
13. `stop()` closes the listening descriptor under `acceptPeer`, which then retries EBADF for ever (`AcceptSpins` in `Engine`).
14. A second send to a reset connection ends the process by SIGPIPE (`Broadcast`, `Cleanup`, `UpgradeDone`).
15. `stop()` waits for a read that has no time limit (`ExchangesSpeak`).
16. A read is taken for one whole WebSocket frame: of a frame in two reads, bytes of an earlier read are parsed; of two frames in one, the second is dropped.

Between the engine and the ML server:

17. `PREDICT_FORMAT` is packed (146 bytes), `MLPrediction` is not (152): confidence and what follows are read from other bytes.
18. `FEATURE_STRUCT_FORMAT` has one float too many before the depths; sizes agree, the fields do not.
19. A vector read in the middle of a copy is taken under its stamp, and the whole one is then skipped for as long as it stays (`EndRead`; `NewVectorIsTaken` speaks of the others).
20. Vectors made up "when C++ engine not running" are used whenever no new one came in 50 ms (`Nothing`).
21. One prediction is acted on at every tick, whatever its age (`ReadPrediction`).
22. After a restart of the engine a living server takes the zeros of the new file for a vector (`SizeFeatures`, `EndRead`).

In the SCP programs:

23. `instrument_id` is converted by the receiver only (`AsRead`).
24. A decoy's type is not random, as `scp_common.h:58` says it is.
25. `total_real_sent` counts only one of the three kinds of messages.
26. A decoy that passes the tag is counted as accepted and as discarded (`CounterOf`).

Also noted while reading: `NoPartner` neither trades alone nor records anything,
though `HFT_Mesh_Idea_BuildVerse.md` lists the cases that go to the ledger (:474-479); `MeshCapability`, `MeshExecRequest`
and `MeshExecConfirm` have members of 64 bytes and `LedgerRecord` of 101, where `types.hpp:125,137,147,186`
say 68 and 128, and the mesh sends 68 bytes of each.

## What is not modelled

- *Training, inference and features, and the texts of the LLM explainer* (Python): numerical code and calls to services.  That
  they take time and may fail is in `MLBridge`.
- *JSON extraction, TLS, HTTP and the bytes of WebSocket frames*: parsing of external formats.  `Engine` lets any read be any frame.
- *The byte layout and framing of mesh messages*: `PeerTable` and `ExecDelegation` receive whole messages.  `handleRead`
  drops a part of a message and loses the alignment with it; nothing later in the code finds it again, so a model of the byte stream would repeat that one line.
- *The HTTP endpoints of the ML server*: they read the latest prediction, and retrain models.
- *`checkArbitrage`, `printStats`, the snapshot file*: counted, printed, or written for nobody.
- *The destructors*, which stop feeds and mesh once more after `main` has returned.
- `orderbook.cpp`, `market_data.hpp`: an earlier sketch no other file includes.
- `latency_bench.cpp`, the mmap shim, build files and binaries: no behaviour a property could be about.

`PROJECT.json` lists every component with its status, and every hazard with the properties that cover it or a note why none does.
