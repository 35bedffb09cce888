# Torfoil in TLA+

Torfoil is a BitTorrent client for a console, with its own WireGuard tunnel in
user space. This directory holds TLA+ models of it, the TLC configurations that
check them, and theorems about them that TLAPS proves for every value of the
constants. `PROJECT.json` lists components, runs, mutants, hazards and theorems, and
maps every definition to the lines of `src/` it stands for.

    tlc -config PiecePicker.cfg MCPiecePicker     # a run
    tlapm SwarmProofs.tla                         # proofs

Paths below are relative to `src/source/` unless they begin with `src/`.

## The system

| Component | State it keeps | Operations | Hard parts |
|---|---|---|---|
| `bt/piece_picker` | pieces had, availability, blocks of started pieces with two counters each, `pending_` with a time per request | `pick`, `on_block_received`, `on_request_dropped`, `on_piece_verified`, `expire_requests`, `peer_added/removed/has`, `set_have` | five methods adjust redundant counters, in any order, for requests that expire, come late or twice |
| `bt/piece_writer` | queue of complete pieces and its size, results, `running_` | `start`, `submit` (blocks), `take_results`, `stop`, `loop` | two threads, one mutex, two condition variables, an atomic flag |
| `bt/storage` | buffers of pieces being assembled, file handles and sizes | `open`, `write_block`, `take_complete_piece`, `verify_piece`, `write_piece`, `read_block`, `close` | memory budget, pieces half in memory, stdio's own buffer, failing cards, files recreated, two threads |
| `bt/session`, `Torrent` | state, two brakes, peers, metadata, resume file | `tick`, the `PeerHandler` callbacks, `drive_metadata`, `run_check`, `apply_gate`, `finish_piece`, `save_resume`, `load_resume` | re-entrant callbacks, order of steps in a turn, stops and crashes |
| `bt/session`, `Session` | torrents, command queue, snapshot, `.magnet` files, transport, rules | `add_*`, `remove`, `pause`, `resume`, `has_torrent`, `set_transport`, `engine_loop`, `update_queue`, `publish_status` | callers in other threads, stale snapshot, a transport replaced in the middle of a turn, restart |
| `bt/peer` | connection state, announced pieces, choke, requests in flight | `on_poll`, `handle_message`, `send_request`, `tick`, `close`, `set_piece_count` | messages before the metadata, closes in the middle of a callback |
| `bt/tracker` and the announce thread | jobs and answers; the schedule of each torrent | announces over UDP and HTTP | late answers, torrents removed and added again |
| `bt/dht` | table of nodes, queries outstanding, one search per torrent | `find_peers`, `forget`, `tick`, `handle_datagram`, `set_transport` | late answers, timeouts, a table of dead nodes |
| `net/wg/wireguard` | handshake, keys, counter, replay window, timers | `create_initiation`, `handle_response`, `encapsulate`, `decapsulate`, `needs_handshake`, `needs_keepalive` | reordering, repetition, renewal of keys |
| `net/wg/tunnel` | state, lwIP's stack, sockets, the answer of the DNS | `start`, `stop`, `pump`, `poll`, `resolve`, the sockets' methods and lwIP's callbacks | two threads, callbacks, sends that do not take the mutex |
| `vpn/manager` | the user's choice, account and device, the tunnel it holds | `connect`, `disconnect`, `set_account`, `worker` | a worker against the user and the engine |
| `net/http_server`, `ui/phone`, `ui/remote`, `net/softap` | listening socket, its thread, the access point | start, stop, requests that call the session | a thread that must end, a session pointer that handlers use |
| `ui/app` | the menu, three workers, what is on | frame, input, panels, shutdown | a list that changes under a menu, results taken from a thread, the order of the shutdown |
| the rest | parsers, TLS, archive formats, cryptography, drawing | | sequential, or thin layers over libraries |

The **engine thread** owns torrents, peers, pickers and the DHT, and makes one turn
after another: commands, `update_queue`, checks, ticks, announces, poll, snapshot.
The **main thread** draws and speaks to it, like the **two HTTP threads**, through a
queue of commands, and reads a snapshot. Each torrent has a **writer thread** that
hashes and writes complete pieces. An **announce thread** contacts trackers, by the
same tunnel as the engine's peers. The VPN manager has a **worker**, and so have the
extraction, the search and the self test.

What makes each part correct: the picker never loses a block nor asks for it for
ever; the writer answers every piece, in order, in bounded memory, and can be
stopped; the storage only counts as had what is right on the card and lists in the
resume file only what survives; the queue keeps the limit, starves nobody and never
undoes the user's pause; the latest order wins and a torrent accepted comes back
after a restart, a removed one does not; a connected peer stands behind every
reservation, and a magnet link ends in a download; a packet is delivered once and
never sealed twice with a counter; a tunnel comes back; a socket reads its own
bytes; nothing goes by a path the user excluded; announces go on and searches that
were given up stay so; an order reaches the torrent that was shown; and the program
can be left.

## The modules

| Module | Models | Uses |
|---|---|---|
| `PiecePicker` | every operation of `bt::PiecePicker`; theorems in `SwarmProofs` | |
| `WriterContract` | what a piece writer promises | |
| `PieceWriter`, `PieceWriterProofs` | `bt::PieceWriter`, both threads; theorems, the refinement among them | implements `WriterContract` |
| `PieceStore`, `PieceStoreProofs` | a piece from the peers to the card and the resume file: `bt::Storage` with the parts of `Torrent` and `Session` that drive it; theorems | composes `WriterContract` |
| `Metadata` | what a torrent knows of its metadata | |
| `Swarm`, `SwarmProofs` | the peers of a torrent: connections, metadata, announces, chokes, requests, and the order of `Torrent::tick()`; theorems about the picker and about them | extends `PiecePicker`, composes `Metadata` |
| `SessionQueue`, `SessionQueueProofs` | states of torrents, brakes, limit, turn of the engine; theorems | |
| `SessionCommands`, `SessionCommandsProofs` | callers, command queue, snapshot, `.magnet` files, restarts; theorems | |
| `WireGuardPeer` | the methods of `wg::Peer`, as operators on the record of its members | |
| `WireGuard` | a session over a bad network; theorems in `VpnProofs` | `WireGuardPeer` |
| `Tunnel` | `wg::WireGuardTunnel` between its threads; theorems in `VpnProofs` | `WireGuardPeer` |
| `TunnelSockets` | its sockets and name resolution over lwIP; theorems in `VpnProofs` | |
| `Vpn`, `VpnProofs` | `vpn::Manager`, the session's transport and the rule that requires the VPN; theorems about the whole path, from the session of WireGuard to the engine | |
| `Dht` | `bt::Dht`, as operators on a record | |
| `Announces` | the announce thread and `TrackerClient` | |
| `Discovery`, `DiscoveryProofs` | the engine's side of both: how a torrent gets to know peers; theorems | `Dht`, `Announces` |
| `Servers` | `net::HttpServer` and its two users | |
| `App`, `AppProofs` | `ui::App`: frames, menus, workers, shutdown; theorems | `Servers` |
| `MC*` | values of the constants for TLC | the module of that name |

**PiecePicker.** `block[<<p, b>>]` is `blocks[b]` of the piece in `progress_`,
`started` the keys of `progress_`, `done` and `npending` its two counters,
`pending` the keys of `pending_` and `age` the time since their request, up to the
timeout. `handed` is a history of the pieces for which `on_block_received` returned
true and whose verdict has not come: the session always gives one. `pick` is
modelled by the set of its results: the blocks of started pieces in the unspecified
order of an `unordered_map`, then new pieces, the rarest of a sample first (`Openings`).
A piece whose counter is saturated (`AvailMax`, 0xffff in the code) takes its place in
the sample and is never chosen (`Choosable`).

**PieceWriter.** A step is what a thread does between two acquisitions of the mutex
or two waits. The test of a predicate and the sleep that follows are two steps of
one critical section (`writer = "sleep"`): whoever takes the mutex cannot come in
between, but `stop()` stores `running_` without it.

**PieceStore.** Content is a Boolean: the right bytes or others. `card` is what a
read of the files returns, `disk` what a crash leaves: they differ by the tail of
the last write, still in stdio's buffer when it does not fill it (`Tails`; the other
blocks are written through by the next `fseeko`). Sizes are counted in pieces, files
grow at once, `Elsewhere` is what other files take of the card, `free = 0` stands
for "unknown" as in `util::disk_free`. `faults` is what may go wrong together in a
behaviour, chosen at its start in `FaultSets`: a crash, an access that fails
halfway, a tail, a file found that is too short and cannot grow ("ordinary": begun by
an earlier version on FAT32, which `open()` recreates), blocks that come before the
check of a start ("early": unasked, in the poll that brought the metadata). `Scan` is
that check: a piece whole in memory is judged there (`Verified`), what memory holds of
another is flushed and the card read. `fresh` is `created_fresh_`. `state` adds, for the
time when no `Torrent` exists, "Off", "Closed" and "Gone".

**Swarm.** The engine is one thread; `phase` says where it is: "start" (tick of each
peer), "delays" (both clocks), "tick" (after the purge of closed peers: connections,
metadata, verdicts), "request" (`request_blocks` of each ready peer), "send" (its
picks are being sent), "poll". A failing send may happen at any of the requests
(`SendFails`). Verdicts come from the writer's thread; the synchronous path is
`PieceStore`'s. `allowed` is what a behaviour includes: a start from a magnet, or with
the pieces of a resume file, a peer that repeats itself (`Repeaters`, about `Repeated`
pieces), a send that fails, a lie about the metadata. A block may come that the peer
never announced. Two clocks run for one request, as in the code: the peer's and the
picker's.

**SessionQueue.** `queued` is `queued_`, `user_paused` is `user_paused_`, and `Gate`
is `apply_gate()`, which computes a state from both. Every command and every event
of the engine that sets a state is an action; a failed torrent that is still connected
takes blocks, and its last piece makes it seed (`MayFinish`). Two histories serve the
properties: `stirred`, what may have given a slot to a torrent since the last balance,
and `revived`, the failed torrents that seed although `apply_gate()` was not asked.

**SessionCommands.** An add is four steps of its caller, each under its own lock:
the queue, the snapshot, the file, the push. A removal is three of the remote page
(both halves of `has_torrent()`, so that an add still queued can be removed, and the
push), two of the interface (its list, the push). `Stop` and `Crash` both end with the
command queue lost; `Start`, `RestoreOpens` and `RestoreAdds` are `restore_torrents()`,
which opens every link for writing before it writes it again. Callers come after
`start()`. `wanted`, `unseen` and `crossed` are histories: the torrents whose latest order
is an add, those removed before any snapshot showed them, and those whose adds and
removals have crossed: a removal during an add, or an add while a removal is queued, or
under way for a torrent that callers do not see. `Told` is the batch the engine
has in hand followed by the queue, and `After(t, s)` whether `t` is there once the
commands of `s` are done: the invariant is about what every order will come to.

**WireGuardPeer, WireGuard.** The exchange of keys is abstracted to its outcome: an
initiation draws a fresh index and is numbered, keys bear the number of the
initiation they were agreed in, and a message is authentic when made with those
keys. `remote_index_` is left out: it is only written into messages for the relay. A damaged response still spoils what the handshake accumulated, as in the
code. Instants are ages that saturate at the delay they are compared with. `WireGuard`
lets the methods come in any order over a network that keeps every message.

**Tunnel.** Who polls or resolves holds the recursive mutex and pumps. A send of a
socket does not take it, so `encapsulate()` is three steps (`OutputPacket`,
`ReadCounter`, `Seal`) between which the other thread goes on. `raced` remembers that
two threads were in `wg::Peer` at once: the code does not prevent it, and a
property with `raced` says what is lost then and only then.

**TunnelSockets.** lwIP is external: it calls back, within a pump, with the next unit
of data, a close, an error, a datagram or the answer to a query. `linked` are the
connections whose callbacks are set. `recv()` is two steps when a pump of the other
thread may come in between; `interrupted` remembers that one did.

**Vpn.** A transport is `None`, `Direct` or a tunnel's number. The engine reads the
rules, then the transport, then ticks, follows with the DHT and polls: five steps,
between which the user and the worker act. Peers are known by the transport their
sockets came from, and those of failed torrents (`failed`) are apart: `tick()` returns
for these before it looks at the transport, so that they are neither dropped nor
replaced, and they are in the poll when there is one (`Polled`). `setting` is who is inside `set_transport()`;
`held` is `tunnel_`, and then `disconnect()`'s local, which takes it over before the
direct transport is set.

**Dht, Announces, Discovery.** Time is counted in steps of a search. A query is named
by whom it asks and what. One torrent is enough for the DHT: searches share the
table only. The trackers are a list, which may name one twice as the magnet link did:
each entry has its job. `told` is what the trackers received of the current torrent's
events, in order and with the entry each was sent for, and
`delayed` says that an answer for a removed torrent was credited to its successor.

**Servers, App.** A server's thread goes from poll to accept, headers, body, handler
and reply; a request is the number of calls to the session its handler makes. A
frame of `App` copies the list, draws (`panel` is the torrent shown) and takes one
input. `held` is `overlay_hash_`, `flag` a worker's atomic, `work` its thread, `todo`
the blocking calls of the main thread that are left.

## Runs

| Run | Shows | Bounds, and why they are enough | States |
|---|---|---|---|
| `picker` | counters, reservations, clocks and verdicts agree in every order of operations | an endgame with pieces left, a short last piece, a sample smaller than the torrent, a saturating counter; the proofs cover every size | 143 000 |
| `writer` | order, budget, exit, the contract; `submit()` returns, and `stop()` when the thread was not about to sleep | pieces of which several fit in the budget and one never does; four submissions | 216 000 |
| `store` | `have`, the resume file, verdicts and memory are right, with stops, crashes, recreated files, accesses that fail halfway and tails in stdio's buffer | two pieces of two blocks, memory for one: one piece in memory, one on the card, one in both; five sets of faults, blocks that come before the check among them | 1 526 000 |
| `queue` | brakes, limit, order, stability, and a waiting torrent is served | two torrents, limits 0, 1 and 2, seven commands: one runs, one waits, each comes, fails and goes | 214 000 |
| `commands` | the last order wins, no stray link, an accepted torrent survives, the snapshot catches up | two callers, two torrents, six orders: removals before and after the engine sees the add; behaviours with adds over removals, others with stops and crashes | 1 022 000 |
| `swarm` | a peer behind every reservation, right availability, progress shown, no piece overlooked, the download ends | two peers, a piece of one block and a shorter one, one trouble: a peer that goes, one that stays and takes over; true and false sizes of metadata; a counter that a peer saturates by repeating itself, above twice the peers, while the other piece is had | 573 000 |
| `wireguard` | a packet delivered once, a counter used once, an exact window | a window of two, four counters on each side, two handshakes: repeated within the window, below it, and after a renewal; the proofs cover every size | 288 000 |
| `tunnel` | one thread in the mutex, keys when up, no reuse of a counter but by a race, a tunnel that comes back | two threads, two handshakes on their way, a damaged response | 1 060 000 |
| `tunnel_sockets` | bytes in order, the close after the last, callbacks and answers for whom they are meant, `resolve()` returns | two connections of three units, compaction past one; two names asked one after another | 985 000 |
| `vpn` | what the session uses lives, sockets polled by their own transport, nothing direct against the rule, attempts end | two accounts, two tunnels one after another; sockets of running and of failed torrents on each path | 1 959 000 |
| `discovery` | events once, silence when due, announces go on, peers found | three nodes, two with one address, found one through another; lists of no tracker, of one over UDP, and of three over HTTP, one named twice | 202 000 |
| `app` | orders as shown, results whole, session outlives its users, nothing left up, shutdown ends | two torrents, two ports, four uses of the program, each with a server | 392 000 |

Each property of these runs has a mutant: a plausible bug in one mapped definition
that makes TLC refute it under the same configuration. The mutants stand before the
definition they change. A property of a run that is a conjunction (`IInv`,
`StoreInvariant`, `QueueInvariant`, ...) has its parts stated and commented above it.

Bounds are named constants (`MaxSubmits`, `MaxCommands`, `MaxOrders`, `MaxTroubles`,
`MaxKeys`, `MaxCount`, `MaxDamaged`, `MaxPcbs`, `MaxTunnels`, `MaxJobs`, `MaxAdds`,
`MaxItems`, `MaxTasks`) and stand in guards. Deadlock is checked except where the
system may really stop: a writer that was stopped, a session at its bound of orders,
a program that was left. Symmetry is used for the pieces of `store`, which has no
liveness. A behaviour chooses at its start what may go wrong in it (`faults`,
`allowed`, `uses`, `rules`), so that one run covers several worlds; a property that
the code only keeps in some of them says so in its premise.

## Fairness

- `PieceWriter`: weak fairness of each thread. A thread of the system's scheduler
  that can go on does so; the mutex is held for a few instructions. Spurious wakeups
  may happen, finitely many: the standard allows them and promises none.
- `SessionQueue`: the turn goes on; strong fairness for connection, metadata and
  last piece of a torrent, because turns interrupt them: a torrent that nobody
  serves does hold its slot for ever in the code too.
- `SessionCommands`: the engine and the callers' calls go on.
- `Swarm`: the engine turns (weak) and time passes at the end of turns (strong: other
  turns end without a second having passed). One strong fairness for everything that
  may come from outside: a peer that connects, announces, unchokes, answers a
  request in time or gives the metadata, or a verdict. Strong, because turns
  interrupt it; one for all, because each of these can only happen finitely often
  between two others. Troubles are finitely many. `Completes` then says that nothing
  in the client stands in the way, and excepts the case of a false size that stays, and of a counter saturated by a peer
  that repeats itself.
- `Tunnel`: what a thread began it ends, the engine polls, time goes on; the relay's
  answer to the current initiation, sent again every `kRekeyTimeoutMs`, arrives
  again and again while a thread reads.
- `TunnelSockets`: time goes on and `resolve()` looks at its result after each pump.
- `Vpn`: the worker's calls all end, in an answer or a time-out; the engine's turns
  and `disconnect()` go on. No fairness for the handshake: a relay may be silent.
- `Discovery`: turns go on, calls of the announce thread end, a node asked again and
  again answers in the end, a host name resolves and a socket opens in the end, as the
  engine asks at every turn.
- `App`: threads are scheduled; a client is waited for a bounded time (`SO_RCVTIMEO`
  and the server's deadlines); entries, sources and tests end. No fairness for the
  user nor for clients.

## What the code does not keep

Comments and documents of the repository state the following, and the models show
that the code does otherwise. No run is kept for them: to see one fail, replace the
properties of the configuration by the one named (as an invariant or a property,
without the symmetry), with the change of the last column.

| Property | Configuration | What happens | What is stated | Change |
|---|---|---|---|---|
| `StopReturns` | `PieceWriter` | `stop()` stores `running_` without the mutex between the thread's test and its sleep: the wakeup is lost, `join()` waits for ever (`bt/piece_writer.cpp:22`) | `src/include/bt/piece_writer.hpp:44` | |
| `HaveIsRight` | `PieceStore` | a wrong block that comes after the verification is written over the piece (`bt/session.cpp:502`) | `src/README.md:289` | `FaultSets <- MCLate` |
| `HaveIsRight` | `PieceStore` | `open()` recreates a file that cannot grow; a crash before the check, for instance of a torrent restored paused, leaves a resume file that lists pieces that are gone, and the next start, which finds a file of the right size, believes it (`bt/session.cpp:258`, `bt/storage.cpp:164`) | `bt/session.cpp:259` | `FaultSets <- MCRecreated` |
| `HaveIsRight` | `PieceStore` | a flush that fails when a handle is evicted is noted and forgotten (`bt/storage.cpp:311`) | `bt/storage.cpp:309` | `MCLate == {{"tail", "flush"}}`, `FaultSets <- MCLate` |
| `ResumeIsTrue` | `PieceStore` | the resume file vouches for bytes still in stdio's buffer (`bt/session.cpp:817`) | `bt/session.cpp:248` | without its premise on tails, `MCLate == {{"tail", "crash"}}`, `FaultSets <- MCLate` |
| `HadIsOnTheCard` | `PieceStore` | a piece that came whole before the check of a start is judged in memory, counted as had, listed in the resume file and announced; its bytes are not written, and peers are served from the card (`bt/storage.cpp:573`, `523`) | `src/README.md:289` | `FaultSets <- MCEarly` |
| `HaveIsRight` | `PieceStore` | and a crash before they are leaves a resume file that lists that piece, which the next start believes (`bt/session.cpp:297`) | `src/README.md:289` | `FaultSets <- MCEarly` |
| `ResumeForgetsNothing` | `PieceStore` | a stop before the check saves an empty list over a good one (`bt/session.cpp:977`) | `src/README.md:290` | |
| `ReopensWhatItStarted` | `PieceStore` | the free space is compared with the whole size, files already there included (`bt/storage.cpp:94`) | `bt/storage.cpp:107` | |
| `ClosedQuietly` | `PieceStore` | `delete_files()` closes the storage before the writer has stopped (`bt/session.cpp:449`) | `bt/session.cpp:83` | |
| `FinalResumeIsComplete` | `PieceStore` | the last resume file misses the writer's last verdicts (`bt/session.cpp:977`) | `bt/session.cpp:974` | |
| `LimitWhenTicked` | `SessionQueue` | a check ends after `update_queue` and one torrent too many is ticked (`bt/session.cpp:1326`) | `bt/session.cpp:1257` | |
| `NoBackAndForth` | `SessionQueue` | a running torrent is put back because another's check ended, with no order of the user (`bt/session.cpp:1284`) | `bt/session.cpp:1260` | |
| `FirstComeFirstServed` | `SessionQueue` | a later torrent keeps its slot while an earlier one waits (`bt/session.cpp:1277`) | `bt/session.cpp:1259` | |
| `PausedIsStill` | `SessionQueue` | a torrent that failed, even paused by the user afterwards, takes the last block of a peer still connected and becomes Seeding (`bt/session.cpp:495`, `570`) | `bt/session.cpp:854` | |
| `MagnetKept` | `SessionCommands` | remove then add: the engine's handling of the removal deletes the new link (`bt/session.cpp:1243`) | `src/README.md:62` | |
| `AcceptedSurvives` | `SessionCommands` | a torrent removed from the remote page while its add is queued, and added again while the engine still has both orders before it: the new add's link goes with the removal, and the torrent is there without it (`bt/session.cpp:1050`, `1243`) | `src/README.md:62` | `unseen \ cached_status` left out of `crossed` in `LookAtSnapshot` |
| `AddedIsNew` | `SessionCommands` | two adds at once, or one between batch and snapshot: an add of a torrent already there is answered as added (`bt/session.cpp:1048`) | `bt/session.cpp:1044` | |
| `RemovedStaysAway` | `SessionCommands` | a removal queued at a clean stop is lost (`bt/session.cpp:967`) | `bt/session.cpp:1241` | |
| `LinkOutlivesTheProgram` | `SessionCommands` | `restore_torrents()` empties each link before it writes it again: a crash in between loses it (`bt/session.cpp:1026`) | `src/README.md:62` | |
| `NoneHeldByTheGone` | `Swarm` | requests go on to a peer that the previous send closed: their blocks stay reserved to it until they expire (`bt/session.cpp:777`) | `bt/session.cpp:626` | |
| `NothingGoesDirect` | `Vpn` | with the VPN required and down, a torrent that failed keeps the sockets it has, unpolled but open (`bt/session.cpp:139`) | `bt/session.cpp:144` | `failed` in place of `Polled` |
| `EachEventOnce` | `Discovery` | a magnet link that names a tracker twice gives it two jobs per announce, and it hears "started" twice (`bt/magnet.cpp:55`, `bt/session.cpp:1384`) | `bt/session.cpp:323` | |
| `AvailabilityIsCount` | `Swarm` | a peer closed before the metadata stays counted (`bt/session.cpp:755`) | `src/include/bt/piece_picker.hpp:3` | premise `meta_complete` instead of the absence of "magnet" |

Differences of the same kind that show in the models' actions, found by reading:

- Picker: a counter that reaches 0xffff hides its piece from `pick()`, whose comparison
  is strict (`bt/piece_picker.cpp:172`, `187`). Sixty peers do not take it there; one
  that repeats its bitfield does, since `peer_added` counts it each time. `Completes`
  without `Hidden` fails.
- Tunnel: once the keys are older than `RekeyAfter` every pump sends a new
  initiation, so that an answer slower than a pump is refused until the keys expire
  (`net/wg/wireguard.cpp:370`); `GiveUp` may write `Handshaking` after another thread
  set `Up`, or after `stop()`; `on_recv` calls `tcp_recved` at once, though the comment
  of `net/wg/tunnel.cpp:241` says that the reader does; a connection refused at once is
  detached, not freed (`tunnel.cpp:284`); the answer of a query given up fills the
  next one's `dns_`, which is why `AnswersItsQuestion` has a premise; a keepalive that
  cannot be sealed leaves the state `Up`.
- Metadata: the first size heard is not reset unless all the pieces came and the hash
  failed; after a rejection peers that gave their size do not give it again, and the
  torrent waits for a new one (`Misled`); only the first ready peer that supports
  the exchange is asked (`bt/session.cpp:727`), a mute one holding up the others:
  the model lets any be asked.
- Transport: `Manager::update()` never has anything to report (`vpn/manager.cpp:204`);
  a `set_transport()` between the commands and the reading of the transport lets the
  former peers be polled through the new one in that turn (`Switching`); the announce
  thread takes `transport()` without asking `require_vpn` (`bt/session.cpp:1465`); with the
  account changed under the worker, the device stored is the former account's (the premise
  `edited` of `DeviceIsOurs`).
- Discovery: a search under way when the metadata say "private" goes on for up to
  90 s, and answers are still added (comment at `bt/session.cpp:1359`); stopped
  torrents are searched for as well; `known_peers_` never shrinks, so that 60 dead
  peers end the searches; a table of 16 dead nodes is never filled again from the
  routers; "started" counts as sent even if its job fails; with several trackers the
  interval of the last reply wins (`bt/session.cpp:365`); an answer for a removed
  torrent delays the one added again (`delayed`); "stopped" is never sent; the
  queue of announces has no bound (here `MaxJobs`).
- Interface: `run_action` with the torrent gone closes the menu and keeps
  `overlay_hash_` (`ui/app.cpp:498`), and so does the end of an extraction (439); A
  and B at once in a confirmation clear it and return to the menu, which then follows
  the cursor (the premise `held # None`); an extraction clears its cancellation when
  it begins (`util/archive.cpp:121`), so that a shutdown may wait for a whole archive;
  an accept that fails ends the server's thread with `running_` true, and `start()`
  then answers true without listening; "les deux ne tournent jamais ensemble"
  (`ui/app.cpp:41`) is enforced by nothing; the VPN's worker uses the session as well, and
  `shutdown()` does not end it before `session_.stop()`.

## Proofs

The picker, in `SwarmProofs`, under `PickerAssumption` (`BlockSize` and the sizes of the
pieces are positive; there may be any number of pieces) and nothing else:

- `PickerInvariant`: `IInv` is inductive. `CountsMatch` alone is not: that a drop
  does not take a counter below the truth needs `ReservedIffTimed`; that the last
  block is announced once needs `CompleteIffHanded`; that `set_have` erases nothing
  in flight needs `HaveIsSettled` and `FreshUnlessStarted`. The lemmas on blocks of
  a piece (finite, counted by adding or removing one) carry the arithmetic; then
  there is one lemma per operation.
- `CountersAreRight`, `NoReservationForgotten`, `CompletePiecesAreHanded`,
  `VerifiedIsSettled` follow; `NothingReceivedIsLost` and `OnePeerPerBlock` are action
  properties proved step by step from the invariant.
- `ProgressIsRight`: `bytes_done_` is the sum of the sizes of the pieces that are had.
  The sum is a fold; `SumIsUnits` shows, by a smallest counterexample, that it is the
  number of the bytes of these pieces taken one by one, of which the library's facts
  about finite sets say what one piece more adds.

The swarm, in the same module, for any peers, requests in flight, bitfields and metadata, under
`PickerAssumption` and `SwarmAssumption` (a timeout above zero, and a counter of
availability that holds more than twice the number of peers: the code has `uint16_t` for
at most 60):

- `SwarmIsRight`: `SwarmInvariant` is inductive. `HeldBySomeone` and
  `NoPieceOverlooked`, the two that matter, are not by themselves. A reserved block has
  a peer behind it because that peer's clock is never ahead of the picker's, and
  because what the picker holds for too long expired earlier in the turn
  (`ClocksAgree`); so that `PeerConnection::tick()`, which drops requests on its own
  account, only drops what nobody counts on. A piece that a peer has is counted
  because every announcement was counted at least once, and a close uncounts at most
  one (`CountedForEach`); and its counter is not saturated, unless someone repeats what it
  announced, because what it counts too much are peers that had gone when the metadata
  came (`CountIsBounded`). `TurnIsOrdered` says that the peers whose turn is to come
  and the picks that are being sent are still those of connected peers;
  `NothingTooEarly`, what does not exist before the metadata or the handshake.
- The proof takes the lemmas on the picker for what an operation does to it, and has one lemma per handler. `CountsLess` and `CountsMore` are what a close
  and an announcement do to the counters, `ClocksKept` what a step that serves nobody
  new does to the clocks.
- `PiecesAreFound` follows: what a connected peer has is counted, and below the counter's
  limit as long as nobody repeats itself: `pick()`, which passes over a piece at either
  end, does not pass over it.

`PieceWriterProofs`, for every set of pieces, sizes and budget:

- `WriterInvariant`: `InOrder`, `WithinBudget` and `DrainedAtExit` become inductive
  with `Phases`, which says where the two threads may be together (the thread exits
  only after `running_` is false, and then nobody submits).
- `NothingLostOrOvertaken`, `MemoryIsBounded`, `ExitsDrained` follow.
- `ImplementsContract`: every step of the two threads is a step of `WriterContract`
  or leaves it unchanged; `PieceStore` relies on that contract.

`PieceStoreProofs`, for any pieces, blocks, budget, capacity and sets of faults, under
`StoreAssumption` and the promises of `WriterContract`:

- `StoreKeepsItsBooks`: `Structure` is inductive, whatever fails: types, memory within
  its budget (`MemoryIsBounded`), and the accounts that three parties keep of a piece.
  The writer answers for what it was given (`AnswersMatch`), a piece is in its hands
  once (`HandedOnce`), the picker awaits a verdict for it and for no other
  (`PickerAgrees`), and a buffer holds what arrived (`BuffersAsArrived`).
- `StoreIsSound`, from it: `HaveIsRight`, with what makes it inductive (the writer's
  "written" is true until collected, the resume file lists right pieces, wrong bytes wait
  in memory only for a piece still to be judged). Right means on the card, or whole and
  right in memory for a piece that came before the check (`Remembered`): it stays there
  until it is written, since nothing takes it for one in progress. It is stated for the faults that can be
  survived, and the combinations that `Survivable` excludes are those where the code does
  fail ("What the code does not keep"): a wrong block that comes late; a block that comes
  early with a crash or a failing access; a tail in stdio's
  buffer with a flush that fails or a crash; a crash after a file was recreated. In
  every other combination, accesses that fail halfway included, nothing damaged is had
  (`NothingDamagedIsHad`).
- `BlocksAreNotLost`: a block counted is in memory or on the card as it came; it needs
  `Structure` only. With it `StoreIsRight` gives the whole invariant of the run, and
  `PiecesJudgedOnWhatArrived` the action property: a verdict is about the blocks that
  came last, unless a tail and a failing flush may meet.

`SessionQueueProofs`, for any torrents, limits and numbers of commands:

- `QueueIsRight`: `QueueInvariant` is inductive. The brakes hold but for the torrents of
  `revived`, which seed until the user speaks again (`BrakesHold`). The limit holds until something stirs
  the queue (`LimitUntilStirred`); that no slot stays free needs that a promotion takes
  as many as there are slots, and a demotion as many as there are too many (`Promotion`,
  `Demotion`: the oldest and the youngest of a finite set, by the lemmas `Smallest`,
  `Oldest` and `Youngest`).
- `StableQueue` and `YoungestGoesBack` are about steps: only `UpdateQueue` puts a
  running torrent back, which leaves those that stand before it. `SteadyQueue` joins
  them, the action property of the run.

`SessionCommandsProofs`, for any callers, torrents, orders, stops and crashes:

- `OrdersAreObeyed`: what the run checks once everything settled (the latest order
  won, no link is left of a removed torrent) follows from an invariant about what is
  still to be done. For each torrent whose adds and removals have not crossed: no
  removal that will take its file stands in the queue while a caller is about to write
  it or may add it again, no add follows such a removal, and the file is there unless
  one does (`NotTakenBack`); because what callers see of it is what the batch in hand
  will leave (`SeenInTime`). Both except the torrents of `unseen`, removed while their
  first add was still queued: no caller knows them any longer, the removal will pass, and
  an add that finds them so is one that crossed. `Saying` and `Doing` are the two lemmas that carry it: one
  command more at the end of the queue, one less at its head.
- `AcceptedTorrentsSurvive` follows: at every instant the file or an order is there.

The session of WireGuard, in `VpnProofs`, for every window, delay and number of
handshakes and counters:

- `SessionInvariant`: `IInv` joins `DeliveredOnce` and `SentOnce` with what makes
  them inductive: keys are only replaced by those of a later initiation, and what was
  sent under them is below the counter (`KeysAreAgreed`); the window is exactly the
  memory of what was delivered under the present keys, as far as it reaches
  (`WindowIsMemory`). Each step has its lemma; `DataStep` is the one about
  `decapsulate()`, by cases on the counter: above the window, inside it, at its edge.
- `PacketsOnce`, `CountersOnce`, `WindowExact` follow.

The tunnel and its sockets, in the same module, for any keys, counters, delays, bytes,
hosts and room, under `WireGuardAssumption`, `TunnelAssumption` and
`TunnelSocketsAssumption` (sizes are natural numbers, there is room for two handshakes,
and "no answer" is no host):

- `TunnelIsRight`: `TunnelInvariant`, of which `ReadyHasKeys` matters, is inductive. That
  a counter leaves once only is not, by itself: `CounterToCome` says that while no thread
  disturbed another, whoever is about to seal holds the counter to come and those that
  left are below it. Renewals, expiries, refusals and keepalives keep it, and so
  `CountersRepeatByRace`: a counter is used twice only after two threads were in
  `wg::Peer` at once.
- `BytesInOrder` and `CloseComesLast`: what was read and what is still to be read is what
  arrived, because the position stays within the buffer (`ReadWithin`), and because a
  `recv()` about to clear the buffer, or one that told the close, had read it all, unless
  a callback came in the middle (`NothingLeft`). The two sides of the module are proved
  apart: the TCP socket (`TcpInv`) and the resolution (`NamesInv`), where `OneQuestion`
  says that lwIP is asked about nothing else than the name in hand.
- `SocketsAreRight` is the invariant of the run: no callback reaches a socket that let
  go, and an answer is about the name that was asked.

The manager, in the same module, for any accounts, number of tunnels and patience:

- `ManagerAgrees`: `VpnInvariant` is inductive. `TransportLives`, `HeldTunnelLives`
  and `DeviceIsOurs` say what matters; `OneTunnel` (whose the one tunnel is at each
  place of the worker and of `disconnect()`), `JobIsOurs` (the worker's locals belong
  to the account unless it was changed under it) and `OnePath` (what the engine read,
  its peers and the session's transport, as far as the turn has come) make them
  inductive. The engine's steps leave the first part alone (`EngineKeepsManager`), the
  manager's leave the last one alone (`SamePath`), but for `set_transport()`. Without a
  path the running torrents have no peer; nothing of the kind is said of the failed ones,
  whose sockets belong to the transport of the session all the same.
- `OwnPoll` and `PathIsTunnel` follow from `OnePath`.

`DiscoveryProofs`, for any nodes, distances, trackers, settings, delays and numbers of
additions, under `DhtAssumption` (a table has room for a node) and
`DiscoveryAssumption`:

- `EventsToldOnce`: `DiscoveryInvariant`. That each event is told once for each entry of
  the list of trackers, "started" before any "completed", is about what was heard; what makes it inductive is about everything still on its way to it.
  `OrderInv`: along what was heard, the job in hand and the queue, no event comes twice
  for an entry nor a "started" after a "completed", and no "completed" is there before
  the torrent noted it. `FirstInv`: a torrent that has not noted "started" has no job, answer or
  event of its own anywhere, and is due, unless the answer to a removed one put it off.
  `TorrentInv`: nothing on its way is for a torrent to come. A turn appends at most one
  event for each entry (`TurnParts`), and what it appends fits behind what is on its
  way (`NextEventFits`); the announce thread takes from the head (`TakeJobKeeps`) and
  the tracker hears or does not (`HearsKeeps`, `GoesOn`).
- `GoneFallsSilent`: `GoneIsSilent`, the half of `FallsSilent` that is about steps. The DHT
  searches only for a torrent that is there (`SearchInv`), and each of its operations
  asks nothing about a torrent that it does not search for (`Silent`, one lemma per
  operation). The other half is a liveness property.

`AppProofs`, for any finite set of torrents, and any ports, tasks and lengths of requests:

- `NoThreadOutlivesSession`: `AppInvariant`. The order of the shutdown is what makes it
  inductive: the calls left to make are those from the i-th on, and what the calls before
  it stop is stopped (`CallsInv`, `EndedBefore`); a server that runs has a thread, and one
  with a thread has its session (`ServersInv`).
- `OrdersWhatIsShown`, an action property: the panel shows the torrent that the menu
  holds, or one that is still in the list the frame copied (`MenuInv`), rows never
  repeating a torrent (`RowRemoved` and the other lemmas on lists).

Only model-checked, because fairness and ENABLED are beyond the prover: the liveness
properties `SubmitReturns`, `StopReturnsOutsideWindow`, `WaitingIsServed`,
`SnapshotCatchesUp`, `Completes`, `ComesBack`, `ResolveReturns`, `ConnectEnds`,
`AnnouncedAgain`, `PeersFound`, `ShutdownEnds`, and `PrivateFallsSilent` in `FallsSilent`.
`KeepsContract` is proved without its fairness (`ImplementsContract`). Every safety
invariant and every action property that a run checks is a theorem.

## Not modelled

- Storage: files beyond 4 GB and their probe, growth by 32 MB, the layout over
  several files.
- Peers: framing, PEX, uploads, keep-alives, the connection cap and cooldown.
- Networks: parsing and encoding of replies (trackers, DHT, VPN's API, HTTP), BSD
  sockets, lwIP and its timers, TLS.
- WireGuard: `remote_index_`, overwritten by a response before it is authenticated; it
  only addresses messages to the relay.
- Manager: `load()` and `save()` of its settings.
- Interface: drawing, texts, the tabs' contents. Three things there are worth
  knowing: `import_inbox` (`ui/app.cpp:645`) may add and delete a file that the
  phone's handler is writing (`ui/phone.cpp:193`); rewriting `magnets.txt` drops
  comments, splits lines of more than 2047 characters, and a crash between its
  opening and its writing loses the lines refused; `refresh_library` returns before
  it notes its time while a torrent lacks its metadata, so that the directory is read
  at every frame.
- Parsers (bencode, magnet, metainfo, JSON), cryptography, archive formats, QR codes:
  sequential functions of bytes, with test vectors in `src/tests/host_tests.cpp`,
  which an enumeration of small inputs would not improve on.

## What could come next

1. The inbox shared by the interface and the handlers.
2. The connection cap, cooldown and PEX in `Swarm`.
3. The layout of a piece over several files, and `Bitfield::from_bytes`, as functions
   checked against their definitions.
