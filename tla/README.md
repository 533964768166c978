# A verification project for the multi-process browser engine

TLA+ modules, TLC configurations and TLAPS proofs for the engine in `src/`
(paths below are relative to `src/src/`). The engine splits a browser into a
trusted broker and sandboxed components that talk to it over message sockets.
What makes it correct is not in any one function but in the broker's
bookkeeping over many interleaved messages: which process stands behind a tab
*now*, which replies are still owed and to whom, which permits and slots come
back. That is what the modules are about.

## 1. The system

| Component | State it keeps | Operations | Talks to | Hard behaviour | What makes it correct |
|---|---|---|---|---|---|
| **Engine loop** `engine.rs` | `tabs` (origin, epoch, in-flight counters), six `pending_*` maps, crash and restart windows, id counters | `open_tab`, `tab_command`, `swap_renderer`, `tab_request`, `broker_decode`, `net_reply`/`net_stream`, `decode_reply`, `storage_reply`, `font_reply`, `cookie_visible`, `drop_tab_crashed`, `respawn_service`, `shutdown` | everything | stale messages of replaced renderers, late replies, failed sends in the middle of a handler, services that die with requests in flight | slots equal what is pending; each request answered exactly once and only to who asked; ceilings hold |
| **Inbox, gates, readers** `engine.rs` | one unbounded queue, one counting `Gate` and one thread per link | `Gate::acquire/release/close`, the reader loops, `EngineHandle::send` | sockets, loop | a thread caught between the check of the gate and its message; a respawn between enqueue and dequeue | permits conserved, no thread stuck, a death acted on once and only on the right generation |
| **Storage, font, device** `storage.rs`, `font.rs`, `device_service.rs` | storage: partitions and their quota | `handle`, `admit_write`, `serve` | loop | both ends blocked on full sockets; state lost at respawn | quota never exceeded, no circular wait |
| **Net** `net_daemon.rs`, `orb.rs`, `ip_utils.rs` | vault link, redirect state of one request | `serve`, `follow_redirects`, `handle_fetch`, `handle_subresource`, `vault_get`, `stream_blob` | loop, vault, ring | redirects that change the site, a vault that dies mid-exchange, death that nobody reports | cookies only for the right site and only through the vault; CORS/ORB verdicts; no request to a private address |
| **Vault** `vault.rs` | the cookie jar | `serve`, bind and unbind by net, bounded respawn by the loop | net, loop | fails over to the broker's own jar | cookies fail closed |
| **Body ring** `ring.rs` | two wrapping 32-bit positions, a completion flag, a data area | `write_all`, `finish`, drop, `consume` | net, renderer | lock-free single-producer single-consumer, futex waits, counter wrap | the consumer gets the producer's bytes, in order, once, and knows whether they are all |
| **Renderer** `renderer.rs` | page being rendered | `serve`, `render_page`, blocking exchanges | loop | commands arriving in the middle of an exchange | an answer is taken as the answer of its own request |
| **Fork server, decoders** `fork_server.rs`, `decoder.rs` | its children, the first process of their PID namespace | `run`, `fork_pinned_init`, `verify_fork_server_filter`, `fork_child`, `serve_one` | loop, kernel | a fork that fails or traps, a death between fork and its first call, children nobody can kill | every spawn is heard of, the namespace stands, a shutdown ends everyone |
| **Framing** `ipc.rs`, `channel/` | – | send and receive a frame, pass a descriptor | all | – | order, end of file |
| **Tiles** `shm.rs` | – | create, seal, map and validate | renderer, loop | – | a mapped tile cannot change or shrink |
| **Sandboxing** `sandbox/linux.rs` | the filters, Landlock domains and control group of each process | `prepare`, `restrict_broker`, `install_with` and the `lock_down_*` of each role, `place_child`, `cleanup` | kernel, C library | filters stack over fork and exec; what `fork()` issues depends on the C library; a process runs before it is moved | nobody dies of a filter by doing its work, nobody serves with more than its role, content is memory-bounded |
| **Spawning** `spawn/` | handles of children | `Spawner::new`, `spawn`, `spawn_vault`, `shutdown_forkserver` | kernel | failures in the middle of a spawn | see above |
| **Drivers** `main.rs`, `selftest.rs`, `lib.rs` | – | demo and probes | – | – | – |

## 2. The modules

| Module | Models | Runs / proofs |
|---|---|---|
| `Broker.tla` | the tables of the event loop (`engine.rs`) | `MCBroker.tla` with `MCBroker.cfg`, `MCBrokerCookies.cfg`; `BrokerProofs.tla` |
| `Inbox.tla` | reader threads, gates, queue and the loop as it acts on them (`engine.rs`) | `MCInbox.tla` with `MCInbox.cfg`; `InboxProofs.tla` |
| `Services.tla` | the link of a filesystem service with both socket buffers, and the storage service with its budget (`engine.rs`, `storage.rs`) | `MCServices.tla` with `MCServices.cfg`, `MCServicesStuck.cfg`; `ServicesProofs.tla` |
| `Fetch.tla` | one request to the network: origin checks, redirects, address policy, CORS, ORB (`engine.rs`, `net_daemon.rs`, `orb.rs`, `ip_utils.rs`) | `MCFetch.tla` with `MCFetch.cfg`; `FetchProofs.tla` |
| `Seccomp.tla` | the filters as values, what a stack of them answers, what each role and C library issues (`sandbox/linux.rs`) | through `Processes`; lemmas in `ProcessesProofs.tla` |
| `Processes.tla` | the processes on Linux from the start of the broker to the end of the last (`sandbox/linux.rs`, `spawn/`, `fork_server.rs`, `decoder.rs`, `engine.rs`) | `MCProcesses.tla` with `MCProcesses.cfg`; `ProcessesProofs.tla` |
| `Ring.tla` | the shared-memory body ring (`ring.rs`, `net_daemon.rs: stream_blob`) | `MCRing.cfg`, `MCRingShort.cfg`; `RingProofs.tla` |
| `Stream.tla` | what the ring promises: a bounded pipe | the property `IsAPipe` of `MCRing.cfg` |
| `Vault.tla` | the cookie vault, net as its client, the broker's respawn and its own jar (`vault.rs`, `net_daemon.rs`, `engine.rs`) | `MCVault.cfg`; `VaultProofs.tla` |
| `Page.tla` | a page load: the renderer, its link, its reader thread and the loop (`renderer.rs`, `ipc.rs`, `engine.rs`) | `MCPage.cfg`, `MCPageClose.cfg`; `PageProofs.tla` |

Definitions marked *broken variant* in a comment are what a plausible slip in the
code would look like. No action uses them; each exists to show that a property
notices that slip.

### Broker

The loop is single threaded, so one message handled is one action: everything
`run` does for that message, teardown and failed writes included.

* `tabs[t]` is the `Tab` record or `None`; its fields are the site (zone and
  origin), the `epoch` and the two in-flight counters. `pending[k][id]` is the
  entry of the map `pending_<k>`. `crashes[s]` is the length of the crash window of
  a site. `wire[k]` holds what was handed to a component and may still be answered.
* `OpenTab`, `Navigate` (which forwards or calls `SwapRenderer`), `CloseTab`,
  `Shutdown`, `TabGone`, `FromTab` (with one operator per request kind), `NetReply`,
  `NetStream`, `DecodeReply`, `StorageReply`, `FontReply`, `CookieVisible`,
  `ServiceGone` and `CrashAges` are the handlers. `FromTab(t, e)` lets *any*
  generation that was ever spawned for `t` speak: messages of replaced renderers
  are in the queue when the swap happens.
* `sent = FALSE` in `SendToTab` is a write error or write timeout: the tab is torn
  down inside the handler that wrote.
* The order in which `respawn_service` fails waiting requests is that of a hash
  map; `FailPendingFor` chooses which renderers still heard theirs.
* `generation`, `asker`, `receiver` and `told` are history: who asked, who was
  answered, and what the embedder was told. No handler reads them.

Left out of `Broker`: the two cookie jars and the vault's respawn (in `Vault`), the text of
urls (a url is inside or outside the renderer's origin), restart windows of
services (in `Inbox` and `Services`).

### Inbox

A link is a source with a generation: the epoch of a tab, or the n-th process of
a service. Per link there are a gate (`permits`, `closed`), a reader thread
(`reader`), a process (`peer`) and a socket (`backlog`). Each critical section of
`Gate`, each `recv` and each push is one action, so a thread can be caught between
any two of them. `Loop` takes the head of the queue and runs the whole handler
as it acts on links: `HandleMessage` (and the tab it may drop), `HandleTabGone`,
`HandleServiceGone`, `OpenTab`, `CloseTab`, `Navigate`, `Shutdown`. What the message
asked for is `Broker`'s business; here it is only a message with a permit.

Two details the properties turn on: a tab's message carries its own gate, a
service's message does not (`GateOf`), and the thread asks whether the gate was
closed *before* it reports a death (`CheckClosed`, then `Report`).

`Instances` says who takes part: a tab alone, a service with the net component, or a tab next to
a service, each with its own bound on the embedder's commands. One run covers the three
with safety and liveness together.

### Services

`Inbox` leaves the sockets of a service unbounded towards it; `Services` is the same link with both
buffers finite (`Room` frames each) and the loop's write as a step of its own, because
these writes have no timeout (only the links to renderers get one, engine.rs:916, 1124).
A renderer has one request outstanding, so request, `pending_storage` entry and reply
carry the tab's name.

* The loop: `TabRequest` enters the request and starts the write, `WriteRequest` or `WriteFails` ends
  it; `StorageReply`; `RespawnService` (fails what is in flight, then `Respawned` with a fresh link, gate,
  budget and hash key, or, once the bound is reached, `GivesUp`, after which the dead link stays). A spawn of a
  service that fails is a panic of the loop (`spawn_inherited`, engine.rs:2312), not the `None` that
  `respawn_service` provides for (engine.rs:1514): no module follows a loop that panicked. While `loop` holds a
  request the loop takes nothing from the inbox.
* The reader: `Recv`, `Forward` (takes a permit), `ReportDeath` (after everything the dead process wrote).
* The service: `Serve` handles a request, `SendReply` writes the answer; `Dies` at any moment. A `Set` is
  `Refused`, `Landed` or `Failed`; a failed write leaves the file as it was or torn, and the
  accounting where it was (storage.rs:138).

The font service has the same link and no state; the device stubs read until their
link ends. `TypeOK` is a conjunct of `QuotaIsTrue`, as it is of `PermitsConserved` in `Inbox`.

### Fetch

One request from the engine's check to the answer. A URL is an authority (scheme, userinfo,
host, port, and whether it is written in upper case) and a class of path; an address is the form it
is written in and the ranges its parts fall into. The server and the resolver are the environment:
a redirect may name any URL, a name may answer any one or two addresses, and others
the next time it is asked.

* The engine: `NeedFetch`, `NeedSubresource` (`MayFetch`, `OriginOf`, and the cookies the engine names,
  or none when the vault is down).
* Net: `Serve`, `Stream` (a large document body goes through a ring, or is denied when the ring cannot be set up), `ResolveAndPin` on every hop (`Pins`:
  one blocked answer refuses the name), `FollowRedirect` (`leftOrigin` only grows), `HandleFetch`,
  `HandleSubresource` with `Verdict` from `OrbDecide`.

The engine and net compare origins differently: the engine drops the default port and folds
case (`OriginOf`), net compares what is written up to case (`SameAuthority`). The proofs rest on net's
comparison being the finer one. `BlockedIp` classifies an address by the parts the code
looks at, the properties by the host it leads to (`LeadsTo`).

### Seccomp and Processes

`Seccomp` has no variables. A filter is the set of calls it lists, the answer to those and
the answer to the rest; a call is its number and, where some filter looks at an argument, the class of
it. `Verdict` is the harshest answer of a stack. `Libcs` says what `fork()` tries, what a child
does before any of our code, and how a descriptor is cloned and a file opened, for the C
libraries the lists name and for some they do not.

`Processes` starts with the broker and follows every process: where it is (`pc`), the filters and
domains it is under, its group.

* The broker: `PrepareCgroup`, `RestrictBroker`, `DenyBroker`, `SpawnForkServer`, `PlaceForkServer`,
  `SpawnHelper`, `PlaceHelper` in the order of the code; then `Spawn`, `HearEof`, `LetGo`, and `CloseAll`,
  `ShutdownForkServer`, `CleanUp`. A started process runs before it is placed in its group.
* The fork server: `ForkServerPrefilters` (clone3 answers ENOSYS), `ForkServerConfines`, `Pin` (the
  placeholder), `Verify` and `Judge` (the canary), `Serve`. Every fork may fail. `Spawn` writes a request and its
  descriptor; when only the request gets through (`"torn"` in `control`), the caller is told, and the fork
  server leaves its loop at the next byte.
* The placeholder: `InitArms`, where it asks for its parent's death to be signalled, `InitLeaves`,
  `InitDies`. A content process: `Enter`, `Speak`, `Leave`, `Misbehave` (it stops reading its
  link, or dies). A helper: `HelperScopes`, `HelperConfines`, `HelperEnds`.
* Two steps are best effort and go on when they fail: the move of a started process into its
  leaf (`Place`; place_child only logs, linux.rs:845) and the own Landlock domain of a file service (`HelperScopes`,
  linux.rs:1102).
* `WorkTraps`: any serving process issues, at any time, a call of its work that its stack does
  not pass. It exists to make a missing entry in a list a behaviour.
* The kernel: a child inherits filters, domains and group (`Inherit`); the first process
  born in a fresh namespace takes the others with it (`Dies`); a descriptor in flight is
  closed with the channel (`NobodyAtEnd`).

`Instances` pairs a host (C library, namespaces it grants, its memory controller, Landlock, seccomp) with
the helper and the content processes asked for. `failed` is history: which of these steps, and whether the fork of
the placeholder, failed. What a helper does after its start is in `Services` and `Vault`; `Processes` has one start of it.

### Ring and Stream

Both sides step by step: `PLoad` (the cursor loads and checks of `write_all`),
`PCopy`, `PPublish`, `PWake`, `PWait`, `Slice`, `PDrop`; `CStart`, `CLoad`, `CEmpty`
(the flag is read here, one step *after* the cursor), `CWait`, `CCopy`, `CPublish`,
`CWake`. A byte is named by its place in the body, so order, loss, duplication
and overwriting all show in `got`. Cursors are taken modulo `Word` and offsets
modulo `Capacity`. A wait is compared with the value that was loaded, as the
futex does; it ends by a wake or by its slice (`Slice`), and `Patience` slices
without progress make the side late. `TimePasses` is the case of a side that was
not scheduled. `Dies` kills either process anywhere; the death of the consumer is
also the ring that the broker drops because its tab is gone.

`Stream` is the promise: bytes in order and once, at most `Capacity` under way,
*finished* only with everything put in, *all* only with everything taken out.
`Ring` implements it with `sent` as the published bytes, `received` as the
output, `source` as the flag and `sink` as the verdict.

### Vault

Three processes and four queues. `toNet` and `toBroker` are the two directions
between broker and net (the reader thread and the inbox are part of `toBroker`);
`wire[g]` and `back[g]` are the link between net and the g-th vault process.
`vault` is the broker's handle, `link` net's stream, `call` the request for which net
sits in the `recv` of `vault_get`, `jar` the broker's own jar. A cookie is a serial
number with its partition and its HttpOnly flag.

* The broker: `SetCookie`, `NeedFetch` (also the loads of a page), `NeedCookies`,
  `Reply`, `VaultGone` (`respawn_vault`: reap, ask `MayRestart`, then `Rewired`, or `RewireFailed` when there
  is no socket pair or `BindVault` cannot be written, or `RewireTorn` when it was written and its descriptor
  was not), `Shutdown`. `RestartAges` is an entry that leaves the restart window. A vault that cannot be spawned
  is a panic of the loop on Linux (engine.rs:2312), as for the services.
* Net: `BindVault` (the descriptor is adopted, or cannot be and is only logged, which `unbound` notes, or never
  comes, and net sits in `recv_fd`: `jammed`), `CookieSet` (whose write may fail unnoticed), `AskVault` (write the
  query, or find the link dead), `VaultAnswers` (the blocking `recv` returns, or fails
  and `VaultLost` drops the link, reports and answers with nothing). Between
  `AskVault` and `VaultAnswers` net does nothing else, the broker does.
* The vault: `Serve` and `Dies`. What a dead vault had written can still be read;
  what it had not read is lost.
* `set`, `asked` and `answer` are history. `asked[i]` notes the vault the broker held and
  the cookies it had been told of when request `i` went out, so that `Told` can say
  what the answer should be.

A vault's death is noticed by a query only: until then the broker goes on
sending cookies to it, and those are lost with it. That is as documented
("in memory only"), and `AnswersAreWhatWasSet` says exactly how much is lost.

### Page

The renderer's side of what `Broker` and `Inbox` see from the engine: it asks a question
and blocks for the *next* message, of whatever kind (`renderer.rs`: every exchange has
a `_ =>` arm). `Exchanges` are the nine questions of `render_page` in order. `at` is the
question the renderer waits for, `up` and `down` the link, `pending` what a component
still owes; a question is named by its url and its place, so an answer taken for
another question's shows (`mixed`), and so does a command taken for an answer
(`strays`, by kind). Both are history, and so is `abandoned`.

* The renderer: `Serve` (the loop outside of an exchange), `Exchange` (the answer is taken,
  the next question sent, or the tile), `Eof`, `Dies`. A streamed body is followed in the
  link by a byte that carries a descriptor; only the fetch takes it (`Adopted`). Left
  in the link it is read as the first byte of a length (`Garble`, `Swallow`).
* The reader thread: `Forward` and `ReaderEof`, which exit or stay silent once the gate is closed, and `RejectTile`: a
  tile in shared memory that fails validation ends the link of a living renderer (engine.rs:991-993).
* The loop: `Navigate` (same origin), `Close` and `Join`, `Answer`, `FromTab`. A swap of the
  renderer ends the old one as `Close` does, and the new one is another instance, which starts with its
  `RenderPage` in the link (`Swapped`) and with up to `StaleBound` answers to `document.cookie` reads of its
  predecessor outstanding, for `pending_cookies` survives the swap; `LateCookies` writes them whenever they come.
* Every answer goes through `SendToTab`. A write fails when the renderer is gone, and may time out when it is
  not (`TimesOut`): then the tab is dropped, a child process is killed, but a fork-served renderer is
  neither killed nor sent `Shutdown` (engine.rs:739-751). Such a one is `abandoned`: it may live on, and its
  reader holds the socket open until the renderer ends or writes once more.

`hosting` is chosen at the start: `forked` (Linux: nobody kills or joins, the reader and the
loop hold the same socket), `process` (elsewhere: killed, then waited for), `thread` (the
single-process mode: joined, and the two directions are separate channels). It decides
who sees whose end (`RendererCanSend`, `RendererSeesEof`) and whether `Close` blocks.

## 3. What the runs check

| Run | Question | Instance |
|---|---|---|
| `broker` | do the tables stay consistent whatever the order of opens, closes, swaps, crashes, requests and replies? | 3 tab ids, ceiling 2, 4 generations, 2 request ids, caps 1, 2 origins (symmetric); 796,684 states |
| `broker_cookies` | *violated*: does a `document.cookie` answer reach only who asked? | as `broker` with 3 generations |
| `inbox` | permits, stale deaths, stuck threads | 1 permit, 2 generations; a tab with 3 commands, a service with net, a tab with a service; one swap; with liveness; 75,645 states |
| `services` | is every storage request answered, and the budget true? | 1 permit, buffers of 1; five tabs, or three and two deaths, or one with writes that fail; with liveness; 35,018 states |
| `services_stuck` | *violated*: does the loop never block on a component? | six tabs, no death |
| `fetch` | what may be connected to, read, and sent along, whatever the redirects? | 11 authorities, 8 paths, 5 addresses, 2 literals, 4 redirects; with liveness; 28,591 states |
| `processes` | does anyone die of a filter, serve unconfined, escape its bound, or stay behind? | 13 hosts, each helper, up to two content processes; with liveness; 293,820 states |
| `ring` | is the ring a bounded pipe, and does every side that lives stop? | window 4, words modulo 8, chunks of 3, bodies of 1, 4, 9 and (refused) 11 bytes; 27,000 states |
| `ring_short` | *violated*: is only a truncated body reported as short? | as `ring` |
| `vault` | what do requests get while vaults die, are respawned and given up, and does everyone get an answer? | 2 partitions, 1 restart, 3 vaults, 1 cookie, 2 requests; with liveness; 336,212 states |
| `page` | does a page load end, and do renderer and reader, whatever is taken for an answer? | the three hostings, 2 navigations, 1 late cookie answer, all nine questions; with liveness; 125,442 states |
| `page_close` | *violated*: is every Close answered? | `thread`, 2 navigations |

Why the bounds are enough. In `Broker` the interesting cases are two tabs with one
request each and one tab with two generations and two requests; four generations
let two tabs of one site crash while a third, of another site, tries to swap
into it; cap 1 makes the second request hit it, threshold 2 lets a site reach a
crash loop through two crashes and leave it again. In `Inbox`
a permit misplaced between two generations of one source needs exactly two
generations and one message of the first in the queue when the second is
spawned. In `Ring` the longest accepted body (9) is longer than the window (4) and
than the word (8), chunks of 3 make copies in two segments and refills of one
byte, and 11 exceeds what the consumer accepts. In `Vault` one
restart within the window and three vaults give a death, a respawn, a second
death that is either within the window (given up) or after it slid (a third
vault); a request can be on its way to each of two vaults and the broker's jar,
and the one cookie is set before, between and after them, in either partition. In `Page`
two navigations let a command overtake the answers of a load and a second load run behind them, and a swapped-in
renderer takes the late cookie answer before, between or behind both; a stray message of either kind shifts every later
answer by one question, so one of each shifts them by two. In `Services`
with one permit and buffers of one frame five requests are exactly what loop, buffers, service, reader
and permit hold together, so the five tabs of `services` fill everything and the sixth of
`services_stuck` is the first that closes the circle; two deaths with one restart in the window
reach both the respawn and the give-up, and a store of 3 units with values of up to 2
(and, refused, 3) makes replacement and refusal meet at the limit. In `Fetch` four redirects
are enough to leave the origin, come back, leave again and be refused; each authority differs from
`Home` in one respect the two comparisons treat differently; names answer up to two
addresses because any blocked one refuses. In `Processes` each host differs from the
usual one in one respect; two content processes let one die, be refused or be wedged while
the other serves; the helpers start on the usual host and, without a group of their own, under each C library. `TabBound`, `EpochBound`,
`RequestBound`, `GenerationBound`, `SocketBound`, `CommandBound`, `CookieBound`, `AskBound`, `NavigationBound` and `StaleBound` bound counters
that the code leaves unbounded; each is a guard of the action that would count on.
The `commands` and `swaps` of `Inbox` and the `deaths` and `failures` of `Services` are bounds of an instance.

`CHECK_DEADLOCK FALSE` where the system stops: the loop returns after `Shutdown`, the counters of an
instance run out, a stream ends, every process ends. `MCFetch.cfg` and `MCServices.cfg` check deadlock: a
renderer may always ask again.

### Properties

* `SlotsMatchPending`: the counters tested against the caps are the number of pending
  entries, over nine paths that free a slot.
* `PendingBelongsToCurrent`, `AnswersReachAsker`: nothing a replaced renderer asked
  for survives it or reaches its successor, except through `pending_cookies`.
* `ExactlyOneAnswer`: a request of a renderer that is still there is pending or
  answered, never both, never neither, also when a service dies half way.
* `CeilingHolds`: the ceiling of live tabs holds over opens, swaps and crashes.
* `PermitsConserved`: every permit is free, held, or under a queued message.
* `DeathEndsOnlyTheDead`, `DeathIsHandled`, `NobodyStuckAtGate`: a death report acts
  on its own generation only and closes no gate of a link that stays; another source is touched only when a tab cannot be
  told of a service's failure; a death is never lost, and no thread is left at a gate.
* `HonestNeverCorrupt`, `RegionsDisjoint`, `IsAPipe`, `StreamEnds`:
  the ring.
* `AnswersAreWhatWasSet`: what a request gets is exactly what the broker was told to set
  for that partition in the lifetime of the vault that answers: nothing older, later
  or of another partition, nothing HttpOnly to a script, and no gap.
* `DeathReportedOnce`, `NoOrphans`: a report is about a dead vault and alone in the queue, so
  that `respawn_vault`, which kills what it holds, never kills a fresh vault; no
  failed step leaves a vault running that nobody holds.
* `LinkIsRestored`, `EveryAskIsAnswered`: what happens in the end, with the exceptions below.
* `LoadsEnd`, `NavigationsAreAnswered`: a command taken for an answer leaves an
  answer over, never one short, so that a mix-up costs a page its contents but leaves
  nobody waiting. `MixedOnlyAfterStrays`: a mix-up has one of two causes, a command taken for an
  answer or, after a swap, a cookie answer to the predecessor.
* `TeardownEndsBoth`: a renderer that nobody kills finds its end wherever `Shutdown` meets it,
  and so does its reader thread, unless a write timeout let it go without one.
* `QuotaIsTrue`: what the store counts is the sum of its slots' sizes, each file is as large as it is counted
  unless its last write failed, and the sum is never above the budget, through deaths and respawns. The sum
  is written as the number of units counted (`Counted`), one pair per unit of a slot. `EveryAskIsAnswered` (of
  `Services`): a request is answered by the service, by a failed write, or by the failure
  of what was in flight.
* `NoInternalHost`: no hop connects to a host any of whose addresses is inside, however the address is
  spelled and however often the resolver changes its mind. `CookiesStayHome`: cookies arrive
  only at the origin whose partition they are from. `OrbHolds`: what a renderer reads or
  uses is what ORB grants for the URL the chain ended at, and nothing of its own origin is withheld.
  `EveryRequestEnds`: every chain ends, a loop of redirects included.
* `NobodyTraps`: with a C library the lists were written for nobody is killed by a filter of
  its own or an inherited one; with another no renderer or decoder is, for the canary speaks
  for them. `Confined`: nobody serves with a call beyond its role, although all start under the
  broker's privileges, nobody escapes the broker's Landlock domain, and a file service is also under its own, unless
  that failed. `ContentBounded`: content processes are memory-bounded though the broker never
  learns their pids, unless the move of the fork server into its leaf failed. `NamespaceHeld`: the first process of the namespace is the placeholder.
  `EverySpawnIsHeard`, `ShutdownEndsAll`: what happens in the end, with the exceptions below.

### Findings

1. *A late cookie answer crosses a swap* (`broker_cookies`). Every teardown purges
   five pending maps and leaves `pending_cookies` (engine.rs:744-748, 1051-1055,
   1104-1108), and `cookie_visible` delivers to whatever renderer the tab has
   (engine.rs:1757-1762). The comment at engine.rs:1071-1073 says otherwise.
2. *A complete body is reported as short* (`ring_short`). `consume` loads the write
   cursor, then the flag; a producer that publishes its last bytes and finishes
   in between is taken for one that finished early (ring.rs:310-325). Loading the
   cursor again after seeing the flag would close it.
3. *A Close that is never answered* (`page_close`). In single-process mode a `Shutdown` that
   reaches a renderer inside an exchange is taken for the answer; the renderer asks on
   and blocks, the loop joins it (engine.rs:1050) while it still holds the sender whose
   drop would wake it. `Shutdown` of the engine joins in the same way (engine.rs:1876-1881).
   Dropping `tab.tx` before the join would close it.
4. *The loop blocks on the storage service* (`services_stuck`). With the permits, the two buffers
   (`Room` each) and three more requests outstanding (one in the loop's write, one
   in the service, one in the reader) the loop waits for the service to read, the service for
   the reader, the reader for a permit only the loop gives back (engine.rs:1328). The source allows
   64 permits and 128 renderers (engine.rs:225, 234), so this takes values large enough to fill a socket
   buffer. The font link is written the same way. A write timeout as on the links to
   renderers would end it.

Observed, without a run of their own:

* `Broker`: a swap whose spawn fails has removed the tab and only says `NavigationFailed`
  (engine.rs:1114-1120), while engine.rs:1018 relies on a Crashed or Closed event.
* `Vault`: with `self.vault` gone the broker takes itself to be in single-process mode (engine.rs:1163): it
  keeps a jar and attaches its cookies, although engine.rs:1549-1551 says that net attaches none. When net cannot
  take in the descriptor of a fresh vault (net_daemon.rs:87) it logs and goes on without one. Nobody tells the
  broker: `vault` stays `Some`, no later death is reported, and cookies are gone for the session, although the
  broker believes in its vault. That is the exception `unbound` in `LinkIsRestored`. When `BindVault` is written and its
  descriptor is not (engine.rs:1580-1581), net waits in `recv_fd`, takes the first byte of the next request for its message
  and reads no request again: "Any failure leaves the vault down (net fails open)" (engine.rs:1570) does not
  hold of this one; that is the exception `jammed` in `EveryAskIsAnswered`.
* `Processes`: without a PID namespace (the best-effort unshare fell back) a fork-served renderer that
  stops reading outlives the engine, so "Every child is now reaped" (engine.rs:1919) and "it dies with
  the fork server" (engine.rs:1962-1966) hold only with the namespace; `ShutdownEndsAll` carries the
  exception. If the fork server dies before the placeholder asked for its signal
  (fork_server.rs:150-169), the placeholder holds the inherited control socket, so later requests
  are written and never heard of: `Orphaned` is the exception in both liveness properties, and the
  comment there calls the window benign. If the fork of the placeholder fails, the
  canary is the first of the namespace and its exit ends the namespace, so every later fork
  fails, while the log line says only that renderers share it unpinned; `"placeholder" \in failed` is
  the exception in `NamespaceHeld`. A file service whose own path cannot be opened, a font service respawned after its
  file is gone, say, serves without its own domain though the kernel has Landlock (linux.rs:1102), and a process whose move
  into its leaf fails stays where it is (linux.rs:845): both are logged, best effort as documented, and the exceptions in
  `Confined` and `ContentBounded`. So `cgroup = "own"` of a host means that the controller is there, not that each write
  to it works. That the fork server "is left unsandboxed"
  (fork_server.rs:22-27) is stale: it installs its own filter.
* `Fetch`: the engine's check makes a document fetch same-origin, but a redirect may lead
  elsewhere, and the body comes back readable, without cookies; src/README.md says that a document fetch is
  same-origin only. `OrbHolds` states the exception.
* `Ring`: a body of more than 128 MiB is announced by net (`blob_len` allows 256) and refused by the
  consumer, so the single-threaded net component waits out the stall timeout; with a window that
  does not divide 2^32 offsets would jump when a cursor wraps (the assumption
  `Word % Capacity = 0`; the window in use, 256 KiB, satisfies it).
* `Page`: a navigation that overtakes an answer is itself lost: its `RenderPage` was taken for the
  answer, and no `FrameReady` follows it (events.rs:103-104); that is the exception `"RenderPage" \in strays` in
  `NavigationsAreAnswered`. If the answer it overtook is a streamed body, or a renderer that was swapped in took a late cookie
  answer for its document and the document is streamed (finding 1), the next exchange takes
  the announcement without its descriptor and the frames of the link are out of step:
  the renderer dies of a refused length or swallows what comes, and a fork-served one may
  then outlive its tab; that is the exception `garbled`.

## 4. Fairness

`Broker` and `Stream` assume none. `Inbox` assumes weak fairness of the loop and of each
reader thread: the operating system runs a thread that can run. It assumes nothing
of components or of the embedder, so a component may stay silent forever; what is
shown is that the broker's side does not hang. `Ring` assumes weak fairness of
each side *while it lives*, where the end of a wait slice is one of its steps (the
kernel ends every timed wait); deaths and lateness may happen or not. `Vault` assumes weak
fairness of the loop, of net and of each vault while it lives; none of the three
waits for anything but a message. Deaths, requests, `Shutdown` and the sliding of the
window are not assumed. `Page` assumes weak fairness of the renderer, its reader, the join and
the loop, and that a component answers what it was handed: `Broker` shows that the death of
a service fails what it owed; the death of the net component is the exception, as
engine.rs:488-494 says. Nobody has to navigate, close or die. `Services` assumes weak fairness of the loop, the
reader and the service; a dead service takes no step. `Fetch` assumes weak fairness of the net
component's loop, which waits for nothing between two hops but the network, whose answers are part of
the step (a host that never answers is a connection error there). `Processes` assumes weak fairness
of every process that can run and of the decoder's timer; no fork has to fail, nobody has to crash or
wedge, no tab has to close and the embedder need not shut down.

## 5. What is proved

`BrokerProofs.tla`, for any number of tabs, requests, generations and sites, any caps
and any thresholds (`BrokerAssumption`: the caps are positive, `None` is no number
and no tab record):

| Theorem | States |
|---|---|
| `TypeCorrect` | `Spec => []TypeOK` |
| `PendingIsOwed` | `Spec => []PendingBelongsToCurrent` |
| `CeilingIsKept` | `Spec => []CeilingHolds` |
| `AnswersAreOwed` | `Spec => AnswersReachAsker` |
| `SlotsAreCounted` | `Spec => []SlotsMatchPending` |
| `EveryRequestIsAnsweredOnce` | `Spec => []ExactlyOneAnswer` |

The inductive invariant is `IInv`: the types; `IdsFresh` (ids not yet handed out have
no generation, no asker and no pending entry); `Owed`, which says that every entry
of the retained maps names a tab whose current epoch asked; and the ceiling.
`PendingBelongsToCurrent` alone is not inductive: a step that hands out an id or an
epoch would preserve it only if that id were known to be unused. `Owed` is an
operator of three functions rather than of the state, so that the handlers that
build an intermediate table and then tear a tab down can be followed in two
steps: a lemma for the intermediate table, a lemma for `DropCrashed`.
`AnswersAreOwed` then follows because an answer is only ever sent for an entry.

`SlotsAreCounted` is inductive with `IInv` once it is said of any records and maps (`Slots`): an entry added
to a map is one more in the cardinality of what its tab holds there, an entry removed is one less, and a
purge empties the sets of the tabs it purges. That the counters never go below zero, where the code's
`saturating_sub` would hide a miscount (engine.rs:1237, 1247), comes out of the same lemmas.
`EveryRequestIsAnsweredOnce` needs `AInv`, which adds to `IInv` that generations and ids come from counters
(`HandedOut`) and five facts about ids (`Accounted`): the generation behind a tab was spawned for it, an
entry names the tab of the generation that asked, an id is in one map only, an answered id is in none, and an
unanswered one whose asker still stands is in some map. The case that is hard is `respawn_service`: it answers some of
the waiting renderers and loses others to failed writes, in any order, and the two must add up.

`InboxProofs.tla`, for any sources, instances, permits, generations and sockets (`InboxAssumption`: at least one permit,
room for more generations than restarts, no generation called `None`, and tabs, services and net are different names):

| Theorem | States |
|---|---|
| `PermitsAreConserved` | `Spec => []PermitsConserved` |
| `DeathsEndTheirOwn` | `Spec => DeathEndsOnlyTheDead` |

The inductive invariant `IInv` is the types and, while the loop runs, `Orderly`: the gate of a link that
was never spawned is full and nothing in the queue is of it (`Unspawned`); what a service or the net component
has in the queue or a thread for is of the generation the loop holds (`ComponentsCurrent`); a report of a death is the
last its thread pushes (`GoneIsLast`); and permits, messages and the message in the reader's hand add up to the
share (`Conserved`). The third is what makes the second inductive: a service is respawned when its report is
handled, and only because nothing of the old generation is left behind that report may the permit of a
service's message, which does not carry its gate, be given back to the gate of the current generation
(`GateOf`). A tab is different: it is replaced at any time, and its messages carry their own gate. `DeathsEndTheirOwn` is an action property
that follows from the same invariant: what a report says of a generation that is no longer held is ignored for a tab (its
epoch) and impossible for a service (`ComponentsCurrent`), and a gate is closed only together with the link it belongs to.

`RingProofs.tla`, for every window, word size, chunk size, set of lengths and patience
(`RingAssumption`: they are positive, a word counts further than the window, and the
window divides the word, as 256 KiB divides 2^32):

| Theorem | States |
|---|---|
| `RingTypes` | `Spec => []TypeOK` |
| `BytesAreInOrder` | `Spec => []BytesInOrder` |
| `NoFalseCorruption` | `Spec => []HonestNeverCorrupt` |
| `CopiesAreDisjoint` | `Spec => []RegionsDisjoint` |
| `RingIsAPipe` | `Spec => IsAPipe`, that is `Stream`'s specification under the refinement mapping |

Here the inductive invariant `IInv` counts bytes instead of cursors. For some `k`, the
bytes whose place the consumer has given back: the read cursor is `k % Word` and the
write cursor `put % Word`, `put` is at most a window ahead of `k`, bytes `k + 1 .. put`
stand in the window where their count says, and each side's `moving` fits in what
it may touch. The cursors alone would not do: modulo the word they forget how far the
two sides have come. Lemmas on remainders carry the argument back to the code's
arithmetic: `AdvanceCounts` and `DistanceCounts` (wrapping addition and subtraction),
`OffsetCounts` (the offset depends on the count alone, which is where the window must
divide the word) and `Apart` (counts less than a window apart have different
offsets). For the refinement each action is shown to be a step of the pipe or a
stutter: `PPublish` puts, `CCopy` takes, `PDrop` finishes or aborts, leaving `consume`
concludes or fails.

`VaultProofs.tla`, for any partitions and any bounds (`VaultAssumption`: there are more
vaults than restarts; `NoneAssumption`: `None` is no request):

| Theorem | States |
|---|---|
| `VaultTypes` | `Spec => []TypeOK` |
| `NoVaultIsOrphaned` | `Spec => []NoOrphans` |
| `OneReportPerDeath` | `Spec => []DeathReportedOnce` |
| `GivenUpForGood` | `Spec => GivingUpIsFinal` |
| `AnswersAreFaithful` | `Spec => []AnswersAreWhatWasSet` |

Two inductive invariants. `Typed` adds to the types that the cookies, requests and
vaults used so far are the numbers below their counters. `Wired` says where the
knowledge about the vault is: at any time either net has a link to the vault the
broker holds, or one `bind` for it is on its way, or one report of its death is, or
there is no vault; and a link is always to the vault the broker holds. Neither
`DeathReportedOnce` nor `GivingUpIsFinal` is inductive without it, for a second report
or a late bind would have to be excluded by what the queues hold. Lemmas on
positions in a sequence under `Append` and `Tail` carry the queues.

`AnswersAreFaithful` needs a third, `Traced`, on top of both. It says where each cookie is that the broker was
told to set in the days of a vault: in the store, on the link to it, or in net's queue, and nowhere else
while that vault lives (`Complete`). A request in the queue stands between what was set before it and what was set
after it (`AsksMatch`), and of what the vault it was noted under already holds nothing is
younger than the request. The request net waits for is the last thing on the link or has been answered with exactly
those cookies (`Called`). A vault nobody is bound to yet is empty, and what is meant for it stands behind its
`bind` (`Unbound`): this is where a respawn could mix the cookies of two vaults.

`FetchProofs.tla`, for any network, resolver and bound on redirects (`FetchAssumption`: the shape of
authorities, `default` ports only where a scheme has one; `AddressAssumption`: an address
spells one form, and the part that form is judged by is in the open network or in one of the blocked ranges):

| Theorem | States |
|---|---|
| `FetchTypes` | `Spec => []TypeOK` |
| `InternalHostsStayUnreached` | `Spec => []NoInternalHost` |
| `CookiesReachOnlyHome` | `Spec => []CookiesStayHome` |
| `BlockingHolds` | `Spec => []OrbHolds` |

The invariant `Guarded` adds `Judged` to the properties: as long as no redirect left the authority
that was asked, what the engine judged of that URL (whose cookies, whether same-origin) holds of
the URL of this hop. The properties speak of answers only and are not inductive without it. The
lemma they turn on is `SameAuthorityIsSameOrigin`: net's comparison is finer than the engine's.
`AddressAssumption` is the limit of the second result: that the code's lists of ranges name every inside
range is not proved, only that whatever they name is refused in every spelling and at every hop.

`ProcessesProofs.tla`, which begins with the lemmas about `Seccomp`, for any set of instances and any content processes
(`ProcessesAssumption`: the hosts and helpers are of the kinds described, content processes have names
of their own):

| Theorem | States |
|---|---|
| `ProcessesTypes` | `Spec => []TypeOK` |
| `NobodyDiesOfItsFilters` | `Spec => []NobodyTraps` |
| `ServersStayConfined` | `Spec => []Confined` |
| `ContentStaysBounded` | `Spec => []ContentBounded` |
| `NamespaceStands` | `Spec => []NamespaceHeld` |

The invariant `Inv` adds to the types: `Births` (who exists at which point of the start), `Stacks` and
`HelperStack` (which filters each process is under, place by place), `Verdicts` (what the canary's end
says of the C library), `Pinned` (who can be first of the namespace) and `Bounded` (who is in which
group). The argument of `NobodyTraps` for an unknown C library is that every child of `fork()` is under the filters
the canary was under, so its verdict speaks for each of them; for a known one the lemmas
about `Seccomp` compute what each stack answers, list by list. `ServersStayConfined` needs both
filters of the fork server: its list names clone3, whose flags no filter can read, and only the
filter below it answers ENOSYS. Its Landlock half needs a second invariant, `Domains`: nobody is born before the broker
restricted itself, a child inherits the domains of its parent, and no domain is ever left, so whatever is alive is at least
under the broker's, also a service whose own domain failed.

`PageProofs.tla`, for any hostings and any bounds on navigations and on late cookie answers (`PageAssumption`:
the first is at least 1, for `Init` names a url):

| Theorem | States |
|---|---|
| `PagesAreTyped` | `Spec => []TypeOK` |
| `AnswersMatchQuestions` | `Spec => []MixedOnlyAfterStrays` |

`IInv` adds three things. `FramesAccounted`: a navigation is in one place at a time, as a command in the link, as the load under
way, as a tile in the link or the inbox, or as a delivered frame, so there are never more frames than navigations, which
`TypeOK` claims. `Streamed`: a descriptor byte stands behind every streamed answer, and only a forked renderer's link carries
any. And, until a stray message was taken for an answer, `InStep`: question, pending entry and answer together are
at most the one the renderer waits with, all of the same url and step, and no descriptor stands anywhere else. `InStep` is what the code
relies on when it takes the next message for the answer, and `strays` is exactly where it stops to hold. It speaks of the late
cookie answers of a predecessor too: they may stand anywhere in the link, and the next one that is met ends it.

`ServicesProofs.tla`, for any tabs, slots, sizes, buffers and instances (`ServicesAssumption`: at least one permit and one frame of
room; `None` is no tab):

| Theorem | States |
|---|---|
| `BudgetIsTrue` | `Spec => []QuotaIsTrue` |

`QuotaIsTrue` carries the types, and those are not inductive: that a permit given back does not exceed the share, or that a
renderer is not owed twice, depends on what is in the inbox. `QueueStands` says it: an ask in the inbox is of a renderer that waits
and is owed nothing, at most one per renderer (`AsksStand`), free permits and replies in the inbox add up to the share (`PermitsStand`),
and the end of the service is the last its reader says (`GoneIsLast`), so the fresh gate of a respawn meets no reply that
took a permit of the old one. For the budget itself `Counted` before and after a `Set` differ in the units of one slot
(`Units`), whose cardinality is its size.

### Only model-checked

Every invariant that a passing run checks is stated by a theorem, and so are the action properties `AnswersReachAsker`, `DeathEndsOnlyTheDead`
and the refinement `IsAPipe`. What stays with TLC is liveness: `StreamEnds`, `LinkIsRestored`, both `EveryAskIsAnswered`, `NobodyStuckAtGate`,
`DeathIsHandled`, `LoadsEnd`, `TeardownEndsBoth`, `NavigationsAreAnswered`, `EverySpawnIsHeard`, `ShutdownEndsAll` and
`EveryRequestEnds` depend on fairness, hence on `ENABLED`, which the provers used here do not treat; and the four runs
that show a disagreement, which are counterexamples. Proved and checked by no run: `BytesInOrder` of `Ring`, which `IsAPipe` implies, and
`GivingUpIsFinal` of `Vault`. What a recursive definition computes for every input would need an induction over data, which these
provers cannot do: there is no `RECURSIVE` operator in the project, and the one sum (of the store's sizes) is
written as a cardinality, so that it can be reasoned about.

## 6. Plan

Done: `Broker`, `Inbox`, `Services`, `Ring` over `Stream`, `Vault`, `Page`, `Fetch`, `Seccomp` and `Processes`, each with the
proofs of its invariants. Next, in this order:

1. The parts of the liveness argument that are safety: that a step which is waited for is possible. For `Inbox`, that a
   reader at a gate without permits has a message of its own in the queue; for `Services`, which
   states can close the circle of `AllWait`, in terms of permits, room and requests; for `Page`, that a renderer that waits is owed
   an answer or has one.
2. A second refinement: `Broker`'s pending maps and counters as a table of outstanding requests.
3. The death of the net component in `Broker` and `Vault`, once the source handles it (engine.rs:488-494
   names it a follow-up; today the pending fetches stay pending).

## 7. Not modelled

* The sandboxes of macOS and Windows and the fallback (`sandbox/macos.rs`, `windows.rs`, `unsupported.rs`) and spawning
  there: one platform call each, made once per process; whether it holds is the platform's.
* Of the Linux sandbox: resource limits, the reporters that print a trapped call, the access bits of
  Landlock rules. They change no state the rest of the program reads.
* Shared-memory tiles (`shm.rs`): the seals and checks of one descriptor, decided in one call by the
  kernel. A rejected tile is a step of `Inbox` and of `Page`.
* Framing (`ipc.rs`): order, end of file and a misplaced descriptor byte are in `Page`, finite buffers in
  `Services`; encoding and size limits are I/O.
* The text of URLs, cookies, keys and addresses: they are classes or model values throughout.
* The self test, the demo and the library root (`selftest.rs`, `main.rs`, `lib.rs`): they only call what the
  modules model.

## 8. Running

    tlc -workers 2 -config MCBroker.cfg MCBroker
    tlc -workers 2 -config MCBrokerCookies.cfg MCBroker
    tlc -workers 2 -config MCInbox.cfg MCInbox
    tlc -workers 2 -config MCServices.cfg MCServices
    tlc -workers 2 -config MCServicesStuck.cfg MCServices
    tlc -workers 2 -config MCFetch.cfg MCFetch
    tlc -workers 2 -config MCProcesses.cfg MCProcesses
    tlc -workers 2 -config MCRing.cfg Ring
    tlc -workers 2 -config MCRingShort.cfg Ring
    tlc -workers 2 -config MCVault.cfg Vault
    tlc -workers 2 -config MCPage.cfg Page
    tlc -workers 2 -config MCPageClose.cfg Page
    tlapm BrokerProofs.tla
    tlapm RingProofs.tla
    tlapm VaultProofs.tla
    tlapm FetchProofs.tla
    tlapm InboxProofs.tla
    tlapm PageProofs.tla
    tlapm ServicesProofs.tla
    tlapm ProcessesProofs.tla
