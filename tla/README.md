# agile-config-client in TLA+

A model of the Rust client for AgileConfig (`src/` is the repository): what the
client does with its WebSocket session, its loads and its cache when calls,
background tasks, servers and the file system interleave; checked with TLC on
small instances, and proved with TLAPS for all sizes where that is possible.

## The system

A `Client` is a handle on one shared `Inner` (`src/src/client.rs`). All the
components below meet in it.

| Component | State | Operations | Meets |
| --- | --- | --- | --- |
| WebSocket session (`client.rs`, `websocket.rs`) | `reconnect_enabled`, `loops_started` (atomics), `session` (a token behind a std mutex), `writer` (a sink behind a tokio mutex), one reader task per socket, two loops | `connect`, `disconnect`, `install_socket`, `send_text`, `close_writer`, the reader, heartbeat and reconnect tasks, `Drop for Inner` | dials nodes; loads after a connection and on messages |
| Configuration load (`client.rs`, `http.rs`, `source.rs`) | `store` (a watch channel), `loaded` (atomic) | `load`, `ensure_loaded`, `load_from_cache`, `apply_snapshot`, `collect`, `snapshot`, `subscribe` | called by the application, `Source`, readers and the reconnect loop, with nothing that serialises them |
| Cache file (`cache.rs`) | one file | `write_cache`, `read_cache` | a pull writes it, a failed load reads it |
| Node iteration (`nodes.rs`) | the order and position of one iteration | `RandomNodes::new`, `next` | one per load and per dial |
| Inbound protocol (`protocol.rs`, `handle_inbound`) | none | `classify_inbound` | turns frames into disconnect, load or nothing |
| Snapshot and config map (`store.rs`) | none (values) | `from_items`, `to_config_map`, `version`, `data_md5_version` | built by a load, read by `collect` and by pings |
| Options and URLs (`options.rs`, `http_to_ws_url`) | none (values) | `normalized`, `normalize_nodes`, `build`, `build_options` | once per client |
| HTTP request, authentication, errors, crate root | none | formatting, types | |

What makes each part correct, and what is hard about it:

* **Session.** One live session at a time; a stored sink has a reader that will
  clear it; `disconnect` is final, and after the last drop every task ends; calls
  return and cancelled tasks end; a lost connection comes back. Hard: a call and the reconnect loop
  install sockets side by side, replaced readers are still at work, futures are
  dropped half-way, and several steps act on state read before an await.
* **Load.** `Ok` means a snapshot is there; one node that works suffices; the
  snapshot is the latest. Hard: loads overlap freely, and answers are applied in
  any order.
* **Cache.** The last pull is there after a restart. Hard: the process ends in
  the middle of a write, two loads write at once, the disk fails.
* **Snapshot, protocol, options.** Pure functions with edges: order of insertion,
  digests that forget the pairing of keys and values, normalisation applied twice.

`PROJECT.json` lists every hazard at its line with the properties aimed at it.

## Modules

| Module | Contents |
| --- | --- |
| `Session` | the session: calls, loops, readers, writer lock; its properties and inductive invariant |
| `Connection` | abstract: a connection manager in atomic steps, which `Session` implements |
| `RandomNodes` | the rotation through the nodes |
| `Loader` | `EXTENDS RandomNodes`: loads, store, flag, cache file, crashes; its properties and invariants |
| `LoadService` | abstract: what a load promises, which `Loader` implements |
| `LiveUpdates` | composes `Connection` and `LoadService` with the inbound protocol and the servers |
| `Keys`, `ConfigMap` | composed keys and paths; the snapshot, its digest and the conversion to nested tables |
| `FlatMap` | abstract: a map of paths, which `ConfigMap` implements |
| `ClientOptions` | options from the builder to the address that is dialled |
| `MCSession`, `MCLoader`, `MCLiveUpdates`, `MCValues` | symmetry, instances and inputs for TLC; the `.cfg` files give the constants |
| `SessionProofs`, `LoaderProofs`, `LiveUpdatesProofs`, `FlatMapProofs`, `ConfigMapProofs`, `ClientOptionsProofs` | lemmas and theorems of the module each is named after |
| `ListLemmas` | lemmas on lists, flattening and counting, for `ClientOptionsProofs` |

```
Session --implements--> Connection  <--INSTANCE--+
                                                 LiveUpdates
Loader  --implements--> LoadService <--INSTANCE--+
ConfigMap --implements--> FlatMap
```

An operator whose comment starts with "Mutant of" is a plausible bug. It is used
nowhere in the specification: put in the place of the definition it names, it
makes a property fail, which shows that the property depends on the code.

### Session

The tasks are `Callers` (application tasks that may be inside `connect`,
`disconnect` or `load`), `Reconnector`, `Heartbeat`, and one reader per member
of `Sockets`. `pc` says where each is; two tasks are separated by a step wherever
the code awaits, takes a lock or touches an atomic that another task can tell
apart.

| Model | Code |
| --- | --- |
| `reconnect_enabled`, `loops_started`, `writer` | the fields of `Inner`; `writer = NoSocket` is `None` |
| `session`, `cancelled` | `Inner::session` and the tokens cancelled so far; `NoSocket` is the token made and cancelled by `Client::new` |
| `lock` | the task that holds the writer mutex across an await: in `send` (`websocket.rs:68-75`) and in `close` (`websocket.rs:80-83`; the edition is 2024, but the temporary guard in the scrutinee of `if let` still lives through its body) |
| `open` | sockets whose inbound stream has not ended |
| `Strong`, `Dropped` | some `Arc<Inner>` exists: the application's handle or one a task upgraded; `Drop for Inner` runs when the last goes away |
| `DialOk`, `DialFail` | `connect_websocket`: the loop over the nodes ends with one that accepts, or with none |
| `SwapSession`, `EvictWriter`, `EvictDone`, `SetWriter`, `SpawnReader` | `install_socket`, step by step |
| `LoadPulled`, `LoadFellBack`, `SendText`, `SendDone` | a load seen from the session: it takes time and sends "loaded" after a pull |
| `CancelSession`, `CloseWriter`, `CloseDone` | `disconnect` after its flag |
| `ReceiveOffline`, `ReceiveReload`, `ReaderStops`, `ReaderExit` | `spawn_reader` and what `handle_inbound` leads to |
| `AbandonCall` | the future of a call is dropped at an await |

Abstractions. A socket's identity also names its token and its reader, and is
used again when nothing refers to it. `connect`'s two writes before its first
await are one step, since only the loops it then starts could see them apart. Frames
are "offline", "reload" (which a ping or version that differs also is) or of no
effect; the last have no action. The mutex is handed over in FIFO order by tokio;
here any waiter may get it, and fairness makes every waiter get it in the end. A
failed send is logged and changes nothing. The heartbeat's second look at the
writer serves a trace message and is left out. Drop of `Inner` sets
`reconnect_enabled` to false, which no task can see any more.

### Loader

A configuration is a version number; 0 is the empty snapshot. `Loads` are the
calls of `load` that may be under way together, whoever makes them.

| Model | Code |
| --- | --- |
| `store`, `loaded` | the watch channel with its `from_cache`, and the flag |
| `file`, `Size` | the cache file: absent, blank, torn (undecodable) or whole; the length of the body of each version |
| `start`, `next` | the load's `RandomNodes` |
| `Begin`, `AlreadyLoaded` | `load`; `ensure_loaded` with the flag set |
| `Answer`, `NodeFails`, `Exhausted` | the loop over the nodes; an answer carries what is published when the node gives it |
| `Replace`, `MarkLoaded` | `apply_snapshot`, first the store, then the flag |
| `Truncate`, `Write`, `OpenFails`, `WriteFails`, `SkipCache` | `write_cache` |
| `Notify` | the send of "loaded" and `Ok` |
| `ReadCache`, `CacheUnavailable` | `load_from_cache` and the error of `load` |
| `Publish`, `Crash` | the servers and the operating system |
| `cache_enabled`, `reliable` | `options.cache.enabled`; the nodes that always answer; both are chosen once |
| `asked` | history: what was published when the load began |
| `saved` | history: how the last `write_cache` ended: never made, done, failed, or killed while it wrote |

Abstractions. The body is written in one step after the truncation; a write that
fails or a process that is killed may leave a part of it, or nothing (`Cut`). What
another load has written since our truncation is covered by our body, unless it is
longer (`Longer`): then its end stays behind and the file is torn. Two bodies of one
version are the same bytes, since the encryption has no random part, so writing the
same version again leaves the file whole. The runs take `Size` shrinking with the
version, the proofs any lengths. Of a mixture only the longest part is remembered.
Encryption only matters for whether a file decodes. The process may be killed, not
the machine: the loss of synced data is out of scope.

What a cache can promise depends on how its last write ended, since a `write_cache`
that fails is only logged (`client.rs:183-193`). The properties of the cache say so
with `saved`: after a write that failed the file may be older than the snapshot, and
a later fallback goes back to it (`SnapshotNeverRegresses`); a write that was killed
may leave no cache, until the next load makes it good (`PullSurvives`,
`CacheMatchesSnapshot`).

### Connection and LoadService

The two contracts say what a user of the session and of the loads may rely on, in
steps that are atomic.

* `Connection`: a connection comes from an attempt; an attempt comes from
  `connect()` or, while reconnecting is on, from the loop; each connection replaces
  the one before it; after the last drop there is nothing. `Session` maps an attempt
  to the time between the decision to dial and the swap of the token (`Attempting`),
  the connection to the socket whose token is issued and not cancelled
  (`Listening`), and `held` to `Strong`. The contract allows what the run
  `offline` shows: `Disable` leaves the attempts alone.
* `LoadService`: a load waits, then replaces the snapshot once, then returns. What
  it applies was published after the call, or came from the cache and every node
  could fail. `Loader` maps `fetch`, `replace` and `fallback` to "waiting" and all
  later steps to "applied"; the cache file disappears. Any load may still apply last,
  as the run `stale` shows.

### LiveUpdates

`LiveUpdates` uses the actions of the two contracts and adds what lies between
them: `inbox` holds the frames a reader has not taken, `style` is how the servers
tell a version (the publish id, the digest, the legacy `V:` form), `closing` is who
is between the flag and the token of `disconnect`.

| Model | Code |
| --- | --- |
| `Text`, `LegacyVersion`, `Object` | the cases of `classify_inbound`; missing and `null` fields are empty |
| `ForConfigCenter` | the module filter of `handle_inbound` |
| `LocalVersion`, `Outdated` | `ConfigSnapshot::version` (id if there is one, digest otherwise; a cached snapshot has no id) and the comparisons at `websocket.rs:200-205` and `:222-223` |
| `TakeIgnored`, `TakeLoad`, `TakeOffline` | the reader takes a frame and handles it before the next |
| `Established`, `NotEstablished` | a dial ends; `connect()` loads in both cases, the loop only after success |
| `Disconnect`, `CloseSession` | the flag, and then whichever token is current |
| `News`, `Send`, `Publish` | external: the servers |

A reader whose token is cancelled may go on taking frames, as `select!` does. `held`
stays true and `Drop` is not used: what follows the last drop is checked in `Session`.

### Values: ConfigMap and ClientOptions

`ConfigMap` inserts the keys of the dictionary one by one in any order, as a
`HashMap` hands them out. The recursion of `insert_parts` is a stack: a frame is the
table a call works on, the first one the root.

| Model | Code |
| --- | --- |
| `Visit` | the loop of `to_config_map` and `insert_dotted`, which splits the key |
| `Descend` | `insert_parts` with several parts: it clones what is at the first of them, as a table if it is one and as an empty table otherwise (`IntoTable`, `store.rs:131-134`), and calls itself on that copy |
| `Place` | `insert_parts` with one part |
| `PutBack` | the return: the caller inserts the copy it made |
| `Edit` | external: the servers publish the list with one item changed, and the client pulls it |

A table is the set of its nodes, each at its path. What was cloned stays in its place
until the copy replaces it, in the code as in the model. A key is a sequence of names
and separators. What the model shows of `store.rs`:

* without keys at, above or below each other the order does not matter
  (`KeptUnlessContested` with `NothingInvented`); with `a` and `a.b` one of the two
  values is lost, the one that is inserted first; with `a.c` besides, the order `a.b`,
  `a`, `a.c` loses both;
* `a:b`, `a.b` and `a..b` are one path, and the last of them to be inserted wins;
* the digest sees a key that comes or goes and a single changed value
  (`DigestSeesEdit`), but not two values that change places, so that a ping by
  digest reports no difference then.

`ClientOptions` follows the field `nodes` through `normalize_nodes`, which
`build_options()` applies once and `Client::new` again, to `http_to_ws_url`. A text
is a sequence of characters, some of which take two bytes. What it shows:

* what `build_options()` returns, `Client::new` accepts
  (`BuiltOptionsAreAccepted`), except when every node has become empty: a node of
  slashes passes the filter, is then stripped to nothing, and is kept;
* normalising is not idempotent: `a/ /` keeps a blank at its end the first time,
  and `/ /` becomes `/` and then nothing;
* no address is lost or made up on the way, however often the list is normalised
  (`NodesAccounted`);
* a node with ASCII characters in its first eight bytes is converted or refused
  (`AsciiNodesConverted`); others can panic (run `panic`).

One interval stands for `http_timeout`, `reconnect_interval` and
`heartbeat_interval`, which are treated alike. `env`, `secret`, `name` and `tag` are
trimmed in ways that touch nothing else and are left out, like the path and the
query of the URL.

## Runs

| Run | Instance | Shows |
| --- | --- | --- |
| `safety` | 2 callers, 2 sockets, abandoned calls, both frames | at most one live session; no sink without a reader; no connection left behind; the lock is held only at the sink; no attempt begins while offline; the session implements `Connection` |
| `fair` | 1 caller, 2 sockets, fair | calls return; the reader of a replaced session ends; after the drop all tasks end; the loop restores a lost writer if the nodes are reachable |
| `offline` | 1 caller, 2 sockets | **violated**: a session becomes live after `disconnect` |
| `stays` | 1 caller, 2 sockets, fair, nodes reachable | **violated**: an undisturbed connection is replaced for ever |
| `faults` | 2 loads, 2 nodes, 2 versions, disk faults, crashes, abandoned loads | `Ok` means a snapshot is there; with a reliable node neither cache nor error is used; the newest snapshot stays once all loads are younger; loads implement `LoadService` |
| `single` | 1 load, 3 nodes, 4 versions, disk faults, crashes, abandoned loads, fair | fresh; backwards only to a cache whose last write failed; the cache equals the snapshot, and is there, unless its last write failed or was killed; loads end |
| `failed` | 1 load, 2 nodes | **violated**: a load that fails without a cache returns something other than `LoadFailed` |
| `stale` | 2 loads, 1 node, 2 versions | **violated**: an older answer is applied last |
| `overlap` | 2 loads, 1 node, 2 versions | **violated**: a shorter body over a longer one leaves an undecodable cache |
| `live` | one task that plays the application and the loop, 2 sockets, 2 versions, 3 styles, fair | a ping calls for a load exactly when it tells of something else; a client that stays connected converges to the last publication, and then loads no more |
| `values` | lists of up to 3 of 12 items in every order; up to 2 of 21 texts in `nodes` | the config map implements `FlatMap`; values are kept unless contested; the digest sees edits; options are usable, accepted twice and converted |
| `panic` | the same texts | **violated**: a conversion panics |

Deadlock is checked everywhere but in `values` and `panic`, whose computations
end: `Session` ends in `Terminated`, after the drop, and nowhere else; a load can
always be called, and so can `connect`.

Bounds. `Sockets` bounds the connections that are in use at one time, not how
many there are: identities come back when nothing refers to them. With two, an old
session and a new one overlap, and so do two installations; with two `Callers`
calls of all kinds overlap with each other and with the loop. The proofs cover
every number of both. `MayAbandon` and `Frames` turn the application's and the
console's interference off in the liveness runs, where the graph must stay small.
`MaxVersion` bounds how often the servers publish: two versions tell stale from
fresh, four let `single` go through several crashes and fallbacks. `Size` is given decreasing
lengths: an older body is longer than a newer one, and two loads write them in either
order. Which nodes are reliable and whether the cache is enabled is chosen in the initial state, so one
run covers all choices. Two nodes already make the rotation wrap; `single` has
three. In `live` the two sockets let a replaced reader and its successor take frames
and load at once; with `MaxUnread` one frame is under way at a time, which may be
older than the publication it meets; the application's loads and the readers' give
up to three that overlap; one task plays caller and loop because the two differ only
in whether a failed dial is followed by a load. Four kinds of servers are four sets
of initial states. The keys of `values` are at, above, below and beside each other,
two share a path, one has none; a conflict needs two keys and its outcome a third.
The nodes of `values` have each scheme, several in a piece, blanks, slashes, and
characters of two bytes before, across and after the places where prefixes end.

## Fairness

`FairSpec` of `Session` is what tokio and the libraries give: a task that can run
runs; the mutex is FIFO, hence strong fairness, one condition for all steps of a
task, since a task is in one place at a time and waits at no lock for ever;
HTTP requests end (`http_timeout`); `select!` polls its branches in random order,
so a stop that is ready again and again is taken. It also assumes that handshakes
and writes to a socket end, with success or an error. Nothing in the client
enforces that (there is no timeout on `connect_async` or `send`); the operating
system's TCP timeouts do. No fairness is assumed of calls, frames, the peer or
the drop of the handle. That a node accepts one of the reconnect loop's
attempts again and again, without which no client can promise a connection, is the
premise `Reachable` of `ReconnectRestores`; in the run `stays`, where the question is
what the client does to a connection nobody disturbs, it is part of the specification
(`ReachableSpec`). The frames are left out of `fair`, where they would take the run
beyond what is practical: a reader that handles a frame while it is cancelled is in
the safety runs and in `live`. `FairSpec` of `Loader` is weak fairness of each load.

`FairSpec` of `LiveUpdates`: tasks go on (weak fairness of each), and of the
servers, that some pulls succeed and that they tell every connection the current
version again and again, which they do in answer to the heartbeat's pings. The
second is what makes up for a reload that fails and is forgotten; without it nothing
in the client pulls again.

## Findings

* `offline`: the reconnect loop checks `reconnect_enabled` once and dials; a
  `disconnect` during the dial does not stop the installation.
* `stays`: a replaced reader that ends takes the writer that is there, often its
  successor's. Then every tick of the loop replaces the session, and every
  replaced reader takes the next writer.
* `stale`: overlapping loads apply their answers in any order.
* `failed`: a load returns `last_error.unwrap_or(LoadFailed)`. Every node that fails
  sets `last_error` and there is always a node, so the documented `LoadFailed` never
  comes out: the last node's error does (`LoadFailedIsUnreachable`).
* `overlap`: `fs::write` to the only copy of the cache, by two loads that have pulled
  different versions. Both truncate, the longer body is written, then the shorter one
  over its start. A kill between the truncation and the write loses the cache as well,
  with one load too; the properties name it (`saved = "killed"`) as the one window in
  which it may.
* `panic`: a node such as `http://é` is sliced inside a character.

## Proofs

All theorems hold for every value of the constants that meets the assumptions:

* `SessionAssumption`: tasks, sockets and the two null values are told apart;
* `NodeCountAssumption`: at least one node, which `normalized` ensures;
* `LoaderAssumption`: a last version, a length for each and three flags;
* `LiveUpdatesAssumption`: a last version, and servers that use one of the three forms;
* `ConfigMapAssumption`: a longest list, and keys whose parts are strings;
* `ClientOptionsAssumption`: the characters of the four schemes are characters, and
  the field `nodes` is a list of texts over them.

### Session

`IInv` is inductive (`Invariant`). `WriterHasReader` and the uniqueness of the live
session are not inductive alone: one needs that a dialer owns a socket exactly while
it installs one, alone and before its reader runs (`SockOwned`), that the loops are
not yet running when `connect` starts them (`LoopsWait`), and that an issued token
which is not current has been cancelled (`OthersCancelled`). `AtMostOneLiveSession`
follows from the last. `StaysOffline` is an action property proved from
`TypeOK`: when the client is offline, no task is at a place that leads to a dial
(`OfflineStep`).

`ConnectionsAreServed` needs `SockOwned`, and that a reader which has left its loop
has dropped its stream (`ReadersEnd`). `LockIsAtWork` is inductive with `IInv`: a
reader is spawned by a task that is not at the sink, and the loops are not when they
are started. It is the safety half of `CallsReturn`: whoever waits for the lock waits
for a task that waits for no other task.

`SessionImplementsConnection`: every step is one of `Connection` or a stutter. Two
more facts are needed and are part of `IInv`: the token of a socket that is not
installed yet is neither current nor cancelled (`TokensNew`), so that the swap makes
exactly one connection live; and a call borrows the `Client` (`CallsBorrow`), so that
the last drop finds no call at work.

### Loads

`OrderIsOnto` shows that the rotation visits every node wherever it starts; with
`ReliableAhead` (a load passes over a node only when it failed) an iteration over a
list with a reliable node is never exhausted, hence `OneNodeIsEnough`.
`SnapshotBeforeFlag` is the inductive form of `OkMeansSnapshot`.
`LoadFailedIsUnreachable` rests on `CauseKnown`: the iteration is exhausted only after
a node has failed. `LoaderImplementsLoadService` needs `Pending`: what a load holds
and what the file contains has been published, what it pulled since its call.

`Serial` says, for one load at a time, what the load, the snapshot, the file and the
end of its last write have to do with each other at each step; freshness, cache
equality, monotonicity and the survival of the cache follow (`FreshAlone`,
`CacheInStepAlone`, `ForwardAlone`, `CacheSurvivesAlone`). Their one hypothesis is
`Loads = {l}`, and the runs `stale` and `overlap` show that it is needed. Disk faults
and kills are not excluded: what they can do is in the properties. `CutIs` and
`WriteIs` are what the proof uses of the lengths.

What remains true of loads that overlap is `NewestStaysInPlace`: once every load
under way was called after the last publication, each pulls that version
(`Pending`) and none uses the cache (`CacheUnused`), so the newest configuration
stays. It bounds what the finding `stale` can do.

### Live updates

`TypeOK` is inductive: a task that is in `connect()` or `disconnect()` is in no load,
so a reader handles one message at a time, and what loads apply has been published.
`NewsAreJudged` is the safety half of `Converges` and `Settles`: in all three forms a
message about what is published calls for a load exactly when the client does not
hold it, given that a snapshot from the cache, which has no id, occurs only where no
node has to answer (`ServersOK`). `LiveUpdates` is built from the actions of the two
contracts, so that the refinements above justify what it relies on.

### Config map

`FlatMapProofs`: for every dictionary and order of insertion a value is kept unless
another key contests its path (`ValuesAreKept`), and the map holds nothing else
(`ValuesAreThoseOfKeys`).

`ConfigMapProofs`: the recursion over nested tables implements the flat map
(`ConversionImplementsFlatMap`), for paths of any depth and lists of any length. The
whole insertion counts as the step in which the outermost call returns; every other
step must leave the leaves of the root alone and yet prepare what that step puts
there. `CallsNest` says how: each frame is a copy of the table at its name in the
frame below it, except that, once the inner call has returned, the topmost frame is
that copy with the rest of the path inserted (`Inserted`). `PutBackInserts` carries
this from one frame to the next: putting back a table with the rest of the path
inserted is inserting the path. `LeavesInserted` relates the outcome to the flat map,
which needs that tables are well formed: a node lies below tables only, and a table
has something below it. No induction over the path is needed, since each call is a
step. The two properties of the flat map are then carried over (`ValuesAreKept`,
`NothingIsInvented`).

`DigestSeesEdits` counts: when one value changes, the number of keys with the old value
falls. While it was proved, the property as it was written turned out to say less
than its comment, an implication inside a disjunction; it now says what it means.

### Options

Texts have no bound, and `TrimEnd`, `Trim`, `Pieces` and the flattening of lists are
closed forms, with the greatest or least index of a set in the place of a loop.
`ListLemmas` proves what is needed of them through least counterexamples (the
theorem `WFMin` of the library, since induction theorems take an operator): a
flattened list has the elements of its lists (`FlattenIn`), and as many of a set when
each list has at most one (`FlattenCount`).

`OptionsInv` is inductive. Normalising a second time is why it says more than the
properties: a node has no comma and is not blank, so the second time each node is one
piece, one that names a server is kept, and the list is accepted again
(`BuiltOptionsAccepted`); a node without a name stems from a piece of slashes and
blanks of the application's (`Stems`), since it may become empty only then. The proof
of the latter failed at first: `NodesAccounted` spoke of pieces of slashes alone, and
`/ /`, normalised twice, refutes that. The property was corrected and the text added
to the run `values`.

`AsciiNodesAreConverted`: while the first eight characters are ASCII, bytes and
characters agree up to there (`BytesOf`), so a slice at the length of a scheme ends at
a character (`StripIs`).

### What is only model-checked

* Liveness: `CallsReturn`, `CancelledSessionEnds`, `DropEndsTasks`,
  `ReconnectRestores`, `LoadsReturn`, `Converges`, `Settles`. The prover has no rules
  for fairness and `ENABLED`.
* The violations, which are single behaviours.

Every invariant and action property of the runs that hold is also a theorem.

## Not modelled

* A handshake without an end (`websocket.rs:63`) and a write without an end
  (`websocket.rs:73`, with the lock held): the client has no timeout of its own for
  either, and whatever waits behind them waits as long. The fairness above excludes
  both.
* The path and query of URLs, headers, the Basic token, and messages: formatting.
* AES, Base64 and MD5 themselves, JSON decoding: reduced to whether they succeed and
  to what they distinguish. A digest of keys or values that contain `&` could
  collide; the model has none.
* `snapshot` and `subscribe`: reads of the watch channel, whose guarantees are
  tokio's.
* The examples and tests, which are users of the client.

## Plan

Done: session and loads with their contracts and proofs, live updates, config map,
options; a proof of every safety property.

1. The inductive invariants stated with the modules rather than with their proofs
   (`OptionsInv`), and checked by their runs.
2. Theorems about several actors that need history: which loads a client makes
   between two publications, what a replaced reader may still do.
3. A run of `LiveUpdates` with a caller apart from the loop and several unread
   frames, once its graph is made smaller.
