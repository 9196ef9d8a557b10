# Yuha: a TLA+ model of sessions, daemon and remote protocol

Yuha (crates `yuha-core`, `yuha-client`, `yuha-cli`, `yuha-remote`) keeps remote
development sessions: a daemon on the developer's machine holds the sessions and
their connections, command-line clients talk to it over a Unix socket, and a
remote process on the other host forwards ports and serves clipboard and browser
requests by long polling. This directory models the parts of it that keep state
under concurrency, checks them with TLC on small instances and proves the most
important invariants with TLAPS for every instance.

Paths below are relative to `src/crates/`.

## The system

| Component | State | Operations | What makes it hard |
|---|---|---|---|
| Session pool, `core/src/session/pool.rs` | `pools`: key -> list of ids; `pool_metadata` | add, remove, find, cleanup_expired, clear | checks under read locks, writes under later ones; a sweep that works off an old list |
| Session registry, `core/src/session/registry.rs` | `sessions`, `name_index`, `connection_index`, each behind its own `RwLock` | register, unregister, update, update_status, mark_used, clear, lookups | three maps changed one after another; locks taken in both orders |
| Session manager, `core/src/session/manager.rs`, `metrics.rs`, `lifecycle.rs` | the two above, gauges and totals | create, connect_or_create, status updates, use, close, cleanup | status, pool and gauges follow each other in separate steps; the cleanup task competes with callers |
| Cleanup task, `core/src/session/lifecycle.rs` | a flag | start, stop, the periodic loop | stop and start between two ticks |
| Daemon handler, `client/src/daemon/handler.rs` | `active_clients`: session -> connection | create, connect, disconnect, execute | the client map, the registry and the pool disagree in between |
| Daemon server and client, `client/src/daemon/server.rs`, `daemon_client.rs` | client count, shutdown flag, one handler per connection | accept, serve, shut down | a flag that is looked at before a blocking accept; a counter at its limit |
| Daemon start, `cli/src/main.rs`, `client/src/daemon/mod.rs` | the socket file | ensure_daemon_running, start, stop, status | probe, spawn and bind race; stale files after a crash |
| Port forwarding, `remote/src/main.rs`, `core/src/protocol/buffer.rs` | listeners, connection tasks, map of senders, response buffer | start, stop, accept, data, close | tasks that outlive the request that stops them |
| Request loop and polling, `remote/src/main.rs`, `client/src/client_transport.rs` | one channel shared by all callers | every request, the polling loop | long polls in front of other requests; items taken and not delivered |
| Command socket, `remote/src/ipc.rs` | the socket file, one connection per command | six commands | all remote processes of a host share a path |
| Message channel, `core/src/message_channel.rs` | read buffer | send, receive | frames cut anywhere; a receive dropped in mid-frame |
| SSH transport, `client/src/transport/ssh.rs` | remote file, queue of received data, read buffer | upload, start, read | commands on several channels that nobody waits for; one path for all connections |
| Local and WSL transports, `client/src/transport/local.rs`, `wsl.rs`, `shared.rs` | a child process and its pipes | connect, drop, request | a child that must end when its client is gone, however that happens |
| Retry and circuit breaker, `core/src/error/retry.rs` | attempt; state, failure count | retry_async; can_execute, record_* | results recorded after the state has moved on |
| Metrics collector, `core/src/metrics.rs` | map of metrics, configuration | counter, gauge, histogram, init | one spawned task per record |
| Session metrics, `core/src/session/metrics.rs` | gauges, peak, history, samples | the `record_` calls, reset, cleanup_old_history | records follow the registry under other locks; a reset in between |
| Transport configuration, `core/src/transport/`, `client/src/transport_factory.rs` | a builder, the configurations built | setters, build, validate, connection_key | sessions are shared by strings put together from parts |
| Configuration, `core/src/config.rs`, `cli/src/main.rs` | the files, the command's search | load, fall back, merge, validate, save | files that appear, break and vanish during the search |

Command lines and other processes reach the daemon through `DaemonClient`; the
server gives each request to the handler, which calls the session manager, which
calls registry, pool and metrics. The client library runs the polling protocol
against a remote process over a transport and a message channel; so do the commands
that go without the daemon, whose own connections are placeholders as yet. Every
command finds its configuration file first.

## Modules

- `Session`: the metadata record, its clock arithmetic and `set_status`,
  `mark_used`. Everything about sessions extends it.
- `SessionPool`: `AddCheck` and `AddInsert` are the two locked halves of
  `add_session`, `CleanupScan` and `CleanupRemove` those of `cleanup_expired`;
  `FindSession` is an operator, as `find_session` changes nothing.
- `SessionTable`: the map of sessions alone, an abstract specification of the
  registry. `SessionRegistry` extends it with both indexes: each action is one
  critical section, and `indexing` holds what a task still owes to the indexes.
- `RegistryLocks`: the same operations as sequences of lock requests on fair
  read-write locks; the data is left out.
- `SessionManager` runs the registry's map and the pool together. `stack[t]`
  holds the frames of the calls task `t` is in, so an operation that calls another
  is the code's own composition; each action is what happens between two
  `await`s of a lock. The registry's indexes are left out here.
- `DaemonHandler` extends `SessionManager` by the client map and the requests of any
  number of clients, each handled in a task of its own.
- `SessionMetrics`: the same calls with everything that is recorded of them, over
  a registry reduced to the status of each session; `SessionManager` keeps the
  totals and gauges only.
- `DaemonServer`: accept loop, connections, clients; requests are opaque.
- `PortForward`: listeners, connection tasks and the response buffer. A task that
  writes to a peer (`writing`, `relaying`) looks at nothing else until the write ends.
  `RemoteProtocol` extends it by requests, the server loop and the polling loop.
- `SocketPath`: a path that several processes remove and bind. `DaemonStart` and
  `Ipc` extend it, the first with commands that start daemons, the second with
  shells that send commands to remote processes.
- `MessageFifo`: the abstract queue of messages; `MessageChannel`: the frames.
- `SshTransport`: several connections to one host that upload to one file;
  `command[c][n]` is where the shell of a connection's n-th command is, and `mode` whether
  the file is there and may be executed. Any command may fail, which nobody notices.
- `ProcessTransport`: a client, the children it spawns one after another, and the
  request loop of each child at the other end of the pipes.
- `TransportConfig`: a builder and the configurations built with it. Hosts, users and
  paths are sequences of tokens, because `connection_key` and the session names are
  those put one after another, and the question is who gets the same one.
- `Config`: commands that search, read, merge and validate while files are written.
  `steady` is a history variable: the paths whose file was whole all the time.
- `BackgroundTask`, `CircuitBreaker`, `Retry`, `MetricsCollector`: one component each.
- `*Proofs`: the theorems of a module. `SessionManagerProofs` also has those of the pool
  on its own, `StartupProofs` those of `SocketPath` under its two users and of `Config`,
  `RemoteProofs` those of `PortForward`, `RemoteProtocol` and `MessageChannel`,
  `LibraryProofs` those of the other modules that stand alone. `SequenceFacts` holds the
  facts about sequences that several of them need.
- `MC*`: what the TLC instances need; a run that needs nothing more uses the module
  itself.

`PROJECT.json` maps every definition to its source lines.

## What the runs show

Passing runs:

| Run | Properties | What it shows |
|---|---|---|
| `pool` | `PoolIndexExact`, `TotalOvershootBounded` | Through concurrent adds, removals, sweeps and clears the Vecs and the metadata of the pool describe the same sessions, and the total limit is exceeded by at most one entry per concurrent adder. |
| `registry` | `LookupComplete`, `SessionOvershootBounded`, `GoneForever` | Lookups by name and by connection key miss no registered session, the session limit is exceeded by at most one session per concurrent caller, and sessions that left never come back. |
| `manager` | `SessionsAccountedFor`, `GaugesMatch`, `PooledIsIdle`, `FailedExpires` | Created and closed totals balance with the registry while two callers and the cleanup task close the same session; the gauges count the sessions by status and only idle sessions are pooled until any two calls overlap; the cleanup task gets to every session that stays failed. |
| `handler` | `ActiveHasClient` | Between requests an active session that was never reused has its client connection, through the requests of two clients on any session and a cleanup task that takes sessions away while they are connected; except for a session disconnected between the store of its client and its activation. |
| `progress` | `FramesAligned`, `NextConnectionStops`, `WaitingEnds`, `ImplementsFifo`, `SentIsReceived`, `CallsReturn`, `ChildEnds`, `HistoryForgets` | The parts that promise that something happens, one at a time: clients of the daemon are answered or see their connection close, and the next connection ends a daemon that was asked to shut down; messages arrive, whole and in order, through receives dropped in mid-frame; the registry's calls return when no lookup by index is among them; no child process is left behind; and the history of closed sessions is dropped. |
| `protocol` | `EventOrder`, `ClosedIsReported`, `ActiveIsOpen`, `NothingLost` | Every forwarded connection is announced before its data and reported closed after it, through stop requests at any moment; the map of senders agrees with the tasks; and what is neither refused as too large nor taken by a clipboard request reaches the polling loop in order. |
| `protocol_progress` | `RequestsReturn`, `EventsPolled`, `CutEnds` | Requests get through behind long polls, every event is polled, and a connection that a stop request removed comes to its end, unless a peer that reads nothing holds its task in one write for ever. |
| `sockets` | `SomeoneReachable`, `FailsOnlyContended`, `CommandsReturn`, `ShellsReturn` | After any interleaving of starts one process is reachable at the socket path, a file left by a crash keeps none from starting, and every command, whatever calls it makes, returns whatever happens to the daemons and to the remote processes. |
| `library` | `RunningHasLoop`, `CountMatchesState`, `ReturnsLastOutcome`, `CounterIsSum`, `SerialUploadRuns`, `StreamIsRemotes`, `GaugeWithinReal`, `SharedReachesTarget`, `FirstSteadyWins` | The parts that stand alone, one at a time: cleanup task, circuit breaker, retry loop, metrics collector, session metrics across resets, uploads and streams of two SSH connections, the keys and names by which sessions are shared, and the search for a configuration file that others write meanwhile. |

Runs that end in a counterexample; each checks one sentence of the repository's
comments that the code does not keep (`findings` in `PROJECT.json` quotes it):

| Run | Property | What it shows |
|---|---|---|
| `handler_reuse` | `CreatedHasClient` | A session reused from the pool is answered as created without a client connection. |
| `server_refusal` | `RefusedOnlyWhenFull` | Connections are refused although the earlier ones are gone. |
| `locks_lookup` | `CallsReturn` | list_by_name and list_by_connection_key deadlock with update and clear. |

Every property that passes depends on the code it is about: an operator whose
comment begins with "Mutation:" is a variant of the definition after it, with a
mistake that could be made there. No specification uses it; `PROJECT.json` lists
under `mutants` which property fails when it takes the definition's place.

The formulas `StartTypeOK`, `IpcTypeOK`, `ChannelTypeOK` and `ForwardTypeOK` only
describe the variables of their modules; no run is spent on them, nor on
`PoolTypeOK`, `RegistryTypeOK` and `ClosesOnlyHalfOpen`, which are proved.

### Disagreements

Modelling brought up more places where the code does not do what a comment, a
document or a test says. Each is stated as a formula at the end of its module,
under a heading of its own, the last seven rows apart, which say what a checked
property leaves out; adding it to a configuration of that module that reaches the
case gives the counterexample.

| Formula | Module | The code | The text |
|---|---|---|---|
| `FoundMatchesKey` | `SessionPool` | add_session pushes the id into the Vec of the metadata's key and overwrites the metadata; an id pooled before under another key stays in that key's Vec (`core/src/session/pool.rs:112`) | "Map of connection key to list of pooled session IDs": find_session returns from it a session that belongs to another key (`core/src/session/pool.rs:41`) |
| `ConnectionLimit` | `SessionPool` | add_session checks the limits under read locks, releases them and inserts later, so concurrent adds exceed the limit (`core/src/session/pool.rs:103`) | "Maximum number of sessions per connection key" (`core/src/session/pool.rs:16`) |
| `SweepDropsOnlyExpired` | `SessionPool` | cleanup_expired collects the expired ids under a read lock and removes them one by one afterwards without looking at them again, so a session pooled afresh in between is removed (`core/src/session/pool.rs:281`) | "Clean expired sessions from pools" (`core/src/session/pool.rs:263`) |
| `SessionLimit` | `SessionTable` | register compares the number of sessions with the limit under a read lock and inserts under a later write lock (`core/src/session/registry.rs:62`) | "Maximum number of sessions that can be registered" (`core/src/session/registry.rs:14`) |
| `LookupSound` | `SessionRegistry` | register inserts the session before it pushes its old name into the index; a rename in between leaves the session indexed under both names, for good (`core/src/session/registry.rs:94`) | "List sessions by name" (`core/src/session/registry.rs:282`) |
| `UniqueNames` | `SessionRegistry` | register checks the name index under a read lock and pushes into it later, and update checks nothing, so two sessions get one name (`core/src/session/registry.rs:70`) | "Whether to allow duplicate session names" (`core/src/session/registry.rs:16`) |
| `FreeNameIsFree` | `SessionRegistry` | A session unregistered while its register call has not pushed its name yet leaves that name in the index; with duplicates not allowed register then answers AlreadyExists for it for ever (`core/src/session/registry.rs:94`) | "Session already exists" of that error (`core/src/error/mod.rs:213`) |
| `ReconnectableKept` | `SessionManager` | should_expire_session expires every failed session, enable_auto_reconnect or not, before anything reconnects it (`core/src/session/lifecycle.rs:130`) | "Enable automatic reconnection for failed sessions" (`core/src/session/lifecycle.rs:19`) |
| `CommandInSession` | `DaemonHandler` | The cleanup task unregisters an expired session and leaves its client in active_clients; handle_execute_command looks only there (`client/src/daemon/handler.rs:247`) | "Maximum session lifetime" (`core/src/session/lifecycle.rs:15`) |
| `ShutdownStops` | `DaemonServer` | run looks at the shutdown flag before accept only, so the daemon stays until another connection comes (`client/src/daemon/server.rs:98`) | "Shutdown the daemon" (`client/src/daemon_protocol.rs:47`) |
| `StopsOnlyPort` | `PortForward` | stop_port_forward collects every connection, whatever its port (`remote/src/main.rs:312`) | "Close all connections for this port" (`remote/src/main.rs:309`) |
| `AcceptsOnlyWanted` | `PortForward` | The task that accepts on the port is not told of the stop and goes on (`remote/src/main.rs:234`) | "Stop port forwarding" (`remote/src/main.rs:305`) |
| `PollingStops` | `RemoteProtocol` | The loop polls again at once after every error, without end and without a pause when the channel is closed (`client/src/client_transport.rs:253`) | "Continue immediately on error, server will handle timing" (`client/src/client_transport.rs:265`) |
| `OneLoop` | `BackgroundTask` | stop_cleanup_task only clears the flag; a start before the old loop's next tick sets it again and spawns a second loop, and both go on (`core/src/session/lifecycle.rs:99`) | "Start the cleanup task", and the early return at line 63 is there to keep it one (`core/src/session/lifecycle.rs:55`) |
| `DelayLimit` | `Retry` | delay_for_attempt limits the delay and then adds up to a tenth of it (`core/src/error/retry.rs:82`) | "Maximum delay between retries" (`core/src/error/retry.rs:15`) |
| `OneDaemon` | `DaemonStart` | ensure_daemon_running probes and then spawns; two commands both find no daemon, and the second daemon removes the first one's socket file and binds its own (`cli/src/main.rs:519`) | "Centralized Management: All connections managed in one place" (`src/DAEMON_IMPLEMENTATION.md:73`) |
| `RemovesOwnSocket` | `DaemonStart` | run removes whatever file is at the path when it ends, also that of a daemon that took the path over (`client/src/daemon/server.rs:150`) | "Clean up socket file" (`client/src/daemon/server.rs:150`) |
| `PingFindsRemote` | `Ipc` | All remote processes bind the same default path and remove what is there; when the last one that bound it ends, the others serve a socket that has no path (`remote/src/ipc.rs:264`) | "Check if remote process is running" (`remote/src/ipc.rs:264`) |
| `MessageReachesClient` | `Ipc` | SendToClient puts the message into a channel made in main; run_with_ipc ignores that sender and forwards from a channel of its own that nobody writes to (`remote/src/main.rs:107`) | "Send message to client" (`remote/src/ipc.rs:25`) |
| `RunsBinary` | `SshTransport` | Each command of the upload is sent on a channel of its own and none is waited for, so the server may still be writing when the binary is started (`client/src/transport/ssh.rs:215`); a command that fails goes unnoticed too, as `exec(false, ...)` asks for no reply (`client/src/transport/ssh.rs:224`) | "Binary transferred successfully to {}" (`client/src/transport/ssh.rs:301`) |
| `OnlyRemoteData` | `SshTransport` | MyHandler::data queues the data of every channel, so the "Transfer completed" that an upload command echoes (client/src/transport/ssh.rs:218) is read as part of a message (`client/src/transport/ssh.rs:49`) | "An adapter that implements AsyncRead and AsyncWrite for a russh channel" (`client/src/transport/ssh.rs:67`) |
| `GaugeIsLatest` | `MetricsCollector` | gauge spawns a task for every value, and the tasks run in any order (`core/src/metrics.rs:376`) | "Current value (for counters and gauges)" (`core/src/metrics.rs:85`) |
| `SamplesWithinLimit` | `MetricsCollector` | add_sample removes one sample at most, so a series longer than a lowered limit keeps its length (`core/src/metrics.rs:121`) | "Current samples (limited by max_samples config)" (`core/src/metrics.rs:83`) |
| `UniquePath` | `SshTransport` | The path is made of the process id of the client, which is the same for all its connections: one upload truncates the file that another is about to start (`client/src/transport/ssh.rs:195`) | "Generate a unique temporary path on the remote" (`client/src/transport/ssh.rs:194`) |
| `PeakCoversConcurrent` | `SessionMetrics` | record_status_change looks at the peak only when a session becomes active, so sessions that go to idle from elsewhere are not seen (`core/src/session/metrics.rs`, `record_status_change`) | "Peak concurrent sessions" (`core/src/session/metrics.rs:39`) |
| `HistoryAlwaysForgets` | `SessionMetrics` | The cleanup drops entries with a closing time only; a session removed before its creation was recorded gets its entry afterwards, and never a closing time (`core/src/session/metrics.rs:260`) | "Clean up old session history" (`core/src/session/metrics.rs:254`) |
| `NamedReachesTarget` | `TransportConfig` | Every local session is asked for under one name, so a command with another binary gets the session of the first (`cli/src/main.rs:480`) | "Create or connect to session" (`cli/src/main.rs:479`) |
| `SharedStartsBinary` | `TransportConfig` | The keys of SSH and WSL leave out the binary that the factory hands on (`client/src/transport_factory.rs:175`), so two configurations that start different binaries have one key (`core/src/transport/mod.rs:280`) | "Generate a connection key for identifying similar connections" (`core/src/transport/mod.rs:275`) |
| `TlsMatters` | `TransportConfig` | The TCP transport that the factory makes never looks at the TLS settings (`client/src/transport/tcp.rs`) | "Enable TLS" (`core/src/transport/builder.rs:282`) |
| `BinaryFound` | `TransportConfig` | validate looks whether the binary is there when the configuration is built; it may be gone when it is run (`core/src/transport/mod.rs:359`) | "Local binary not found" of that check (`core/src/transport/mod.rs:361`) |
| `DefaultsOnlyWithoutFile` | `Config` | A file that is there and cannot be read or parsed is skipped, and after the last one the defaults are used (`core/src/config.rs:345`) | "No configuration file found, using defaults" (`core/src/config.rs:362`) |
| a pooled session is found (with a minimum idle time) | `SessionPool` | find_session skips sessions idle for less than min_idle_time (`core/src/session/pool.rs:169`), 5 seconds by default; the daemon sets it to its session_idle_timeout (`client/src/daemon/server.rs:38`), the age at which pooled sessions are swept | "assert_eq!(found, Some(metadata.id));" right after add_session, which only holds with min_idle_time 0 (`core/src/session/pool.rs:370`) |
| `GaugesMatch` without `~disturbed` | `SessionManager` | update_session_status reads the old status, changes it under another lock and records the change of the stale old status (`core/src/session/manager.rs:85`) | "Current active sessions" of a gauge that stays wrong afterwards (`core/src/session/metrics.rs:23`) |
| `PooledIsIdle` without `~disturbed` | `SessionManager` | update_session_status(Idle) adds to the pool in steps of its own, so an overlapping update to Active removes the session before it is added (`core/src/session/manager.rs:98`) | "Remove from pool when becoming active" (`core/src/session/manager.rs:105`) |
| `ActiveHasClient` for `crossed` sessions, or used ones | `DaemonHandler` | connect_client stores the client and sets the status Active in separate steps (`client/src/daemon/handler.rs:291`); handle_disconnect_session of another client's request runs in between and removes the client (`client/src/daemon/handler.rs:161`), and use_session sets Active without a look at the clients | "Session is active and ready" (`core/src/session/mod.rs:74`) |
| `WaitingEnds` for requests that do not parse | `DaemonServer` | handle_client logs a request that it cannot deserialize and reads on without an answer; the client waits for ever (`client/src/daemon/server.rs:190`) | "Invalid request" of an error code that is never sent for it (`client/src/daemon_protocol.rs:178`) |
| `NothingLost` with `dropped` ignored | `RemoteProtocol` | get_clipboard answers with all items of the response buffer, and the client keeps the clipboard item only (`remote/src/main.rs:339`) | "PollData: Long polling for receiving server-side data" (`core/src/protocol/request_response.rs:11`) |
| `NothingLost` with `dropped` ignored | `RemoteProtocol` | The items are taken from the buffer before send refuses a message over 65535 bytes; they are gone (`core/src/message_channel.rs:50`) | "Data: Contains multiple data items from polling" (`core/src/protocol/request_response.rs:22`) |

### Bounds

Two tasks are enough for every check-then-act race of the pool and the registry,
as each race is between one step of one call and one of another; the limits are
set to 1 or 2 so that they are reached. The cleanup task is a third task in
`manager` and in `handler`. There is one session more than the
limit and its overshoot allow, so that the bounds could be broken. Clock values are
picked on both sides of each threshold (idle time, lifetime). `MaxCalls`, `MaxUses`, `MaxRequests`,
`MaxCommands`, `MaxTasks`, `MaxFailures`, `MaxConnections` and `MaxData` only end
the behaviours. `registry` has two names and one key: renames happen, changes of
the key do not; the theorem `LookupAlwaysComplete` covers both. In `pool` every
session keeps its key, the case in which `PoolIndexExact` is claimed. `manager` has
one session that three tasks fight over; `handler` has two clients, a cleanup task, two
sessions and one key, so that a request can reuse, disconnect or execute in the session
that another one is still connecting. Its constraint `Rounds` only lets the cleanup run
until the third request comes in.

Three history variables mark where a property stops to be claimed. `disturbed` in
`SessionManager` is set once any two calls overlap, be it on different sessions, or a
caller writes back an old copy of the metadata: then the gauges and the pool may go wrong
for good (see Disagreements), and `GaugesMatch` and `PooledIsIdle` are claimed before.
`crossed` in `DaemonHandler` holds the sessions that a request disconnected while another
one had stored their client and not yet made them active; such a session is active
without a client, and `ActiveHasClient` is claimed for all others.
`dropped` in `RemoteProtocol` holds the connections of events that were taken from
the buffer and not delivered, because the message was too large or a clipboard
request took them; `NothingLost` is claimed for all others.

`steady` in `Config` and `overlap` and `disturbed` in `SshTransport` are of the same
kind: the first is what `FirstSteadyWins` is claimed for, the others mark the uploads
that `SerialUploadRuns` is not claimed for, those of a connection one of whose commands
failed among them. `overlapped` in `SessionMetrics` holds the
sessions on which two calls were under way at a time.

`sockets`, `library` and `progress` check several modules in one run. `MCSockets`,
`MCLibrary` and `MCProgress` extend them and add one variable, fixed in the initial
state, that says whose behaviour it is; the variables of the others do not change. So
the states of the parts add up and do not multiply, and each part behaves as its own
specification says. `library` has the parts with safety properties, `progress` those
with liveness properties, as those need other bounds and no symmetry.

The frame limits of the message channel and of the protocol (65535 bytes in the
code) are small constants; the interesting sizes are zero, the limit and one more.
`MaxChunks` lets the SSH upload use its short form (one part), its long form (three
parts, the fewest it is used for), and none, and two connections are enough for one to
disturb the other. The constraint `Uploads` of `library` leaves a behaviour in which both
connections upload once neither is one of which `SerialUploadRuns` is claimed any more;
what their streams return does not depend on each other's uploads. Hosts, users and paths of `TransportConfig` are chosen to collide
when they are put together: a host that ends in a port, a user with an `@` in it, two
paths that are not UTF-8 and print alike, a distribution called "default". `Config`
has two paths, two commands and one write to a file; the theorem
`FirstSteadyAlwaysWins` covers any number. Three connections and a limit of two let
the daemon of `progress` serve, refuse and be asked to stop; two children let one
replace the other. Symmetry is used in `pool`, `registry`, `handler` and `library` only, which
have no liveness property, over tasks, clients, sessions, names and connections that no
constant singles out.

`CHECK_DEADLOCK FALSE` is set where the system may stop: a server that has exited,
clients and shells that have made all their calls, a channel that is closed, a
retry loop that has returned, and `locks_lookup`, whose deadlock is reported as the
failure of `CallsReturn`.

### Fairness

- Tasks that have a step to take take it (`WF` per task): the tokio runtime polls
  every task that is ready, and locks are granted in order. Where calls are made
  at the users' will (requests, starts, stops, commands) there is no fairness.
- The cleanup loop and time itself proceed: an interval keeps ticking.
- A child process is scheduled, and handling a request ends (`ProcessTransport`);
  nothing makes its client drop the stream.
- Strong fairness is assumed in three places. One is the reads of `MessageChannel`: a
  receive that is dropped and called again every 100 ms takes the bytes that are there
  when it is first polled, so it cannot miss them for ever. Another is the daemon's
  accept: it may fail any number of times, and not for ever while a connection waits. The
  third is the branch of a connection task's `select!` that receives from the channel of
  queued data: `select!` picks at random among the branches that are ready, so it does not
  pass that one over for ever. It is polled only when the task is not inside a write.
- Nothing is assumed of the outside: a peer may fall silent or stop reading, a target may
  never send, and no client has to connect; that is why `ShutdownStops` does not hold, and
  why `CutEnds` has a premise, that every write of the task ends (`[]<>~Writing(i)`).

The comment above each specification says which actions are fair and why.

## What is proved

TLAPS proves these for every value of the constants under the named assumptions
of the modules (`PoolAssumption` and so on: limits are natural numbers, `None` is
not an element of the sets it is added to, ids and tasks are finite where they
are counted).

- `SessionManagerProofs`, the pool on its own. `PoolTypeCorrect` first. `MetadataAlwaysIndexed` is
  inductive together with the types: every way to take an id out of a Vec also
  takes its metadata. `PoolIndexAlwaysExact` needs the assumption `FixedKeys`
  (without it `FoundMatchesKey` fails, see Disagreements) and strengthens the invariant by
  what concurrent adders carry. `TotalOvershootAlwaysBounded` strengthens the bound
  to count the adders that have passed the check and not yet inserted: pooled
  sessions plus such adders stay within the limit plus the number of tasks less one.
- `SessionTableProofs`. Types, distinct ids, every session filed under its own id,
  `SessionOvershootAlwaysBounded` by the same counting argument, and
  `SessionsGoneForever`. `TableNext` allows every status to be set, so that whoever
  changes the map through the registry's methods implements it.
- `SessionRegistryProofs`. The registry's actions are put together from the table's, so by
  construction (the lemma `RegistryIsTable`) what is proved of the table carries over.
  `LookupAlwaysComplete` is not inductive by itself. It needs that a registered
  session is indexed or its register call still owes the entry, and that a task
  that still has to remove entries works for a session that is gone for good
  (`IndexDebts`), which is where `Gone` comes in: a session that left never comes
  back, so no late removal hits an entry of a live session.
- `SessionManagerProofs`, the manager. `ManagerTypeCorrect` gives every step of every method its
  locals. With it `ManagerImplementsTable`: whatever methods interleave, the map
  changes as under single calls of the registry, so `ManagerSessions` has the
  table's theorems for the manager. `SessionsAlwaysAccountedFor` counts: created
  sessions plus those inserted and not yet recorded are the registered ones plus
  those closed plus those removed and not yet recorded, and each step moves one task
  or one session between these. `GaugesAlwaysMatch` speaks of the moments between
  calls; its invariant (`SerialInv`) of every step of a call: until two calls overlap
  at most one task is in a method (`Alone`), what it has read is still so (`Fresh`),
  and there is a function b from sessions to statuses (`Booked`) that the gauges
  count exactly and that differs from the registry only at the session whose change
  is not yet recorded, where it has the old status. `PooledAlwaysIdle` adds
  `PoolSerialInv`: a pooled session is idle or the task in the method is about to
  take it out (`Evicting`). It assumes that callers set only `Idle`, `Active`,
  `Failed` or `Closed`, as the run `manager` does; for the other statuses
  `update_session_status` has no rule for the pool (`core/src/session/manager.rs:112`),
  and a pooled session given one of them stays pooled.
- `DaemonHandlerProofs`. A task's stack now has the frame of a handler under those of
  the manager's methods that it called. `Upon` says which frame may lie on which, and
  `Serves` what a handler may have called: with it `HandlerTypeCorrect`, and
  `HandlerImplementsTable`, from which `HandlerSessions` has the table's theorems for the
  daemon. All this is for any number of clients.
  `ActiveAlwaysHasClient` is not inductive: two requests take clients out and put them in
  while a third has a session half connected. The invariant `ClientInv` has three parts;
  a session is `Covered` if it has its client or was `crossed`. `Marked`: whoever is about
  to make a session active works for `connect_client`, or has used the session (the reuse
  that leaves sessions without a client, see Disagreements), or the session is gone.
  `Held`: from when `connect_client` has stored the client until the request is answered,
  the session is covered. `ActiveBacked`: an active session that was never used is covered,
  or a request to disconnect has just taken its client and is about to make it idle
  (`Disconnects`).
- `LibraryProofs`, the parts that stand alone.
  - Background task: a loop ends only when it finds the flag cleared, and the flag is
    set only together with a new loop, so the flag never lacks one.
  - Retry: `RetryInv` ties the attempt counter to the number of outcomes and of
    sleeps; `AlwaysReturnsLastOutcome` and `DelaysAlwaysFollowPolicy` are its parts.
  - Circuit breaker: `CountMatchesState` is inductive with the types; the half-open
    state counts as "not below the threshold", as only a success resets the count.
    `ClosesOnlyHalfOpen` follows step by step.
  - Session metrics: `GaugeAlwaysWithinReal`. As long as no calls overlap on a
    session there is one caller per session (`OneCaller`) and what it remembers is
    still so (`Remembers`); a step then moves one session from one recorded status
    to another (`OneCallMoves`), the gauges follow or stay where no gauge counts it
    (`GaugesFollow`), and a decrement after a reset that stops at zero is made up
    for by the session itself, which is still among those counted (`RealMoves`).
  - SSH upload: `SerialUploadAlwaysRuns`, for any number of connections and of parts.
    `UploadInv` says of every connection that its commands are sent in order and,
    without overlaps, that all but the last are done; and if nobody else wrote to
    the file and no command failed, that the file is there once the first command has
    opened it (`Made`), is exactly the parts whose commands are done and is executable
    once the command before the start is done. `StepElsewhere` says what
    the steps of other connections may do to that.
  - SSH stream: `StreamAlwaysRemotes`, for any sizes of messages and buffers. A message
    that arrives is appended to what is written and to what is queued; a read moves a
    beginning of the kept rest, or of the next message, to what was returned.
  - Metrics collector: `CounterAlwaysSum`. A counter is the sum over all records of what
    each has added; a record that is applied changes one summand from zero to its value.
  - Transport configurations: `SharedAlwaysReachesTarget`, for all users, hosts, paths
    and ports: the place, and for local sessions the binary, which is all there is to
    them; for SSH and WSL the binary may differ (`SharedStartsBinary`). `BuildersTyped` is the inductive part. The rest is about the texts: the
    port is the last token and the two before can be told from it (`SameAtPort`), the last
    `@` stands between user and host since no host has one (`LastSeparator`), and the
    first token tells the types apart (`SameType`).
- `StartupProofs`, the sockets. Every step of `DaemonStart` and of `Ipc` is, for the socket path, a
  step of `SocketPath` or none, so one inductive invariant serves both. `Contention`:
  a process that finds the path otherwise than it left it has seen another one start
  or leave, which is noted in `contended`. `Reaching`: while nobody leaves, the file
  belongs to a process that serves, and without a file some process that will not
  fail is about to make one. `FailsOnlyContended` and `SomeoneReachable` follow for
  the daemons and for the remote processes.
- `StartupProofs`, the configuration file. `FirstSteadyAlwaysWins`: a command passes over a path only when it
  finds no file that parses there. `FirstSteadyWins` speaks of commands that have
  chosen; the invariant `SearchInv` says the same of every step of the search, that
  its path is not behind any steady one, and that what is steady is whole at the
  moment, so a path that does not parse is not steady. A lemma each for a command
  that moves on, one that ends, and a write, which only takes from what is steady.
- `RemoteProofs`, the port forwarding. `ForwardInv` describes for every connection the events reported
  of it by the phase of its task, by whether it is in the map of senders and by
  whether a stop request cut it. `ForwardKeepsInv` is for the forwarding on its own;
  `ProtocolImplementsForward` shows that the whole protocol does nothing else to it,
  with the help of `ProtocolKeepsQueue` (the server only works on requests that
  somebody waits for). `EventsInOrder`, `ClosedAlwaysReported` and `ActiveAlwaysOpen`
  follow.
- `RemoteProofs`, the events. `NothingEverLost`, for any number of connections, callers
  and events. `NothingLost` alone would let an answer be replaced by the next one;
  `LossInv` adds that an answer is on its way exactly while the server sends it. Each step
  moves events from the buffer to the answer or from the answer to what was polled, or
  appends one to the buffer and to what happened.
- `RemoteProofs`, the message channel. `FramesAligned` does not say where a frame begins,
  so it is not inductive. `ChannelInv` says that the bytes on their way are exactly the
  frames of the messages on their way. `FramesStayAligned` follows, and
  `ChannelIsFifo`: what a receive decodes is the first message on its way, so the channel
  implements `MessageFifo` step by step.

`SequenceFacts` has the inductions. The library's induction theorems take a predicate as
a parameter, which the provers cannot instantiate; `SetInduction` is about a set of
numbers instead, and follows from the least element that every set of naturals has. With it
`FlattenSeq` and the sums of the metrics are shown to be what their recursion says.

The assumptions that only the proofs need are `NoneIsNoRequest` and `NoneIsNoResponse`
(`RemoteProtocol`), `NoneIsNoMetric` (`MetricsCollector`), that `Nil` is no status and no
step of a call (`SessionMetrics`), and `TokenAssumption` (`TransportConfig`): hosts, users
and paths are sequences of strings, and no two ports are written alike, which the provers
do not know of `ToString`. TLC evaluates them all on the runs.

Only model-checked are the liveness properties, as the prover has no fairness reasoning:
`FailedExpires` (run `manager`), `NextConnectionStops`, `WaitingEnds`, `SentIsReceived`,
`CallsReturn`, `ChildEnds` and `HistoryForgets` (`progress`), `RequestsReturn`,
`EventsPolled` and `CutEnds` (`protocol_progress`), `CommandsReturn` and `ShellsReturn`
(`sockets`). Every invariant, action property and refinement that a passing run checks is
a theorem.

## What is not modelled

- Averages and rates of the session metrics, which are derived from what is modelled.
- `SessionReconnectionManager`, `MessageBuffer` and `core/src/protocol/daemon.rs`,
  which nothing uses.
- Payload bytes of forwarded connections, clipboard contents, urls, JSON, TOML.
- What the daemon connects to and what its commands do: `connect_client` and
  `execute_command_on_client` are placeholders that open no transport and answer every
  command with success, so `DaemonHandler` and `RemoteProtocol` meet nowhere in the
  code. `handle_ssh_via_daemon` likewise takes `_auto_upload_binary` and ignores it
  (`cli/src/main.rs:401`); `SshTransport` and `ProcessTransport` are reached by the
  commands with `--no-daemon` and by users of the client library.
- SSH authentication, and `poll_write`, whose future belongs to russh: it is made anew
  at each poll and dropped when it is pending (`client/src/transport/ssh.rs:134`), and
  what that leaves behind is decided there.
- TCP and Windows transports (one socket each), logging, error formatting, the GUI
  placeholder, clipboard and browser libraries: output or one call each.
- The periodic tasks of the metrics collector: they have the shape of
  `BackgroundTask`.
- Windows named pipes.
- A circuit breaker with threshold 0, which `new` accepts: it behaves as one
  with threshold 1, but `CountMatchesState` cannot be said of it.

Two simplifications: `stop_port_forward` is one action, as it holds the map of
connections throughout; and in the cleanup callback the expiry test and the
removal that follows are one step, since the test reads a copy only.

## Plan

Done first, because everything else calls it: pool, registry, manager and handler;
then the server, the remote protocol, and the components around them.

Added since: two SSH connections that share the upload path, the session metrics with
their history, child processes of the local transports, transport configurations and
their keys, configuration files with the proof of their search, every command of the
command line, and the next connection that ends a daemon.

Next:

1. Extend the model: several keys in `SessionManager` with status updates by the
   daemon; the metrics collector's periodic tasks; the registry's indexes under the
   manager, so that lookups by key go through them.
2. Abstract specifications for the daemon (a request is answered once) and for the
   port-forwarding event stream, with `DaemonServer` and `RemoteProtocol` shown to
   implement them.
3. Proofs: a bound on how far the gauges go wrong when calls overlap; the liveness properties remain with TLC.
