# TLA+ models of the kernel-collector simulator

This directory holds the formal models of the replay tools in
`src/tools/`. The main one is the kernel-collector simulator
(`src/tools/kernel-collector-simulator/`). It reads a JSON recording of
kernel-collector messages. It then replays the recording, one record per
timer tick, to a reducer over a reconnecting ingest channel.

## The system

The simulator is one process with a single libuv loop. These parts run on
that loop:

| Part | Code | What it does |
|---|---|---|
| Recording store | `IngestJsonReader` constructor, `next`, `reset` (`ingest_json_reader.cc:13-98`) | Parses the file. Holds the cursor `current_`. `next()` writes the current record, advances and wraps the cursor, and returns the gap to the next record's timestamp. |
| Event dispatcher | `IngestJsonReader::write_message` (`ingest_json_reader.cc:100-477`) | Turns a record into one writer call according to its `name`. A `type_error` is caught in `next()`. An unknown name is logged and skipped. |
| Identifier anonymizer | `make_unique_ip`, `unique_prefix_`, cgroup rename (`ingest_json_reader.cc:28-52, 231-260`) | Rewrites pids' comm, cgroup names and IPv4 addresses so that several simulators do not collide. |
| Replay scheduler and supervisor | `KernelCollectorSimulator` (`kernel_collector_simulator.cc`) | `callback()` is the scheduler job. It returns `stop` when `stopped_` is set. Otherwise it replays a record, flushes and re-defers itself. `on_connected` clears `stopped_` and starts replay. `on_error` stops the scheduler, sets `stopped_`, resets the reader and sleeps the jittered delay. |
| Ingest connection | `IngestConnection` (`ingest_connection.cc`) | Forwards the channel's `on_connect`, `on_error` and `on_closed` to the caretaker and to the simulator's callbacks. |
| Reconnecting channel and signals | not under `src/` | The environment. It connects, reports errors and closes, backs off and reconnects. A signal stops the loop. |

How they interact: `run_loop` calls `connect()`. On `on_connect`, the caretaker
calls `on_connected`, which replays the current record at once and defers the
scheduler job. Each tick replays one record. A transport error goes through
`on_error`, which rewinds the reader. The channel then reconnects.

Two further programs are modelled. The reducer simulator `sim-reducer`
(`simulator/reducer.cc`, `reducer-simulator/generator.cc`, `simulator/random.cc`) is
multi-threaded. `main` starts one thread per generator and a signal-handler
thread, and joins them all. Each generator runs its own libuv loop with a
repeating timer that publishes random metrics. `on_terminate` sends each
generator's async stop handle and stops the signal handler. The OTLP clients,
the stress and probe programs, and the simulator's `main` (flag parsing) are
listed in `PROJECT.json` as not modelled, with the reason.

## Modules

- `ReplaySupervisor.tla` models the replay core: the reader's cursor, the
  scheduler job, the three connection handlers and the environment.
  - **Variables.**
    - `proc`: running, crashed or exited.
    - `chan`: the channel's state.
    - `stopped`: `stopped_`.
    - `armed`: whether the scheduler holds a deferred job.
    - `delay`: the last deferred period in ms.
    - `cursor`: `current_`, 1-based.
    - `seen`: the records the peer has received in the current session. The peer keeps no state across sessions (spec §3).
  - **Records** are abstracted to a `Kind`, meaning what `write_message` and the header reads do with them, and a `Stamp`.
    - A missing data field is read with `operator[]` on a `const json`. That is undefined behaviour, so `WriteOutcomes` lets it be written, skipped or abort the process.
    - A malformed timestamp throws outside the `try`. `HeaderThrows` models it for both the current and the next record, since `next()` reads both unless it wraps.
  - **Actions.** Every callback runs to completion on the loop, so it is one action. Each handler's action includes its whole effect: `Callback` includes `next()` and `defer`; `OnConnect` includes the caretaker's `on_connected`; `ChannelError` includes `on_error` with `reset()`. `OnClosed` changes nothing but the channel, because the simulator does not override `on_closed`. `Reconnect` (spec-modelled) and `Shutdown` are the environment.
  - The operators named `...NoWrap`, `...NoReset`, `...NoDefer` and `...KeepsStopped` are mutations of the code. The check swaps them in to show that each property can fail.
- `AbstractReplay.tla` is the abstract specification of spec §4.4-4.5. It is a state machine over Disconnected, Connecting, Connected and Backoff, plus Stopped once the process has ended. It has a cursor that starts every session at record 1, and the session's records. `Dispatch` allows a record to be written or skipped, except that handled records are always written and skipped kinds never are.
- `ReplayRefinement.tla` maps `ReplaySupervisor` onto it with `INSTANCE AbstractReplay WITH`. The mapping is:
  - `st` is the channel state (`ChanState`), or Stopped once `proc` is no longer running;
  - `cur` is `cursor`;
  - `sess` is `seen`.

  `stopped`, `armed` and `delay` have no abstract counterpart. `ImplementsAbstract` is `A!ASpec`, which includes weak fairness of the abstract tick.
- `Dispatcher.tla` models `write_message`. Each event name has its reads in source order. The reads that matter are modelled:
  - `make_unique_ip`, which reads and updates the ip map;
  - the `memcpy` into fixed arrays (comm after `unique_prefix_`, the cgroup name, IPv6 addresses, vpc ids);
  - the undefined behaviour of a missing key;
  - the `type_error` of a wrong type.

  Other reads are plain conversions and appear as `Plain`. `NextRecord` is `next()` with the wrap; `Reset` is `reset()`. The writer calls of each full cycle are recorded in `cycles`.

  `WriteMessage` is a closed form of the handler. The first `n` reads succeed, and the handler then returns or read `n + 1` throws (`Ends`). `make_unique_ip` draws `f` for the addresses it has not met. Each read passes what `ArgsOf` gives with the map after the record (`WithDraws(map, f)`). This is the same thing as threading the map through the reads one by one: `make_unique_ip` only ever adds an entry for an address it has not met and returns a stored replacement unchanged, so an address read twice gets the same replacement either way, and the map after the reads is the map before plus the new draws. Stating it without recursion is what lets the provers reason about it.

  The constant assumption `IpsAssumption` says that `Ips` holds every well-typed address field of the recording.
- `CgroupRename.tla` holds the cgroup-name substitution of `cgroup_create` as pure operators over character sequences: `Head6` (`substr(0, 6)`), `Find`, `Replace` (`std::string::replace`, with its count clamped), `RenameId` and `AnonymizeCgroupName`. It also holds the spec's reference, `SpecRenameId`, which replaces only as many characters as the needle has.
- `SimReducer.tla` models `sim-reducer`. Each thread step is one action: `Setup` (dimension loading and generator construction), `InstallHandlers`, `SpawnGenerator`, `SpawnSignalThread`, `Join`, a generator's `Run`, `Tick` (`on_timer` with the whole of `generate_random_metrics`) and `StopAsyncCb`. The signal side is `Signal`, `OnTerminate` and `SignalThreadStop`. Flows are abstracted to their number.
- `RandomMetrics.tla` models `random_number` and the chained draws of `random_dns_metrics` and `random_http_metrics` as sets of outcomes. `Fault` stands for a failed `max > min` assertion. The variable `last` and the actions `WriteDns` and `WriteHttp` model the per-flow loop of `generate_random_metrics`. The tcp and udp metrics and the HTTP code counts are independent draws with fixed bounds, so they are left out.
- `MCReplaySupervisor.tla` instantiates the model for TLC. It uses a 6-record recording whose timestamps go both up and down.
- `MCDispatcher.tla`, `MCCgroupRename.tla`, `MCSimReducer.tla` and `MCRandomMetrics.tla` instantiate the other models.
- `ReplaySupervisorProofs.tla`, `ReplayRefinementProofs.tla`, `RandomMetricsProofs.tla`, `SimReducerProofs.tla`, `CgroupRenameProofs.tla` and `DispatcherProofs.tla` hold the TLAPS proofs.

## Runs

The cfgs set `CHECK_DEADLOCK FALSE` because the process really does stop: it
exits on a signal or crashes on a bad record.

| Run | Recording | `on_closed` | Checks | Result |
|---|---|---|---|---|
| `session` | Ok, TypeError, MissingField, Unknown, Ok, Ok | never | `TypeOK`, `SessionPrefix`, `ReplayProgress`, `ImplementsAbstract`, `PlaybackStoppedUntilReconnection` | passes |
| `closing` | same | may end a session | `ReplayProgress` | passes |
| `closed_gap` | same | may end a session | `SessionPrefix` | violated |
| `aborts_missing` | record 3 misses a field | never | `ReplayNeverAborts` | violated |
| `aborts_badstamp` | record 4 has a bad timestamp | never | `ReplayNeverAborts` | violated |

The properties:

- `SessionPrefix`: within a session, the peer receiving record i implies that it has received every earlier record the dispatcher handles. This is what spec §3 and §4.5 promise with "reset the cursor whenever the session is lost".
- `PlaybackStoppedUntilReconnection` (an action property): in a live process, no step leaves the reader past a record while the channel is not connected. The reader may only stay or be rewound. This is the promise in `on_error`'s log line, "stopping playback until reconnection". It is what keeps a tick armed before the session was lost from replaying into a dead channel.
- `ReplayProgress`: while a session stays up, the cursor comes back to every record again and again.
- `ReplayNeverAborts`: a malformed record never takes the process down (spec §4.3, §7, §8).

What the runs show:

- **`session`** holds when sessions end through `on_error`.
- **`closed_gap`** shows that a session ended by `on_closed` leaves replay running and the reader mid-recording. The next session then starts with a gap. The trace is: connect, `on_connected` replays record 1, a tick at record 2 (a `TypeError`, skipped), close, reconnect, and `on_connected` at cursor 3, so the new session begins with record 3.
- **The two `aborts_` runs** show the process crashing on per-record errors, which the spec says are recovered locally.

The other models have these runs:

| Run | Module | Checks | Result |
|---|---|---|---|
| `dispatch` | `MCDispatcher` | `TypeOK`, `IdempotentRestart` | passes |
| `uninit_comm` | `MCDispatcher` | `IdempotentRestart` with a 3-character comm | violated |
| `cgroup_rename` | `MCCgroupRename` | `NameLengthKept` for ids as long as the prefix | passes |
| `short_id` | `MCCgroupRename` | `CgroupRenameFaithful` with 1-character ids | violated |
| `simreducer` | `MCSimReducer` | `TypeOK`, `Termination`, `KeepsGenerating` | passes |
| `interval_zero` | `MCSimReducer` | `KeepsGenerating` with `--interval 0` | violated |
| `metrics` | `MCRandomMetrics` | `MetricsConsistent` | passes |

What these properties and runs show:

- **`ImplementsAbstract`**: the simulator's loop implements the supervisor of spec §4.5. Every session begins at the first record, failures lead to Backoff with the cursor rewound, and the scheduler keeps ticking while Connected. The `closed_gap` scenario breaks it too, which is why it is checked only where sessions end through `on_error`.
- **`IdempotentRestart`** (spec §8): every full replay cycle, including those after a `reset()` at any record, makes the same writer calls as the first. It holds with full arrays. This is because `make_unique_ip` caches, and because the ip map keeps an entry stored before a later field of the same record failed (the nat_remapping with a wrong-typed dst). It fails in `uninit_comm`: a comm shorter than 10 characters leaves stack bytes in `comm[16]`.
- **`CgroupRenameFaithful`** compares the name that each `cgroup_create` call writes with spec §4.2, which replaces the occurrence of the id (or of its short prefix) by the session prefix. Each state of `CgroupRename` is the session prefix drawn by the constructor and the last call. The calls range over every name of up to 3 characters, valid or not, and every pod and container id of 1 character. The alphabet has 2 letters and `Cut = 2` stands for 6. `short_id` shows that an id shorter than the prefix makes `replace` overwrite characters after the id's prefix, or append to the name. Only `short_id` checks it: for ids as long as the prefix the code and the reference replace the same characters.
- **`NameLengthKept`** (in `cgroup_rename`): every name `cgroup_create` writes is as long as the recorded name. It holds because `find` reports a match that lies wholly inside the name and `replace` then overwrites as many characters as `unique_prefix_` has, for every name of up to 4 characters and every pair of ids as long as the prefix, matching anywhere or nowhere. Starting the replacement one character late, or a needle shorter than the prefix, makes `replace` run past the end and lengthen the name.
- **`Termination`**: a SIGINT or SIGTERM that reaches the installed handler always ends `sim-reducer`. It holds whether each generator thread has not yet started its loop, is ticking, or has already stopped.
- **`KeepsGenerating`**: a generator nobody stops keeps ticking. It fails in `interval_zero`, because `uv_timer_start` gets repeat 0.
- **`MetricsConsistent`**: every DNS and HTTP metric that the loop of `generate_random_metrics` writes was drawn from non-empty `random_number` ranges. Its responses plus timeouts never exceed its requests, and its total time is never below its processing time.

Each is listed under `findings` in `PROJECT.json`.

**Bounds.** Six records are enough for these cases to occur:

- a skip (`TypeError`, `Unknown`), which makes "handled" differ from "index less than i";
- an undefined-behaviour record;
- a wrap-around;
- timestamps going backwards (2 after 5), which exercises the absolute difference.

The environment may fail, close and reconnect any number of times. The state
space is finite without a counter bound, because `seen` is a subset and the
cursor an index.

The `dispatch` recording has 5 records. It includes two IPv4 addresses seen twice, a record whose second address has the wrong type after the first was mapped, a full comm and an unknown name. Two replacement values and two garbage values are enough to tell a stale or fresh draw apart. Three cycles, with resets at any record, let a later cycle differ from the first after a reset. `sim-reducer` uses two generators, 2 flows and all three kinds of dimension file. Signals arrive at any point. Two threads are enough to interleave one generator's stop with the other's tick. The time bounds of `RandomMetrics` are scaled to 1..6. The request bounds (1..10) are those of the code.

**Fairness.** Only `WF_vars(Callback)` is assumed, because libuv runs an
armed timer once its delay has passed. The loop is never blocked for good,
since the sleep in `on_error` is bounded. The channel and the signal get no
fairness because they are the environment. `ReplayProgress` is therefore
stated conditionally, for as long as the session stays up. In `SimReducer`,
every thread action is weakly fair: the OS schedules each thread, and each
libuv loop serves its armed timer and its pending async handles. Signals get
no fairness, so `Termination` is stated from the moment a signal is pending.
`Dispatcher` has no fairness because it checks safety only.

## Proofs

In `ReplaySupervisorProofs.tla`, TLAPS proves two theorems for every `N >= 2`, every record kind and every
timestamp:

- **`TypeCorrect`**: `Spec => []TypeOK`. It rests on the lemmas `SuccType`, `DeferMsType`, `InitType` and `TypeStep`.
- **`SessionPrefixInvariant`**: under `~CloseWithoutError`, `Spec => []SessionPrefix`. `SessionPrefix` alone is not inductive. It is strengthened to `IInv`, which says four things while the process runs:
  1. `stopped` holds exactly when the channel is not connected. Only `on_error` ends a session, and it sets `stopped_`.
  2. A stopped reader is at record 1, because of `reset()`.
  3. During a session, `SessionCover` holds: the peer has every handled record before the cursor and nothing at or after it, or the replay has wrapped and the peer has every handled record.
  4. `TypeOK` and `SessionPrefix` hold.

  `ConnectCover` shows that `on_connected` from record 1 establishes `SessionCover`. `TickCover` shows that a tick preserves it, including at the wrap. `CoverPrefix` derives `SessionPrefix` from it. `IInvStep` has one case per action. The assumption `~CloseWithoutError` is needed, as `closed_gap` shows.

**`RefinementSafety`** (`ReplayRefinementProofs.tla`) states: under `~CloseWithoutError`, `Spec => A!AInit /\ [][A!ANext]_A!avars`. It reuses `IInv`. A session can start only from record 1 because `IInv` says a stopped reader is at record 1. The lemma `DispatchStep` shows that what `next()` leaves the peer with is an abstract dispatch. `RefinementStep` maps each action to `Initiate`, `Established`, `Tick`, `Fail`, `Retry`, `Stop` or a stutter.

**`MetricsInvariant`** (`RandomMetricsProofs.tla`) proves `MSpec => []MetricsConsistent` for all time bounds. The inductive invariant `MInv` says that `last` is a metric that `random_dns_metrics` or `random_http_metrics` can return. `MInvConsistent` derives the property from it through two theorems. `DnsCountsTheorem` covers the chained counter draws and `DurationsTheorem` covers the time draws; both rest on the lemma `DrawRange`, which gives the range of a `random_number` draw.

**`TypeCorrect`** (`SimReducerProofs.tla`) holds for every set of generators, every `num_flows` and every interval.
- The lemma `TickFlows` shows that a tick's refill-and-erase keeps a deque within `0 .. num_flows`.

**`NameLengthKeptInvariant`** (`CgroupRenameProofs.tla`) proves `RSpec => []NameLengthKept` for every alphabet, every prefix length, every name length, and every set of id lengths none of which is shorter than the prefix.
- That hypothesis is stated on the theorem, not assumed of the constants: pod and container ids are longer than six characters, and a shorter one can lengthen the name.
- `HeadLen` shows that `substr(0, 6)` of such an id is as long as `unique_prefix_`.
- `FindInside` shows that the position `find` reports, when there is one, starts a match that ends inside the name. `Find` picks the least matching position, and that it exists comes from `WFMin` with `<` well founded on `Nat` (`NatLessThanWellFounded`).
- `ReplaceLen` shows that such a replace keeps the length, and `RenameLen` applies it to one substitution; the pod's substitution leaves a name of the same length for the container's.
- Each state is a call record drawn by `IsCall`, which is its own inductive invariant.

**`PlaybackStoppedTheorem`** (`ReplaySupervisorProofs.tla`) proves the action property `PlaybackStoppedUntilReconnection` under `~CloseWithoutError`.
- It uses `IInv` from `SessionPrefixInvariant`.
- A tick replays only with `stopped_` clear, and while the process runs `stopped_` is clear only when the channel is connected.
- `on_error` rewinds the reader to record 1.

**`TypeCorrect`** and **`IdempotentRestartInvariant`** (`DispatcherProofs.tla`) hold for every recording, every set of replacement and garbage values, and every number of cycles.
- `HandlersType` shows that every handler is a finite list of reads. It is proved one handler at a time.
- `WriteMessageCases` unfolds an outcome of `WriteMessage` into its `n`, `f`, end and arguments.
- `OutcomeMap` shows, with `IpsAssumption`, that the ip map stays a map from original addresses to replacements. This gives `TypeCorrect`, whose inductive invariant `TInv` adds that `cycles` is a sequence.
- `IdempotentRestartInvariant` assumes `CleanRecording`: every field a handler reads is present, and every string copied into an array fills it. The recording of `dispatch` satisfies it. Both halves are needed:
  - `uninit_comm` breaks the property with a short comm;
  - a missing key is undefined behaviour and may pass garbage.

  Wrong types are allowed, and so are skipped records that map an address before they fail.
- Under `CleanRecording`, `CleanOutcome` shows what a record does:
  - it never aborts;
  - it is written exactly when every read succeeds (`Written`);
  - the map only grows (`GrowsTo`);
  - its call is `CallOf(rec, map after the record)`, and the map then covers every address the record replaces.
- `CallStable` and `CycleStable` show that such a call does not change as the map grows further.
- The inductive invariant `DInv` says:
  - the calls of the cycle in progress are `CallOf` of the current map;
  - every completed cycle equals `FullCycle` of the current map;
  - the map covers every record replayed so far.

  `DInvStep` has one case per action. The wrap case shows that the cycle just completed is `FullCycle` of the new map. `IdempotentRestart` follows because every cycle equals the same `FullCycle`.

These stay with TLC only:

- **Liveness.** `ReplayProgress`, `Termination`, `KeepsGenerating` and the fairness part of `ImplementsAbstract` are liveness properties, and TLAPS does not handle liveness under fairness or `ENABLED`.
- **The violation runs.** Those properties are false, as the runs show.

## Not modelled

- **Where the ids sit in the cgroup name.** `CGroupParser` finds the pod and container ids, and it is not under `src/`. `cgroup_create` replaces the first match of an id's first six characters, which need not be where the parser found the id. Without the parser's positions the model cannot tell such an earlier match from the id itself, so that case is listed as a hazard with no property.
- **Replay timing.** The delays are truncated to milliseconds and use the absolute difference of timestamps. `ReplaySupervisor` computes them (`DeferMs`), but no property is about them. The code comment accepts the truncation, and spec §9 keeps the absolute difference as a known approximation. Both change delays only, not which records are sent or in what order.
- **The composition** of `Dispatcher` with `ReplaySupervisor`. `ReplaySupervisor` abstracts each record to the outcome kind that `Dispatcher` computes in detail.
- **`CGroupParser`** is not under `src/`, so every id is considered.
- **The seed.** Two simulators seeded by `srand(time)` in the same second would share prefixes and replacements. Two processes are outside one model.
- **The rest of `sim-reducer`.** `random_choice`, `random_az` and the tcp and udp draws pick independent values from fixed tables. The publisher and the formatter are I/O.
- **Out of scope.** Flush and buffering of the writer, time, and the sleep inside `on_error` are abstracted away. A write counts as delivered in order when it is made.
