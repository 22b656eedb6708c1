# relay: a TLA+ verification project

`relay` (`src/relay/`) is an asyncio reverse proxy in front of GPU servers that
are powered on when a request needs them and powered off when nobody does. It
routes a request to an *endpoint*, admits it through the endpoint's queue, wakes
the endpoint's *server* through its BMC, forwards the request, and shuts the
server down again on a schedule or after an idle period. All of it runs on one
event loop: two coroutines interleave only at an `await`, which is where the
models split the code into steps.

## 1. The system

| Part | State | Operations | Talks to |
|---|---|---|---|
| Endpoint queue (`queue.py`) | deque, `sessions`, `spots`, `inflight_total`; per `Session`: inflight, waiting, spot, idle and status ages | `get_or_create_session`, `enqueue`, `_try_promote`, `release`, `abandon`, `release_session`, `tick` | called by admission, by the manager, by the monitor |
| Admission (`endpoints.py`, `transport/http.py`) | where each request's coroutine is; `active_forwards` | `_admit_queued`, `admit_unqueued`, `wait_until_ready`, `forward_request` | queue, server (`on_routed_traffic`, `maybe_power_on`), store |
| Queue manager and readiness loop (`endpoints.py`) | the `now` of a pass, `ready` | `_queue_manager_tick` (poll statuses, share spots, tick, wake, promote), `check_readiness` | queue, pollers, server |
| WebSocket admission and tunnel (`endpoints.py`, `transport/ws.py`) | the session's spot and `inflight`; which connections are open or polling for a spot | `admit_ws`, `_hold_ws_spot`, `_release_ws_spot`, tunnel | queue |
| Client status polling (`clients.py`) | directory, parent and poll-time caches, shared by endpoints | `due`, the three fetches, `resolve_shared_spot`, `forget` | HTTP of the client, the manager |
| Session identity (`clients.py`, `endpoints.py`) | none | `detect_client`, `resolve_session_id`, `resolve_session_id_ws` | admission |
| Server runtime (`servers.py`) | power state, transient state, `owned`, `shutdown_override`, idle and wake stamps, cron state | `power_on`, `power_off`, `maybe_power_on`, `on_routed_traffic`, the sync loop, the shutdown engine, `restore` | power backend, store, the activity of its endpoints |
| Power backends (`power/`) | a BMC session | read power state, reset on, graceful shutdown | BMC, which may be slow, unreadable, or act without an answer |
| Scheduler (`scheduler.py`) | none | last and next cron fire | server runtime |
| Store (`store.py`, `db.py`) | `_write_lock`, request buffer, degraded flag, counters; five tables | mirrors, history rows, `enqueue_request`, `flush_requests`, `prune`, `reconcile_servers` | written by everybody |
| Application and monitor API (`main.py`, `monitor.py`) | the registry of parts | startup, shutdown, routing, `/monitor/release`, `/monitor/shutdown`, `/monitor/power` | all |
| Configuration (`config.py`) | none at run time | merge env files, interpolate, validate | startup |
| Migrations | none | Alembic upgrade | before the store opens |

What is hard here: a coroutine that looks something up, awaits, and acts on what
it saw (admission, both shutdown rules); a request promoted in the instant its
client leaves; a manager that works with a `now` older than the state it
judges; sampled clocks; one poller and one
poll stamp shared by managers that do not know of each other; two paths (HTTP and
WebSocket) that must decide alike in code of their own; memory that is mirrored later by a write that may fail or
die with the process; a BMC that acts and does not answer; loops that are the
only ones to get something done. `PROJECT.json` lists each such place under
`hazards`, with the property that watches it.

## 2. Modules

| Module | Models | Proofs |
|---|---|---|
| `EndpointQueue` | one endpoint's queue, the queued admission path, the manager pass, operator releases | `EndpointQueueProofs`, `SessionProofs` |
| `SlotPool` | abstract: what the queue promises, a bounded pool of spots and requests that wait, run and end | used by `EndpointQueueProofs` |
| `Workload` | abstract: what a server sees of its endpoints' requests (whether any waits, whether any runs, readiness); the steps `ServerRuntime` takes for them, implemented by `EndpointQueue` | used by `EndpointQueueProofs`, `ServerRuntimeProofs`, `ServerClockProofs` |
| `WsAdmission` | extends `EndpointQueue` with the WebSocket connections of the same sessions | `WsAdmissionProofs` |
| `ServerRuntime` | one server: machine, BMC calls, ownership, wake, sync loop, shutdown engine, store mirror, crash and restart, the requests of its endpoints as far as it sees them | `ServerRuntimeProofs`, `ServerClockProofs` |
| `Store` | the lock, request buffer and flusher, retention, degraded mode, reconciliation, shutdown | `StoreProofs` |
| `Config` | environment, validation, the tables of `RelayApp.setup`, routing; operators only | in `ApplicationProofs` |
| `Clients` | session identity; operators only | in `ApplicationProofs` |
| `StatusPolling` | one client machine's poller, shared by the managers of several endpoints | `PollingProofs` |
| `Application` | composes `Config`, `Clients`, `StatusPolling` and `Store`: a process loads a configuration, refuses it or starts, and then polls its clients or writes its store | `ApplicationProofs` |
| `MC...` | TLC instances | |

### EndpointQueue

A request moves through `stage`: `new`, `admitting` (it has its `Session` and
awaits `store.upsert_session`), `waiting` (in the deque), `inflight`, `done`. A
`Session` object is named by the request that created it, so two objects for one
key can be told apart. `Admit`, `Enqueue`, `GiveUp`, `Finish` are the pieces of
`_admit_queued` and `forward_request` between awaits; `Promote` is one iteration
of `_try_promote`; the manager goes through `Wake`, `ResolveShared`, `Report`,
`TickStart`, `TickStep`, `TickEnd` and `ManagerPromote`. The two loops without an
await (`_try_promote`, `tick`) are several steps, but `promoting` and `mgr =
"tick"` disable everything else until they end, so they are atomic as in the code.
Timestamps are ages in seconds, saturated at `Horizon`, beyond which no
comparison of the code can tell them apart.

Settings are constants: `Cap` is `max_inflight_per_session` (-1 unlimited, 0
serialised), `Known` the sessions of clients with a status API, `Ancestors` their
parent chains, `Reports` what a poll can say.

`SlotPool` is the queue without deque, counters, ages, promotion loop and manager.
`EndpointQueue` implements it under the mapping at its end (`Pool`): `admitting` and
`waiting` requests wait, `holders` are the keys of `spots`, `free` is `MaxSpots` minus
their number. A pass of `_try_promote` or `tick` is several pool steps.

`Workload` is the queue as its server sees it: `queued`, an entry waits in the deque, and
`running`, a spot is held. It is the interface between the two models. `EndpointQueue`
implements it (`Load`), and `Enqueue`, `WorkStarts` and `WorkEnds` of `ServerRuntime` are its
`Arrive`, `Start` and `End`. What it promises is that nothing comes to run on an endpoint
that is not ready. With connections the queue does not implement it: `_hold_ws_spot` looks
at no readiness and may take a spot after the endpoint has gone down.

### WsAdmission

A connection takes its number from the same counter as a request, because both find or
create the same `Session` objects. It never enters the deque, and ends in
a stage of its own, `closed`. `WsAdmit` is `admit_ws` on
a ready endpoint with the first pass through `_hold_ws_spot` (no await between them),
`WsHold` a later pass, `WsGiveUp` a disconnect or a timeout before there is a spot,
`WsClose` the one call of `_release_ws_spot` when the tunnel ends, which runs
`_try_promote` if it popped a spot. The steps of `EndpointQueue` are taken unchanged
beside these, and the stages of a connection (`polling`, `open`, `closed`) are among the
`Stages` of that module, so that its invariants and their proofs speak of both.

### ServerRuntime

`pc[t]` is the await task `t` is in and `then[t]` where it goes on. Tasks are the
sync loop, the shutdown engine, the manager (which also stands for the readiness
loop), and `Callers`: requests and monitor posts. A power action is an issuing
step (`Wake`, `MonitorPower`, `IssueOff`), the BMC's outcome (`PowerOnAccepted`,
`PowerOnFailed`, ...), and a store write that queues for the lock (`Save`) and ends
in `WriteDone`. `Faults` says what may go wrong: the power button, a lost answer,
an unreadable BMC, a dropped write, a crash. The endpoints' requests are
`queued` (a deque is not empty: what the manager's wake rule looks at, whether or not spots
are held beside it) and `running` (a spot is held or a request is being forwarded);
`has_activity` is either. They move by the steps of `Workload`. The manager looks at the
deque, probes and issues the power-on in one step. History
variables (`claim`, `quiet`, `wakeAge`, `dropped`) only record what happened.

### Store

A record is its number in order of completion, the requests table the set of those that
have a row. A write is a job in the FIFO queue
of `_write_lock`; it commits if the disk is `ok`, fails if it is `full`, and takes
note in the same step. `TakeBatch` is the buffer swap of `flush_requests`. `Stop`
cancels all tasks wherever they are, as `RelayApp.shutdown` does; a transaction
whose COMMIT is being executed at that moment may come through or not. `hasRow` is
whether the server has a row: `set_server_runtime` is an UPDATE.

### StatusPolling

Part 1 of `_queue_manager_tick`, split at each fetch: `PassPoll` finds the machine due
and stamps `last_poll`, `Resolve` gets one session's directory and parent, from the cache
or by a fetch that may fail for one session alone, and the spot it may share
(`SharedSpot`: the closest tracked ancestor, or the spot that one runs on itself if it holds
none, `clients.py:310-314`; which sessions hold spots is the queue's, so any may), `FetchMap` and `FetchPending` are the two fetches of a directory, and
`PollDone` forgets the cache entries of sessions the pass did not find. `mine` says for
which sessions the pass still holds the tracked `Session` object: a session dropped and
found again during a pass is a new object, which hears nothing from it. `tick` may drop
any session here, `Release` any at any moment: more than the queue allows, so what holds
here holds there. A poller keeps nothing that two machines share: one is modelled.

### Config, Clients and Application

A configuration file is its server names and endpoint entries, with `Absent` and `Wrong`
for a field that is missing or that its type or range check rejects. `Accepted` has the
rules that relate entries to each other; the tables and `Route` are functions of an
accepted file. `Interpolate` is a reference in a string: strings are sequences of pieces,
one of which is the `${` of something that is no reference and must not be left in the
result. Headers, query and body are functions from names; the HTTP and the WebSocket
lookup are two operators, as they are two functions in the code. `Application` goes from
`start` to `configured` or `exited` (`LoadConfig`), and from there (`Startup`) to `polling`,
where it takes the steps of `StatusPolling`, if the queued endpoints are `Endpoints`, or to
`storing`, where it takes those of `Store`, if there are none. The two share no state, so
their interleaving would add nothing.

## 3. Runs

Passing runs:

| Run | Instance | What it shows |
|---|---|---|
| `queue_slots` | 2 symmetric sessions, 3 requests, 1 spot, cap 1 | counters equal the requests really waiting and in flight (`SlotAccounting`), flag, spot and session agree (`SpotHolder`), no spot is expired under a running request (`RunnerKeepsSpot`), the cap holds (`SessionCap`), each session is served in order (`SessionOrder`), whatever makes room for an entry also promotes it (`NoLostWakeup`), and the queue implements `SlotPool` (`PoolImplemented`) and `Workload` (`WorkloadImplemented`) |
| `queue_mixed` | HTTP requests and WebSockets of a session without and a sub-agent with a status API; atomic mode, immediate release, an operator | never more spots than `max_spots`, never two requests in flight, exact counts in every mix, the only connection of a session keeps its spot while requests come and go on it (`OpenKeepsSpot`), tick takes a spot only after the cooldown or on a report that justifies it (`CooldownHonoured`); connections, shared spots and atomic mode lose no wake-up either (`NoLostWakeup`) |
| `queue_live` | 2 sessions, 1 spot, serialised | everyone queued is served once the endpoint stays ready; spots come back |
| `server_engine` | cron and idle rule, timeout 3 s, period 1 s, passes of up to 1 s; power-offs and the auto-off switch from the monitor | power-ons for requests are more than the cooldown apart, whoever issues them; the sampled idle clock cuts the timeout short by no more than its sampling and lag (`IdleOffEarned`, with `Slack`); a deferred scheduled off is issued or given up by the first idle pass (`DeferralEnds`); the engine powers off an owned server only, or one already told to stop |
| `server_live` | queued, running and held requests; crashes, lost answers, an operator who switches off; a failing but not hopeless BMC | what the store will hold of the ownership is what memory holds (`MirrorExact`); an idle owned server goes off in the end; a request, queued (behind held spots too) or held, does not wait for ever on a machine that is off, even one shut down under it |
| `application` | one endpoint entry, each field right, wrong or missing, alone or behind a good one; every request over six header, query and body names; then either one endpoint and two sessions that are parents of each other, with outages, or a store with a buffer of 2, 3 requests, flusher, retention and another writer | a path goes to the one longest prefix, requests and WebSockets alike; the runtime that is routed to is the one its server asks for activity; a reference has the documented value or is refused (`EnvPrecedence`); no session goes under the name of a client that its headers do not identify (`NotMisattributed`). While the machine answers, no tracked session is without a report for longer than the grace; if both fetches answer, the report is true of a session that did not change during the pass; nobody who holds no spot is given its own key to share (`CycleSafe`). Until the shutdown every completed request is staged, being written, stored, pruned or counted as dropped, and never counted twice; a step that takes records out of memory without a row counts exactly these, and rows go only past their retention (`NoSilentLoss`); shedding costs the oldest; retention alone ends degraded mode |

Runs that refute what the repository says of itself:

| Run | Statement | What happens |
|---|---|---|
| `queue_orphan` | "assert set(q.spots) <= set(q.sessions)" (`tests/unit/test_queue.py:55`) | a manager tick during the `upsert_session` await forgets the session that has just been found; the request then takes a spot under a key no tracked session has, and tick never surrenders it |
| `server_busy_off` | "P9: never take the server down while it has work" (`servers.py:416`) | activity is checked before the BMC reading is awaited and not after it; a request that comes in between is cut off |
| `server_manual_on` | "A server turned on manually and never used through the proxy is never shut down" (`docs/relay/parity.md:21`) | `owned` survives an external power-off, so the next, manual, on-period is taken for the proxy's own |
| `poll_shared` | "while the status API is unreachable" (C4, `docs/relay/parity.md`), the case the grace is for | two endpoints share the machine's `last_poll`: one finds it due every time and polls its own sessions only; the other's session counts as unreachable although the machine answers |
| `poll_waiting` | "a failed pending poll never clears the flag" (C3, `docs/relay/parity.md:63`) | a session that waits for its user is busy in the status map; if the map answers and the pending poll fails, `waiting` is overwritten by `busy` |
| `store_shutdown` | "no completed request is lost on shutdown" (`main.py:145`) | the shutdown cancels the flush task between the swap of the buffer and its commit; the batch is neither written nor counted, and the drain does not find it |

### Bounds, and why they suffice

* Queue: three requests of two sessions are the least with which a session has one
  request running, one waiting, and another session competes for the spot; a spot
  count of one makes every conflict a conflict. The proofs below remove the bound
  for the invariants they cover.
* Ages: `BusyWindow`, `Expiry` and `Grace` of 0..2 s keep all orders of the
  deadlines; `MaxLag` (1) lets a pass be older than what it judges. `QueueSlots` uses
  symmetry: its sessions are interchangeable and every property of the run treats them
  alike.
* Mixed: two numbers are a connection beside a request or another connection, of one
  session or of two. `b` is a sub-agent of `a` and has reports, `a` has none, so that
  shared spots, the busy window and the reports all play.
* Server: one caller besides the three loops. Callers share no state but the
  runtime's, and the loops already compete with it at every await. `MaxPass` bounds the
  time a shutdown pass spends in awaits, `MaxLag` that of an admission; where they are 0
  the clocks play no part in the property. `server_engine` has a `MaxLag` of 0. The manual
  power-on and an unreadable BMC (`"operatorOn"`, `"unknown"`) are in the two refutations
  only; a dropped write, and the override switch as far as its mirror goes, are covered by
  the proof of `MirrorExact` alone: its run is about `owned`, through crashes, lost answers
  and manual power-offs. `EngineView` leaves out of the fingerprint the display state and
  the content of the store, which no step but a restart reads (the run has none), and counts
  `quiet` only as far as the two properties that read it can tell its values apart.
* Polling: both sessions are in one directory. With one endpoint, an `Interval` of 2 s and
  passes of up to 1 s, a `Grace` of 4 s is exactly what `KeptFresh` needs; 3 would fail. With
  two endpoints a grace of 12 s, in the same proportion to the interval as the code's 30 s to 5 s, is exceeded.
  `poll_waiting` needs one session and no grace.
* Application: two entries are enough for a clash of names, prefixes or catch-alls; an
  invalid entry is alone or the second. Symmetry exchanges the two sessions, each the
  other's parent; the run's only liveness property is about the store, which knows neither.
* Store: a buffer of two with three requests overflows while a batch is written.

### Fairness

`EndpointQueue`: the manager loop swallows exceptions and never ends, the event
loop runs whatever is runnable, the clock advances, and `forward_request` releases
on every outcome. Admission and completion are strongly fair, because a
synchronous section disables them for its duration. `EventuallyServed` and
`SpotsReclaimed` exclude behaviours in which a session was forgotten during
admission: that is what `queue_orphan` shows to break them.
`ServerRuntime`: the loops, store and admissions as above, and a BMC that accepts a
command it is given again and again; `wait_until_ready` polls until its deadline, so a
held request goes on trying to wake the machine. No readiness, operator or cron event is fair.
`Store` (in the application's `AppFairSpec`): the flush and retention loops run, SQLite
answers; the disk owes nothing.

## 4. Proofs

Every theorem holds for all values of the constants that the assumptions of its module
allow: any number of requests, sessions, spots, callers, writers or endpoints, any setting
and any length of time. Where a theorem needs more, its hypothesis says so, and the reason
is given here. All of it is checked by `tlapm` to the last leaf.

| Theorem | States |
|---|---|
| `EndpointQueueProofs`: `TypeCorrect`, `AccountingCorrect`, `SpotHolderCorrect`, `SpotsBoundedCorrect`, `AtomicCorrect` | `Spec =>` `[]TypeOK`, `[]SlotAccounting`, `[]SpotHolder`, `[]SpotsBounded`, `[]AtomicExclusion` |
| `EndpointQueueProofs`: `Implementation` | `Spec => PoolImplemented`: every behaviour of the queue is one of `SlotPool` |
| `EndpointQueueProofs`: `WorkloadImplementation` | `Spec => WorkloadImplemented`: what the server sees of the queue is a `Workload` |
| `SessionProofs`: `RunnersKeepSpots`, `SessionsWithinCap`, `SessionsInOrder`, `CooldownsHonoured`, `NoWakeupLost` | `Spec =>` `[]RunnerKeepsSpot`, `[]SessionCap`, `SessionOrder`, `CooldownHonoured`, `NoLostWakeup` |
| `WsAdmissionProofs`: `WsCountsExact`, `WsSpotsBounded`, `WsAtomic`, `OpenConnectionsKeepSpots`, `WsCooldowns`, `WsNoWakeupLost` | `WsSpec =>` `[]WsAccounting`, `[]SpotsBounded`, `[]AtomicExclusion`, `[]OpenKeepsSpot`, `CooldownHonoured`, `NoLostWakeup` |
| `ServerRuntimeProofs`: `ServerTyped`, `MirrorAlwaysExact`, `CooldownDeduplicates` | `Spec =>` `[]ServerTypeOK`, `[]MirrorExact`, `CooldownDedupe` |
| `ServerClockProofs`: `DeferralAlwaysEnds`, `IdleOffsAreEarned` | `"unqueued" \notin Routing => (Spec =>` `[]DeferralEnds`, `IdleOffEarned)` |
| `ServerClockProofs`: `OffsAreOwned` | without lost answers and the power button, `Spec => OffOnlyOwned` |
| `StoreProofs`: `StoreTyped`, `RequestsAlwaysAccounted`, `NewestAlwaysStaged`, `NothingLostInSilence` | `Spec =>` `[]StoreTypeOK`, `[]RequestsAccounted`, `[]NewestStaged`, `NoSilentLoss` |
| `PollingProofs`: `SharingGoesUp`, `SharingIsCycleSafe`, `ReportsAreTruthful` | `PollingSpec =>` `[]SharesAbove` (a shared spot is that of an ancestor), `[]CycleSafe`, `ReportTruthful` |
| `PollingProofs`: `OneEndpointKeptFresh` | one endpoint, `Grace >= FirstDue + 2 * MaxPass`: `PollingSpec => []KeptFresh` |
| `ApplicationProofs`: `RoutingIsLongestMatch`, `WebSocketsMirrorHttp`, `EachEntryOneRuntime`, `SessionsAttributed`, `EnvironmentPrecedence` | `AppSpec =>` `[]RoutedToLongest`, `[]WsMirrorsHttp`, `[]OneRuntimeEach`, `[]NotMisattributed`, `[]EnvPrecedence` |

### The queue

`Invariance` is `Spec => []IInv`, where `IInv` is the conjunction of `TypeOK`, `Wiring`,
`SlotAccounting`, `SpotsBounded` and `AtomicExclusion`. None of them is inductive alone.
That `release` subtracts from a positive counter follows from the accounting; that the
accounting survives a completion needs `Wiring` (requests and `Session` objects refer only
to what has arrived, with the same key); that promotion in atomic mode finds nobody running
needs the accounting of `inflight_total`. There is one step per action and one per
conjunct the action can disturb; the lemmas are about the sets of requests in a stage and
their cardinalities. `SpotHolder` is proved beside `IInv`, not inside it: it holds for HTTP
requests only, because a connection that closes may pop the spot another object of its key
has the flag of, while `IInv` holds with connections too.

`Implementation` takes both. Each step of the queue moves the phase of at most one request
and the set of spots by at most one key (`Phases`, `PhaseMove`), so `PoolStep` goes through
the actions and names the pool step of each, or shows that nothing of the pool changes. The
work is in a promotion (`PromoteStarts`): that the entry's request waits and has its key
needs `Wiring`, that a request without a spot of its own runs only while somebody holds one
comes from the guard of `Eligible`, and that a spot is free is
`Cardinality(spots) < MaxSpots`, where `SpotsFinite` makes `free` a number that goes down
by one.

The mapping to `Workload` is `queue # <<>>` and `spots # {}`. `WorkloadImplementation` needs
one fact more, `PromotesReady`: the loop of `_try_promote`
runs only while the endpoint is ready. No probe comes between its iterations, which are one
section without an await, so that a spot is never taken from nothing after the endpoint
went down.

`SessionProofs` adds `Countdown`: what tick has still to visit is tracked under its own key
(`TickTracked`, without which tick could surrender the spot of a key that has passed to
another object), only a session with parents shares a spot (`Unshared`), and an idle
countdown began at most one pass's lag before the last request (`IdleAges`).
`RunnerKeepsSpot` then follows because tick sees the request in `inflight`, and
`SessionCap` because a session without its spot has nothing in flight. `SessionsInOrder`
needs that two entries of one session are eligible together.

`NoWakeupLost` is about a queue in which an entry may run and no promotion loop is under way
(`Stalled`). Who may run depends on the session's flags and counts, on the spots and on what
runs at all. `AdmissionSame` says which of these a step must leave alone for nobody to
become eligible (`StalledStep` goes through the actions); `PassEnds` is about the end of a
loop: it stops only when nothing is left to promote. The three cases it leaves to the
manager are the ones in which the code itself changes one of these without promoting.

`WsAdmissionProofs` takes all step lemmas of the two unchanged and adds the four steps of a
connection (`WsInv` is `IInv`, `Countdown` and `OpenKeepsSpot`). They have one shape
(`Moves`, `Around`): one number changes stage, one count moves with it, and the spots grow
by at most a free one. `OpenKeepsSpot` needs the hypothesis that the connection is the only
one of its key; the observation on two connections below is why. `WsNoWakeupLost` adds that
a spot popped at the end of a connection is offered to the queue (`WsStalledStep`).

### The server

`ServerInv` (`Flags`, `Ages`, `Control`, `Queued`, `Mirror`, `Stamped`) is inductive for
every routing and every set of faults. `MirrorExact` speaks of the row once all queued
writes are through. The invariant behind it (`Mirror`) says of each field that the last
queued write that names it, or the row if none does, has memory's value, and `Queued` that
a task has at most one write in the queue and waits for it.

`ServerClockProofs` is about the sampled clocks: `ClockInv` bounds, for every place the
shutdown pass can be in, the age of the idle clock and of a deferral against the time since
the last work (`quiet`). It is for servers with queued endpoints. An unqueued endpoint's
held request is no activity until it is forwarded (see the observations), so with
`"unqueued"` both statements are false. The proof gave the bound its present form:
`Slack` takes the longer of a sampling period and a pass, since a schedule pass longer than
the period delays the sample.

`OffsAreOwned` follows what `_can_power_off` saw across the await of the BMC reading
(`Asked`). A power-on whose answer is lost, or the power button, starts a machine that the
relay has just stopped, and given up, between the check and the off: with either fault
the statement is false, so the theorem excludes both.

### The store

`StoreInv` adds to the three statements the discipline of the lock (`Locking`: one write
per writer, nobody writes while the store is opened or closed, the drain writes alone) and
`Recorded`: no record is taken or written before its request has completed. That a flush
adds exactly as many rows as the batch has records needs `NewestStaged`, for a batch
without a gap has no duplicates and is newer than every row. `RequestsAccounted` is not
inductive across the shutdown: the invariant behind it (`Accounts`) counts the cancelled
records too, exactly, and there are none before the shutdown.

`NothingLostInSilence` takes the same facts for one step at a time, by identity: what is shed
is one record because a buffer without a gap has no duplicates, and what a failed or
cancelled flush loses is its whole batch because none of it has a row. It needs `Cutoffs`
beside `StoreInv`: a cutoff that waits for the lock is never past what has expired since.

### Polling and application

`SharingGoesUp` and `SharingIsCycleSafe` are about a walk along parents of any depth,
through cycles, whose outcome also depends on what the ancestor it finds shares, that is,
on earlier walks, and on spots that come and go. `SharesAbove`, an invariant, says that all
of them led upwards in the family. `CycleSafe` follows from the end of the walk (`WalkEnds`:
it does not come back to where it has been): the session's own key can only be handed back
to it as a spot in use, and the hypothesis is that it holds none. `WalkEnds` is induction
over data, which the library's induction rule cannot express to the provers; the proof
derives a first-order form of it (`SetInduction`, from the least-number principle) and
applies it to sets of numbers. `ReportsAreTruthful` needs that the map fetched earlier
in the pass is still true of the sessions that have not changed (`MapTrue`).
`OneEndpointKeptFresh` bounds the silence of a session by what is left until the next due
poll plus the age of the pass (`FreshInv`); with two endpoints the statement is false
(`poll_shared`).

`ApplicationProofs` is for every set of files and every list of providers, headers and body
fields. The routing theorems rest on what `Accepted` guarantees: distinct names, distinct
prefixes. `SessionsAttributed` relates a detection that looks at the User-Agent to a value
that is looked up without it, once for each of the two lookups: a client found by a gated
header has no header of its own, so the value is that header's, and a client found by its
own header is not given a gated one's. `EnvironmentPrecedence` assumes that `None` and the
error are none of the strings a variable may be set to (`NoStrings`, which the run
evaluates).

### Left to TLC

Liveness under fairness (`EventuallyServed`, `SpotsReclaimed`, `IdleReclaimed`,
`WakeHappens`, `Recovers`), which the prover does not reach, and the six refutations.
Every invariant and every action property that a passing run checks is stated by a theorem.
`Workload` is an interface, not a composition: how the awaits of queue and server
interleave in one process is not in either model.

## 5. Observations without a run of their own

* A spot released by hand under a running request leaves traffic in flight that
  `EndpointQueue.has_activity` does not see, although `servers.py:334` counts
  "in-flight traffic".
* `admit_unqueued` counts a request only after the wait for readiness, although its
  docstring (`endpoints.py:485-487`) says that a held request "is counted separately". A
  request held and served between two samples of the engine never restarts the idle clock;
  the machine may be powered off under it and is woken again (`WakeHappens`).
* A held WebSocket (`_wait_ws_ready`) never calls `_ensure_wake`: alone, it waits for a
  machine nobody wakes.
* The end of a connection that has no spot of its own promotes nobody
  (`_release_ws_spot` calls `_try_promote` only if it popped a spot), although it makes room
  under the cap of a session that runs on its ancestor's spot: its next entry waits for the
  manager's next pass. `NoLostWakeup` states the exception.
* Of two connections of a session the first to close pops the spot (`endpoints.py:634`),
  although D18 lets a connection hold it for its lifetime. Connections ignore FIFO, cap and
  atomic mode; tick may forget the session of one that is polling for a spot.
* C1 caches a directory until the session is gone, but a pass of another endpoint, which
  does not track the session, forgets it too; and the entries of a machine's last session
  stay for ever, because a machine without sessions is not polled.
* Parents are cached for tracked sessions only, so that the walk of `resolve_shared_spot`
  ends at the first ancestor the poller has not resolved, whatever `children.depth` says.
* A provider is detected by its headers, so a detected one always has a header value: the
  branch of `resolve_session_id_ws` that looks for its names in the query string is never
  taken, although its docstring has "white-glove first, then generic" for the query. A client
  that has its id in the query only is unknown, and without the generic names in its query is told apart by address
  and User-Agent only, so that its HTTP session, known by a body field, is another one.
* `main.py:69-70` says that a client without a status API is judged by the busy window
  only; the queue takes a known client without reports for idle at once.
* A manager pass over several unreachable directories lasts longer than the staleness limit
  of `/healthz`, which then answers 503 for a relay that is alive.
* `client_to_target` drops the frames that are still queued once the peer has
  disconnected.
* Configuration: prefixes match without regard to path segments (`/a` takes `/ab`);
  `per_session_requests` has no lower bound; `main` reads the file twice, host and port
  from the first reading and the rest from the second.
* A power-on whose answer is lost starts a machine that nobody owns until routed traffic
  adopts it: the idle rule leaves it alone.
* A crash between an accepted power-off and its mirror leaves `owned` set in the
  store (`servers.py:212-213`).
* `transient` is cleared only by a change of the coarse state: a power-on accepted by
  a machine that is already on shows `powering_on` for as long as it stays on.
* If `reconcile_servers` fails on a database without the server's row, every later
  `set_server_runtime` updates no row, also after the store has recovered.

## 6. Not modelled

Request and response bodies and the wire; WebSocket frames and close codes; the Redfish
protocol below "the command was executed or not, the answer came or not"; cron arithmetic,
which is croniter's; YAML, and the single-field type and range checks of the configuration,
which are one `Wrong` value here, with its clients and proxy sections; the monitor's page
and snapshot and the store's queries, which only read; migrations, which run before the
store opens.

## 7. What would come next

1. `Relay`: queue and server in one specification, `queued` and `running` replaced by the real queue and its
   connections; the first three observations above as runs.
2. Proofs that this composition implements `EndpointQueue` on the one side and
   `ServerRuntime` on the other. `Workload` is the first step: it fixes what the two may
   assume of each other.

## 8. Running

    tlc -workers 2 -config QueueSlots.cfg MCEndpointQueue      # also QueueLive, QueueOrphan
    tlc -workers 2 -config QueueMixed.cfg MCWsAdmission
    tlc -workers 2 -config ServerEngine.cfg MCServerRuntime    # also ServerLive,
                                                               # ServerBusyOff, ServerManualOn
    tlc -workers 2 -config Application.cfg MCApplication
    tlc -workers 2 -config PollShared.cfg MCStatusPolling      # also PollWaiting
    tlc -workers 2 -config StoreShutdown.cfg MCStore
    tlapm WsAdmissionProofs.tla     # likewise EndpointQueueProofs, SessionProofs,
                                    # ServerRuntimeProofs, ServerClockProofs, StoreProofs,
                                    # PollingProofs, ApplicationProofs
