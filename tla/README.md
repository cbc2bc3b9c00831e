# NeuroSyncOS: specifications, model checking and proofs

This directory holds TLA+ specifications of NeuroSyncOS (the Node.js server under
`src/src` and the parts of its browser views that hold state), configurations
that check them with TLC, and proofs checked with TLAPS. Paths below are relative
to the repository's root; `core/...` and `server/...` stand for
`src/src/core/...` and `src/src/server/...`.

## 1. The system

NeuroSyncOS is one Node.js process. Its main thread serves HTTP and WebSocket
requests, owns the writable SQLite connection ("BaseVault") and runs the
schedulers; worker threads run task plugins and memory reflection. Everything on
the main thread is interleaved at `await`s, timers and callbacks only. Browsers
show what routes return and post what the operator clicks, often much later.

| Component | State it keeps | Operations | What makes it hard | Module |
|---|---|---|---|---|
| CoreExec dispatcher (`core/coreexec/engine.ts`, `queue.ts`) | runs, task rows, leases, retry counts in SQLite; dispatch flags, resolvers, watchdog in memory | submit, trigger, pass, claim, end of an execution, retry, park, boot | lost wakeups, leases that run out under live executors, a worker cap that heat and crashes leave at 0, crashes | `CoreExec` |
| Write queue (`core/basevault/write-queue.ts`) | one client per thread, one channel per task, pending counts | begin, post, ack, end, deliver, apply, drain | tasks sharing a thread, drain before result, backpressure, a stalled main thread | `WriteQueue` |
| Task worker, gates, egress (`core/coreexec/worker.ts`, `permission-gate.ts`, `core/routeswitch/egress.ts`) | what one task has been permitted and has done | gate, plugin, fetch, redirect, shell, verify | settings that change between two gates, redirects, rows in another order than time | `Worker` |
| RouteSwitch (`core/routeswitch/engine.ts`) | budget, provider health, stop flag, setting caches | execute, council, stop | checks before awaits and charges after them, deadlines against late answers | `RouteSwitch` |
| Provider registry (`server/routes/llm.ts`) | rows, rules, instances, the primary | create, update, switch, delete, rules, boot | rows, instances and views that diverge, rules that outlive a provider | `Registry` |
| Provider adapters (`core/routeswitch/adapters`) | one call, cached catalogs | generate, retry, rotate, abort | timeouts and aborts between any two awaits | `Adapter` |
| Local model (`adapters/llama-cpp.ts`) | promises of model and contexts, one sequence | load, prompt, stream | first calls that race, overlapping streams | `Local` |
| Node sync (`core/basevault/network/transport.ts`) | event log, watermark, connections, handshakes | poll, offer, apply, handshake | lost and reordered deltas, restarts, concurrent updates | `NodeSync` |
| Sync consent (`sync-consent.ts`, routes of `server-main.ts`) | pending and approved peers, fingerprints, lockouts | discover, approve, reject, enter, rotate | overlapping dials, restarts, secrets that change | `Consent` |
| Database schema (`core/basevault/db.ts`) | tables, columns, version of the file | initDB, migrate, restore | crashes between statements, files of earlier releases, errors that are caught | `Schema` |
| Cerebro memory (`core/memory/cerebro`) | memories, vectors, quarantine, approvals | reflect, sweep, ingest, review, prune | decisions on stale reads, writes still in the queue | `Memory` |
| OKF (`core/okf`, `schema-drift-breaker.ts`) | files, nodes, edges, strikes | extract, index, sync, prune, trip | edits under an extraction, names shared by projects, partial failure | `Knowledge` |
| ScoutDaemon (`core/scoutdaemon`) | idle flags, the worker cap | heartbeat, check, yield, recover, stage | overlapping timer callbacks, restarts while hot | `Scout` |
| ScopeLogic (`core/scopelogic`, its router and view) | interviews, rounds, drafts | prompt, reset, toggle, show | several tabs, late answers, eviction | `Interview` |
| Review console (`PortGridDashboard.tsx`, `todos.ts`, `system.ts`) | queues of browsers, to-dos, proposals, the dial | load, approve, bulk, launch | clicks on stale screens, double clicks, cached thresholds | `Console` |
| Authentication (`server/auth`, `AuthGate.tsx`, `api.ts`) | credential, sessions, tickets, streams | setup, login, expiry, reconnect | check, await, write; retry loops | `Access` |
| Rate limiter (`server/perimeter.ts`) | a bounded map of windows | request, sweep, evict | the map at its limit | `Perimeter` |
| Terminals (`core/portgrid/terminal-session.ts`) | sessions, shells, peers, scans | attach, dispose, heartbeat, scan | whoever tears down first | `Terminals` |
| Shutdown (`server/shutdown.ts`) | drain flag, timer | signal, release, finish, force | teardown order, what nobody closes | `Shutdown` |
| Model selector, worktrees, conversions, memory context, other routes and views | none, or state of an external service | | see section 5 | |

The components meet in these places: routes, cron jobs and ScoutDaemon insert
runs that the dispatcher reads; the dispatcher gives a task a channel of the
write queue and records its result after the drain; a parked task leaves a
ticket that the to-do routes resolve; RouteSwitch is called by tasks that need
a model and calls adapters whose instances the registry keeps; sync applies rows
of runs and tasks from another node that consent has admitted; ScopeLogic stages
proposals that the console launches as runs; the shutdown waits for the sockets
of terminals and sync peers.

## 2. Modules

    DagExecution            what CoreExec promises, without its mechanism
    CoreExec                the dispatcher, its queue, its crashes
      CoreExecProperties      what must hold, and the refinement mapping
        CoreExecDivergences     what comments and docs say and the code does not do
          MCCoreExec              small instances
        CoreExecProofs          theorems
          CoreExecRefinement      it implements DagExecution
    WriteQueue              clients, channels, drain
      WriteQueueProperties
        MCWriteQueue            small instances
        WriteQueueProofs        theorems
    NodeSync                event log, watermark, sockets, handshake, offers, deltas
      NodeSyncProperties
        MCNodeSync              small instances
        NodeSyncProofs          theorems
    RouteSwitch             budget, Free Mode, fallback chain, council, provider health
      RouteSwitchProperties
        MCRouteSwitch           small instances
        RouteSwitchProofs       theorems
    Schema, Perimeter, Access, Console, Interview, Consent, Terminals <- Shutdown
      MCSurface               the services at the edges of the server, one at a time
      SurfaceProofs           theorems
    Memory, Knowledge, Worker, Scout
      ServiceProofs           theorems
    Registry, Adapter, Local <- Models
      ModelProofs             theorems
      MCMachinery             these and the four above, one at a time
    MCProgress              liveness of CoreExec, WriteQueue, Shutdown, Access, Scout
    MCExchange              liveness of RouteSwitch and NodeSync

Each component has a module with its state and one action per operation. The
four large ones have a module of properties beside it; the others end with
their properties. Beside some definitions stands a faulty form of it, commented
`Fault:` and used nowhere: it is the change of the code that the property named
in `PROJECT.json` detects. A property commented `Refuted` is what a comment or a
document promises and the code does not do (section 3.1).

### 2.1 CoreExec

*State.* `runStatus`, `recent`, `taskRun`, `taskStatus`, `expired`, `retryCount`
and the three sets of tickets are SQLite rows and survive `Crash`. `phase` is
where the dispatcher is: `isDispatching` is true unless it is `"idle"`, `queued`
is `dispatchQueued`, `timer` says that the watchdog is armed, `resolvers` is the
key set of `runResolvers`; `toVisit`, `slotsUsed`, `needSlots`, `sawClaims` are
the local variables of a pass. `cap` is the newest `max_workers` row, which survives a
crash. An execution is a pair of a node and the number
of its claim, so that a stale executor is told from the current one. `claims`,
`produced`, `orphans`, `spent` are history; nothing in the code's control reads
them except that `claims` names an execution.

*Steps.* A pass of `dispatchLoop` contains no `await` before its executions
start, so nothing interleaves with a visit to a run; it is still split into one
step per run (`Visit...`), because each run's outcome is a case of its own. The
end of an execution is a microtask and may run between the end of a pass and the
moment the loop of `triggerDispatch` is left; requests, timers and cron jobs are
macrotasks and need an idle dispatcher. `Crash` takes the process down at any
moment, also between the statements of a submission (`CrashWhileSubmitting`) and
of `parkTask` (`CrashWhileParking`); `Boot` is `resumeInProgressRuns`. Every visit
reads the cap again (`FreeSlots`, `getEnvironmentMaxWorkers`), and `CapMoves` is the
idle daemon, which sets it to 0 while the processor is hot and back to the cap of the
profile later. A process that ends while hot leaves the row at 0 (`CapComesBack`, section
3.1), and no task of the pool is claimed until an operator or another rule changes
that: `RunsSettle` therefore speaks of behaviours in which the cap is positive in the
end, and of those only.

*Abstractions.* The eligible nodes a pass claims are any subset of the right
size (the code takes the first ones). `Malformed` are layouts that the validator
passes and `DAGLayoutSchema` refuses. The breaker's `0.4` is `5 * failed > 2 *
total` over `recent`. Time is three nondeterministic steps: a lease runs out, the
breaker's window passes, the watchdog fires. A throw inside `dispatchLoop`
(creating a worktree may fail) is not modelled, nor is the content of results.

### 2.2 WriteQueue

*State.* For each task its `stage`, how many posts were accepted, what is on the
wire in each direction and which ends are closed; for each thread its `client`
(the module-level `writeClient`) and that client's `pending`. `log` is the
sequence of executed writes.

*Steps.* `Begin` is `configureWriteClient`, the `Post...` actions are
`postWriteOp`, `AckArrives` the listener of acknowledgements, `End` the `finally`
of the worker; on the main thread `Deliver` is a message of the channel with its
apply (applies are chained microtasks, so nothing of another channel comes
between), `RemoteCloses` the close event, `Drained` and `GraceOver` the two ways
out of `finishAndDrain`.

*Abstractions.* Which task runs on which thread is the constant `Host`: the pool
gives tasks to threads without asking whether they are busy. The grace period can
only end while the main thread is behind with its messages, a stall counted by
`MaxFaults`. A post that is answered 429 changes nothing here. The death of a
worker thread is not modelled: the pool that would replace it is external. The
400 answers of `validateWriteOp` are left out.

### 2.3 NodeSync

*State.* Of each node: its `rows`, its `log` (`sync_event_log`), its `watermark`
(`lastPolledTimestamp`) and the three maps of the transport, `active`, `authed`
and `pending`. Of each socket: its `phase` and, per direction, the frames under
way. `since` and `seen` are history for the properties; `doubled` names the
sockets opened beside another one of the same two nodes, `evicted` those that were up
when the bounded set of authenticated labels (`MAX_AUTHENTICATED`, first in, first out)
forgot their label.

*Steps.* `Edit` is a local write with the log entry of its trigger. `Poll` is
`pollAndBroadcastDeltas`, `Receive` is `handleIncomingMessage` with all that a
frame makes it do (challenge, proof, offer, deltas; an applied delta is logged by
no trigger, since the code suppresses them), `Dial`, `Accept`, `Opened`,
breaks, timeouts and closes are the events of the sockets. A restart empties the
maps and sets the watermark to the present.

*Abstractions.* One clock for all nodes, which may stand still between events but
never goes back. A packet of deltas is a pair of log positions. The k-th event of
node n is `<<n, k>>` and stands for the values it carries. Deletes have no
triggers and are left out. All nodes hold the same shared secret and the pinned
fingerprints match; the lockout after three failures is covered by sockets that
break. Frames of a socket that has closed are lost.

*Noticed on the way.* An event of the millisecond in which the watermark was
taken is never broadcast (`timestamp > ?`); the acceptor keeps the entries of dead
incoming sockets, so that its watermark advances though nobody receives; two
sockets dialed to one address share a label, and closing one leaves the other's
authentication behind; a delta whose parent row is missing is dropped for good; a label
that made room for a newer one belongs to a live peer, whose frames are then dropped
until it dials again. The properties exclude exactly these (`Confused`, `skipped`, the strict
comparison with the watermark).

### 2.4 RouteSwitch

*State.* The governor (`used`, `ceiling` and the cached setting with its age), the
two settings in the database, the health of each provider (`exhausted`, the reset
timers and the handle under which the last one is kept), the stop supervisor's
`low`, and of each caller of `execute` where it stands: awaiting a provider with
the rest of its chain, or a council with its legs. `lockedFor`, `downFor`,
`untried`, `own` and `disturbed` are history.

*Steps.* `execute` runs in one go up to its next `await`, so `Submit` is the check of
the budget with the first call, council or failure; when the provider settles,
`Answers`, `Fails` and `RateLimited` are the rest of the loop's body with the walk
along the chain to the next call. `LegSettles` and `Deadline` end a council.
`StreamsToken` is one token through `evaluateToken`. `Tick` is the clock,
`TimerFires` a reset timer, the others are routes of the operator.

*Abstractions.* Prompts and answers are left out: an answer is usable or not, a
token's confidence is high or low, a prompt is risky or not. The model selector
may put any registered provider first. A chain names a provider once. The budget
has a cache of its own, abstracted to "sees the latest setting or not". An error
or an empty answer of a leg is the same thing. `consecutiveLowCount` is counted up
to its limit. How council answers are scored, and the failure to read the settings
during the start of the process, are left out.

*Noticed on the way.* The engine of the main thread serves overlapping requests,
while each worker task creates an engine of its own with a budget of its own
(`core/coreexec/worker.ts`), so the budget is a budget per engine. Nothing outside
the tests configures a council; it is modelled from the engine's interface. A
failed council throws and does not fall back to the chain. The stop supervisor is
shared, so one request's tokens may reset or complete the count of another:
`StopsOnItsOwn` speaks of callers that are left alone (`disturbed`).

### 2.5 Terminals and Shutdown

*State.* Of each upgraded socket: the `socket`, its `session`, the `child` process
and whether the session is in the `registry` and its peer in the heartbeat map. A
project has a version of its documents (`docs`) and the signal of its `lastScan`.
`Shutdown` adds the `stage` of the teardown and the sessions it awaits.

*Steps.* A session is torn down by whoever comes first: the close event, the
heartbeat, the idle timer, the child's exit, or the shutdown. `dispose` is
synchronous up to the wait for the child (`Dispose`) and goes on in `AfterChild`,
with the scan and its cooldown. `Signal`, `Release`, `Finish` and `ForceExit` are
the sequence of `shutdown.ts`; `ForceExit` is its ten-second timer.

*Noticed.* The wrapper that `@hono/node-ws` gives to `onOpen` has no `ping` or
`terminate`, so the heartbeat only forgets such peers (`RawPeers`). After the
pool is destroyed the dispatcher may go on claiming until the database is closed.

### 2.6 Perimeter

The map of windows as the place of each key in insertion order, with a count and a
reset time. `Request` is `rateLimitMiddleware`: sweep of expired keys when the
map is full, eviction of the first key, count, refusal. The comment at
`perimeter.ts:109` says that a key that begins a new window moves to the end; the
code sets it in place, and so does the model. Body sizes and origins are checked
without state and left out.

### 2.7 Access

*State.* The credential and the setup window, passwords being hashed and checked,
sessions with the time they were last seen, tickets with their uses; of each
browser the screen of `AuthGate`, its stored token and its ticketed event stream.

*Steps.* A handler that never awaits is one step; setup and login are two, around
the hash. Logins wait for each other (`verifyOperator` chains them), setups do
not: two of them may both find the window open, and the later one wins.

*Noticed.* A second browser on the setup screen gets a 404 and stays there; a
network failure while a ticket is minted ends the stream for good; the retry
counter is reset before the stream has opened.

### 2.8 Memory

*State.* Memories and vectors, quarantined documents, the status of their reviews,
learning approvals; of each reflection cycle where it stands, the facts it has
still to place and its `channel`, the writes on their way.

*Steps.* A sweep is a worker: it decides on what it reads now (`PlaceFact`, the
selection of decayed rows) and posts writes that arrive later (`Apply`), while
the operator reviews, prunes and approves. `postWriteOpOrThrow` aborts a sweep at
the bound of its channel. `Drop` is a write whose apply fails: it is logged,
acknowledged and gone, whole or after the first of its statements. The properties
except what it took, no more: `owed` are the facts of a cycle less those whose write
failed, `torn` the documents whose review was not inserted, `interrupted` says that a
delete or a cleanup failed and none has succeeded since.

*Abstractions.* Similarity is the constant `Similar`; the search for a conflict may
miss it, since it looks at one type of memory and scores short texts low
(`reflection-sweep.ts:31`, `vector.ts:188`). A memory's age is `day` minus
its birth; its `access_count` stays 0, because nothing increments it. The chat, the
export and the audit log are left out.

*Noticed.* Classifications are never read; two cycles may propose the same
approval; the bulk resolve does not select `context_payload` (`todos.ts:161`), so it
would release nothing from quarantine.

### 2.9 Console

*State.* The to-dos, proposals, task ids and runs of the server, the autonomy dial with
its cached threshold, and what each browser shows: its queue, its draft, its dial;
`handlers` are the click handlers under way, as the calls they have still to make.

*Steps.* A handler makes its calls one after the other and other clicks, consoles and
the engine come between; a console shows what it fetched until it fetches again.
`MaxHandlers = 2` admits the double click.

*Noticed.* No view calls `/:id/resolve`; refusals of a bulk request are dropped;
`handleApproveProposal` ignores a refused launch; a superseded draft may be launched
from a stale console; `/reject` works on any status.

### 2.10 Interview

Sessions in a map with insertion order, `getOrCreateSession` with its eviction,
`resetSession`; prompts in flight as records that remember the session they began
with; tabs that show a project; drafts with the locked assertions they would break.
What the model writes is a choice. *Noticed:* two prompts in flight may both draft;
`resetSession` looks at no cap; a project without history keeps the messages of
the one shown before.

### 2.11 Knowledge

*State.* The files of each directory (`disk`), the rows and links indexed from them
(`nodes`, `edges`), the documents already processed, the extractions in flight, the
strikes of the breaker and its to-dos. A node is known by the name of its file.

*Steps.* A conversion or a chat reflection writes its files one at a time and then
indexes the directory; the operator edits files at any time; a sync (`Sync`)
indexes the directory of one project and prunes it, `Index` is `indexAll`. An indexing is synchronous and one step. An
answer whose later concept lacks a field throws between two files (`AnswerTorn`): those
written stay unindexed until a sync, and the attempt counts as a failure of the route.
`RecordDrift` counts a strike and at the limit tries to escalate: the insert of the
to-do may fail and is then swallowed (`Park`, counted in `parked` or `swallowed`);
`Forgive` is a success, which ends the run of failures and both counts.
`HaltIsReported` says that extraction is halted exactly if an escalation was tried in
this run of failures, not that its to-do is in the table.

*Noticed.* `index.md` of every project is one node, which keeps the fields of the
first; edges are only added; a conversion whose names all exist returns 422 and is
never marked; provider errors count as drift; nobody resets the breaker.

### 2.12 Worker

*State.* Of each task its `step`, the actions still to be gated, those permitted, the
governed fetch under way, what it has done (`acts`), its batch of files and its writes
without an acknowledgement; `policy` is what the gates read.

*Steps.* Every gate reads its setting when it runs; the settings may change and
siblings complete wherever the worker awaits. `HostGate`, `KillSwitch`,
`AddressGate`, `PolicyGate`, `Request` and `Redirect` are `egressFetch` in its order.
The plugins `gitnexus_mapper` (`MapCode`, `EmbedMap`: a child process and an embedding
call) and `schema_patcher` (`Draft`: a model call and a file) act without any gate, and
a scrape with the browser backend runs python3 in the sandbox under the permission to
scrape (`ScrapeByBrowser`). `Licensed` names for each kind of act the permission it has
or the plugin that needs none: `GatedBeforeAct` claims no more.

A name resolves to any of the addresses of `Reach` each time it is asked for, or to
none. The lookup of the address gate and the fetch ask separately, with the policy gate between
them: what is reached (`reached`) need not be what was checked (`found`), so
`OnlyVettedHosts` speaks of the host and its check. That the address reached is the one
checked is `ReachesVetted`, which TLC refutes and no run claims.

*Abstractions.* Inputs are a small set of combinations of plugin, directive, files
and target. What models, shells and pages answer is a choice. *Noticed:* the scrape
result has a `preview` while the worker reads `result.markdown`; the toggles
`git_nexus` and `read_file` gate nothing.

### 2.13 Scout

The interval's checks as a function to the time each began with: a check awaits
the temperature and checks may overlap. The cap (`rule`) is a row and survives a
restart, `original` is a variable of the module and does not. `Yield`, `Recover`
and `Leave` are the three bands of temperature; a missing reading is below all of them
in the code (`null < 75`) and restores the cap like a cool one; `BecomesIdle` stages a run.
*Noticed:* the heartbeat comes from a button only. The indexing queue and the
probes of the hardware are left out.

### 2.14 Consent

*State.* The nodes found and pending, the approved list, the fingerprints, the
dialled sockets and the transport's maps keyed by peer, failures and the version of
each secret, which stands for its fingerprint.

*Steps.* `Approve` and `Enter` are the routes, with the dial they start; a socket
opens, answers, times out or closes; the secrets rotate with a restart. The first
approval may carry a fingerprint the operator states (`Learn`). An answer states a
fingerprint or none (`Presents`): one without passes on the proof of the shared secret
alone, whatever is known of the peer, which older peers rely on and
`tofu-fingerprint.test.ts:123` asserts. `TrustOnFirstUse` is therefore about the
fingerprints that were stated: all that a peer was authenticated with (`proven`) are
the first one known of it. Peers are addressed as `ip:port` with IPv4 addresses; the
labels of IPv6 peers do not parse (`transport.ts:255`), so that nothing is compared
for them. *Noticed:*
`setSyncEnabled` and `removeApprovedPeer` have no caller; approved peers are not
dialled again after a restart; two dials before the first one opens may fail both.

### 2.15 Schema

A file is its tables, the columns they lack, an index, the triggers, a version and
the blob of a proposal. `initDB` is a program of statements without a transaction
(`phase`, `line`); the process may end between any two; a restore puts an old file
in place. *Noticed:* an error of an ALTER other than "duplicate column" is logged and
the version stamped all the same; on a new installation `npm run dev:server` reads
`system_settings` before `initDB` and ends (`server-main.ts:65`).

### 2.16 Registry

Rows with the version of their configuration, rules as chains of ids, the registered
instances and the active one; requests in flight and what the settings view shows,
from which it composes its chains. `locked` are the rows whose key no longer decrypts (the
master key of the vault was lost): a boot stops its registration at the first such row,
in an order of rows that is a choice (`Loads`), and `skipped` are the rows it left out; a
change of such a row writes it and throws before the engine hears of it. `RowsAreLive`
excepts `skipped` and nothing else. *Noticed:* an update leaves the active primary with
the old configuration; a provider that was disabled or deleted stays registered until
the restart; the view ignores refusals.

### 2.17 Adapter

One call as a record: its candidate, its request, the retry after an answer that was
all reasoning, the retry without the schema, the routing hint and the engine's abort,
which may come at every wait. `Rotate` is the loop over candidates of the two fixed
platforms, with the reasons each retries. Bodies are left out. *Noticed:* a
candidate may cost two timeouts; an abort while an error body is read leaves its
status, and a 429 rotates; catalogs live as long as the process.

### 2.18 Local

The promises of the model and its two contexts, kept also when they fail; generations
and the one sequence they share, as the set of generations whose tokens it holds.
Tokens are counted. *Noticed:* a failed promise is kept for ever; two overlapping
streams clear and extend each other's sequence.

## 3. Runs

All configurations say `CHECK_DEADLOCK FALSE`: when every run is settled, every
task recorded, every request answered and every bound reached, the systems have
nothing left to do.

| Run, configuration | Instance | Shows |
|---|---|---|
| `safety`, `CoreExecSafety` | approved run of two chained nodes, cron run of one; one pool worker whose cap heat may take to 0, one expired lease, one operator request | typing, dependencies, callers, executors (pool bound, tickets, one executor), Track A first; refinement of `DagExecution` |
| `crash`, `CoreExecCrash` | two runs that share a node id, a malformed staged run, a node without plugin, one expired lease, one crash | claims are not lost, verdicts are founded |
| `queue`, `WriteQueueSafety` | three tasks on one thread, two posts each, queue of two, one stall | no write lost, executed twice or out of order; backpressure, drain before result |
| `sync`, `NodeSyncSafety` | two nodes, two sockets, one row, two edits, one restart, one authenticated peer at most | no frame dropped, no event forgotten, copies move on |
| `routing`, `RouteSwitchSafety` | two callers, three requests; a streaming, a free and a paid provider, a council of two; one change by the operator | bounded spending, no paid call under an old lock, whole delays, no provider left out, stops by own tokens |
| `surface`, `Surface` | one of seven services at a time: three starts of files of three ages; two terminals of one project; three addresses on two keys; three browsers, two sessions kept that slide; a console with two handlers; two projects, two prompts; two peers, two sockets | the invariants of `Schema`, `Shutdown`, `Perimeter`, `Access`, `Console`, `Interview`, `Consent` |
| `machinery`, `Machinery` | one of seven services at a time: two similar facts, a document, a sweep; two extractions, one breaker; one task of each kind; two overlapping checks; two providers; one call; two generations | the invariants of `Memory`, `Knowledge`, `Worker`, `Scout`, `Registry`, `Adapter`, `Local` |
| `progress`, `Progress` | one at a time, fair: two runs, heat and a crash; two tasks, queue of one, a stall; one terminal; one browser; one check | every run taken up or awaited is settled, every task recorded, every teardown and shutdown ends, streams come to rest, the worker cap comes back |
| `exchange`, `Exchange` | one at a time, fair: two callers and a council; one manually paired socket, a project and its run, a restart | requests end and providers come back; handshakes end on both sides, events arrive |

*Several services in one run.* The services of `MCSurface`, `MCMachinery`,
`MCProgress` and `MCExchange` share no state, so a product of their states would add
nothing: the variable `running` chooses one in the initial state and the others rest.
An invariant of a service is thereby checked in every behaviour of that service. A
service at rest owes nothing under its fairness: fairness of its actions is stated
over its own variables, and `MCProgress` restates the one of `Scout`, whose interval
is always enabled. To study one service, set `Services` to it alone.

Why these bounds: the hazards of CoreExec need two runs (competition for slots,
shared node ids), a chain of two nodes (dependencies) and one node beside it; a
stale executor needs one expiry and a second claim; each crash point is reached
with one crash. In the write queue, two tasks on a thread suffice to replace a
client, three to replace it while an earlier one is still draining, and two posts
fill a queue of one or two. In sync, two sockets suffice for a handshake that meets
another one, two edits for one that is offered and polled and one that is only
polled, one restart for a watermark that jumps; sockets dialed by both nodes
(`Links = {l1, l3}`, two authenticated peers) hold the same invariants. In the routing,
two callers suffice to disturb each other, the third request begins in the state a
first one has left, a budget of two is overshot by two councils, and a delay and a
cache of one tick separate "now" from "later". At the edges: three starts are a
crash in an upgrade, a crash in its repetition and a complete one; two
terminals of one project meet in its scan; three addresses on two keys evict a
running window; three browsers log in for the two sessions kept, which slide by their use and
age while others come, so that an eviction has a choice; two
handlers are a double click or two consoles; two prompts of one interview, and two
projects with one session kept, meet eviction; two sockets to one peer
overlap their handshakes, and a second peer meets a list of one that is full. Behind the dispatcher: two similar facts are a conflict,
three writes fill the channel of a sweep; two extractions meet the
breaker at its second strike; a batch of two files meets a cap of one; two overlapping checks may
end in the wrong order; two providers suffice for a chain and its fallback; two
generations for a sequence that is shared.

The bounds that the code does not have are `Budget` (expiries, operator requests,
crashes and hot spells of CoreExec), `MaxPosts`, `MaxFaults` (stalls of the main thread), `MaxEdits`,
`MaxTime`, `MaxClock`, `MaxNow`, `MaxDay`, `MaxTicks`, `MaxRestarts`, `MaxStarts`,
`MaxBoots`, `MaxRequests`, `MaxOperator`, `MaxTokens`, `MaxTickets`, `MaxHandlers`,
`MaxRuns`, `MaxIds`, `MaxPrompts`, `MaxSecret`, `MaxApprovals`, `MaxParked`,
`MaxChanges`, `MaxVersion` and `MaxCalls`. Tasks of the write queue, callers of the
routing, sockets of the sync that one node dials and providers of the registry are
interchangeable; liveness is checked without symmetry. The routing run begins under
the larger of its budgets (`RichSpec`), the smaller one is set by the operator.

*Fairness.* `CoreExec!Fairness` asks of passes, microtasks, executions and the
boot that they happen if they stay possible (an event loop that is not blocked,
plugins that end or time out) and of the watchdog, which is repeatedly armed and
cleared, that it fires if it is armed again and again; strong fairness is used
where another step may disable and re-enable the action. Nothing is assumed of
operators, crashes, the cap, the breaker's window or leases, except that a lease whose
holder died runs out.
`WriteQueue!Fairness` asks that running tasks end and that messages and closes of
open channels are delivered; nothing is assumed of the grace period. `NodeSync!Fairness`
asks that the poll of each node is repeated and that frames under way on a socket that is
up are received. `RouteSwitch!Fairness` asks that an awaited provider settles, if only
by the timeout of its adapter, that the council's deadline, the clock and the reset timers
fire; it asks nothing of the legs of a council, which may ignore their abort signal.
`Shutdown!Fairness` asks that the steps of the teardown happen and that the force timer
fires; it asks nothing of children, clients or other nodes. `Access` asks only that the
retry timer of a stream fires. `Scout` asks that the interval starts checks, that
readings return and, strongly, that a check which may end while the processor is cool does so.

### 3.1 Where comments and the code disagree

Three of these have a run that TLC refutes:

| Run | Property | Said in | What the code does |
|---|---|---|---|
| `honest` | `Console!QueueIsHonest` | `ui/lib/approvalQueue.ts:9`, "honest about everything pending" | `handleApprove` (PortGridDashboard.tsx:328) posts to `/api/todos/resolve`, a route that does not exist; the item leaves the screen and stays open |
| `legacy` | `Schema!LegacyBoots` | `core/basevault/db.ts:116`, "ANY version < N as needing migration" | the first script indexes `project_id` before the migration adds it: a database without that column does not boot |
| `transaction` | `Memory!InOneTransaction` | `core/basevault/write-queue.ts:173`, "in its own transaction" | a memory and its vector are two statements; the second may fail alone |

The others stand in the modules. To see one refuted, name it in a configuration with
the one service it belongs to (`CoreExec` and `WriteQueue`: in the configuration of
`safety` or `queue`; those on the last step of a trace need no fairness).

| Property | Said in | What the code does |
|---|---|---|
| `EveryFiringHasTasks` | docs/user-manual/02-TaskRunner.md:150 | the second firing collides with the first one's task ids |
| `PausedDispatchResumes` | engine.ts:133, "Pausing dispatch." | nothing resumes a pass the breaker paused |
| `EscalationFirst` | engine.ts:356 | the last write may be in another task's channel |
| `ShutdownCompletes` | shutdown.ts:20, "one stuck module can never veto the rest of teardown" | `server.close` waits for upgraded sockets that nobody closes; the timer exits with sessions and database open |
| `PreviewIsDeleted` | cerebro.ts, "never show one set and delete a different one" | the confirmation selects again |
| `Siloed` | directory-manager.ts, "strictly siloed" | files of one name in two projects are one node |
| `ParkedOnce` | schema-drift-breaker.ts, "exactly once" | an extraction that began before the trip parks again |
| `VerifiesPrior` | worker.ts:418, "the immediately prior completed task" | the last row of the run, which may have completed earlier |
| `CapComesBack` | idle.ts:59, "Thermals recovered. Restoring worker config." | a restart while hot forgets the cap to restore |
| `ReapprovalWorks` | PortGridDashboard.tsx:178, "Re-approve only if you rotated that peer" | approving again keeps the old fingerprint |
| `RoutesAreCurrent` | llm.ts:87, "immediately uses the new config" | the active primary keeps its configuration |
| `OwnContext` | llama-cpp.ts:206, "Fresh generation each call" | overlapping streams share the sequence |

Other disagreements seen in the code while it was modelled: approved runs get the
background track though the comment at engine.ts:142 speaks of interactive precedence; a
stale failure sends a completed task back to the queue (engine.ts:262 against :415), and
so does a resolve after a reject; a staged run waits for the next trigger, since no
watchdog runs on an idle system (stage-run.ts:15); a ticket may outlive its run
(todos.ts:73); the operator's retry spares unexpired leases (coreexec-router.ts:239);
tasks outside the pool do not count towards the concurrency limit (settings.ts:40); a task
without a write client writes itself (write-queue.ts:169); the scheduler never reschedules an
edited job (scheduler.ts:133).

## 4. Proofs

`CoreExecProofs` proves every safety property of `CoreExecSafety` for every set of
runs and nodes, every layout, every budget. The inductive invariant of the first five
theorems is `IInv == TypeInv /\ TaskInv /\ RunInv`: `TypeInv` adds to `TypeOK` that the set of
executions is finite (cardinalities are compared with the number of slots);
`TaskInv` says where rows, claims and executions come from (a started node has a
row in a layout that contains it, an execution belongs to a started node, a
completed row has produced); `RunInv` ties the pass to the rows (only active runs
are visited, verdicts are founded). `VerdictsSound` (every completed run was complete, every failed one had to fail) uses that a finite set of
nodes without a cycle has a node whose dependencies lie outside of it, the
second half of `LayoutAssumption`: if all rows are there and none is claimed,
parked or eligible, then all are completed.

`ExecutorsAreSound` has an invariant for each half. `PoolInv`: in a pass the slots in the
books, counted once at its start, are never fewer than the executions of the pool
(executions may end meanwhile, none begins that is not counted). `ExecInv`: a parked row has its ticket,
and while no lease has run out and no operator has intervened an execution is of
the latest claim of a claimed row. `TrackAFirst` rests on `TrackAServed`: an active,
well-formed run of track A that the pass has visited and that still has an eligible
node has set `needSlots`, after which a visit to track B claims nothing. Its first proof attempt failed where two layouts share a
node id and the property counted a start for both runs; a start now belongs to
the run that owns the row, as in the code.

`CoreExecRefinement` proves `PromiseKept`: with the mapping of `CoreExecProperties` each
step of the dispatcher is a step of `DagExecution` (a start, a result, a
verdict) or leaves the four mapped variables alone. `started` and `done` grow because
claims and results are never taken back; that a verdict is founded is `RunInv`.

`WriteQueueProofs` proves that no accepted write is lost while no channel was
given up (`NoAcceptedWriteLost`), that a channel is never overfull
(`Backpressure`) and that a task alone on its thread is recorded after its
writes (`DrainBeforeResult`), for any number of tasks, threads and any `Host`. `OnceAndInOrder` adds
`OrderInv`: every write is in one place, the log or one channel (`Placed`), and the writes of
a task that never shared its thread rise along its channel and from the log to it (`Ordered`).
The inductive invariant is `TypeOK /\ Clients /\ Ends /\ Flow /\ Alone /\
AcceptedIsSafe`: whose channel a client holds, which end is closed in which
stage, what a channel holds against what its client counts, and what is known of
a task that has had its thread for itself.

`RouteSwitchProofs` proves every safety property that `RouteSwitchSafety` checks, for
any set of callers and providers, any chains and councils, any budgets, delays and
life of the cache. Typing needs `StopExact` (the count of a caller that is left alone
is the supervisor's, and it is aborted exactly when that has reached the limit),
because the history of low tokens stays within the limit only by it. On top of
these two, each property has one invariant of its own: `FreshLock` (a cache that
still counts was read no longer ago than the setting has been locked),
`TimersHeld` (an exhausted provider has exactly the timer its handle names, and what
it has left and what has passed make the delay), `UntriedHeld` (what is left untried
lies ahead in the chain) and `SpentWithin` (the bound of the spending together with
why a locked governor cannot call a paid provider). `SpentWithin` counts callers,
so it uses the finiteness of their set and of the providers.

`NodeSyncProofs` proves `NothingLost` for any nodes, links (dialled by whom, to whom and
whether by hand are constants), clock, polls, edits and restarts. `IInv` has four parts.
`NetInv`: the types, and that no log entry or watermark is ahead of the clock. `PhaseInv`:
a socket that is not up carries at most the challenge of its acceptor. `AuthInv`: every
authenticated label is backed by a socket that is open or whose close was not noticed, or by
one dialled by hand; a socket that comes up therefore finds its label free, and starts its
handshake unauthenticated. `LinkInv`, of the sockets that are up: the maps know them, no rival
shares their label, the handshake towards each end is in order (`Shaken`: the challenge is
first, and offers and deltas are behind the proof until it has been read), and every event
since has been told or will be (`Told`). A first attempt failed at the bounded list of labels: TLC then
showed the loss with two sockets and a list of one, and the property names this exception (`evicted`).

The same module proves `CopiesMoveOn`. `Merged` is a recursive function over the positions of a
packet; `RunExists` and `MergedMoves` are the inductions over them, each by its least
counterexample: a row keeps its value or has that of the last event about it, since a row that
has been written has its parent and no later event of the packet is refused. `CopyInv` says that
a value is that of an event about its row (`RowsInv`), that a packet is a part of its
sender's log (`PacketInv`), that two sockets up between the same nodes are both `doubled`
(`DoubleInv`), and that on the only socket of two nodes no packet ends before one in front of it nor
before what the receiver has (`OrderInv`). The proof needs a missing row to differ from every
value (`ValueAssumption`).

The smaller modules, for any number of their actors:

- Consent (`SurfaceProofs`): besides the types, a pending challenge belongs to a socket to that
  peer (`Challenged`), and the fingerprint that is known is the first one stated, by the
  operator or the peer (`Pinned`); a dial follows an entry of the list, `Learn` only
  writes where nothing is known, and an answer without a fingerprint adds nothing to
  `proven`.
- Interview: every session in the map is filed under the project it was created for (`Filed`),
  a request in flight remembers its session and carries no draft against a locked assertion
  (`Asked`), the round counts the messages (`Rounds`). Eviction and reset leave requests in flight
  for sessions that no map holds, which is why the invariant is about `1..created`.
- Terminals and shutdown: `TerminalsSound` is inductive with `ScansLag` (a scan never saw more than
  the documents are, and its signal is of what it saw, so that equal signals mean nothing
  new) and `GoneIsGone` (only a session that gave up leaves a running shell behind).
- Schema: `TablesMade` and `ColumnsAdded` say what the lines before the current one have achieved, for
  any list of statements; a crash loses the position and no statement already run.
- Console: `Barred` ties the age of the cached bar to how long the saved ones have been replaced, `Launched`
  ties a started run to its rows in the table of tasks, and `Judged` the state of a proposal to its first
  verdict. That steps run once needs that no proposal is empty (`interview.ts` and `validateDAG.ts` refuse
  an empty one), an assumption on `Nodes`: a run without nodes would leave no row to collide with.
- Authentication: `TokensWork` is inductive with the types. A prune drops only what has been idle
  too long, and an eviction the oldest of more than `MaxSessions` live sessions, which are numbered
  in the order of their creation (`EvictFacts`): so `MaxSessions` newer ones exist.
- Rate limiter: places in the map are distinct and at most as many as its keys (`Ranked`), so the
  bucket just set, the last, survives the eviction of the oldest, and at most `MaxKeys` remain.
  Unless its address lost it, the bucket of a running window counts that window (`WindowKept`).
- Scout (`ServiceProofs`): the cap is in one of two states (`CapKept`), and while no check
  overtakes another, a machine found idle is found idle by every check still to end
  (`RestLasts`), so the next one stages nothing.
- Knowledge: the nodes have passed the gate and the edges are between nodes (`Curated`), preserved by
  an indexing of any directory, by syncs and prunes; the breaker tries its escalation in the step in
  which it trips, and the counts of tries and of strikes end together.
- Worker: `InLine` (an action is permitted or still in line for its gate), `Vetting` (a fetch past a gate
  is of a host that passes it, whatever settings became since), `Acted`, `Batched` (the channel has room
  for the rest of the batch, two writes a file, which is the assumption on the cap).
- Memory: writes of every shape are under way in any number of channels while the operator
  clicks, so most of the invariant is about what is on its way. Ids that travel are pairwise
  distinct (`Apart`) and in no table (`Unused`), but that a document's review, right behind it, shares its id. `Reviewable`
  finds the review of each document: pending, on its way, or torn off by a crash or a failed write.
  `Reviewed` keeps declined and pending documents out of the memory, `Carried`
  accounts for each fact of a cycle that is still owed (noted, still to place, or in its channel), and `Followed`
  puts a cleanup behind each deletion that leaves vectors, unless the sweep was aborted
  (`Orphaned`). `Leaving` says what remains of all this when the head of a channel is
  applied, and is used once for each kind of write; `DropStep` does the same for a head that fails.
- Registry (`ModelProofs`): `RegistrySound` itself is inductive once the calls in flight name
  possible ids (`Called`): a delete looks for the id in every chain, a saved chain
  names rows only, and registering an instance drops the one of the same id alone. A boot
  leaves out what `Loads` lets it, and that is what `skipped` says.
- Adapters: `CallInv`, of one call's record, counts what an attempt may still send (`Used`) and
  ties the hint to the last answer that was read.
- Local model: two generations that use the sequence at a time know of each other,
  and one that does not share it finds its own prompt there and nothing else (`Alone`).

The assumptions are the named `ASSUME`s of the modules; TLC evaluates them in
every run.

Only model-checked is liveness (`RunsSettle`, `DrainSettles`, `TeardownEnds`, `StreamsSettle`,
`WorkersReturn`, `AnswersCome`, `SyncSettles`), which is out of the prover's reach. Every
invariant and every action property of the runs that pass is a theorem.

## 5. Not modelled

`PROJECT.json` lists every component with its status. In short: the model selector and the
walks over layouts, graphs and settings are pure functions without state of their own;
worktrees and sweeps are calls to git and the file system; conversions (keys, redaction,
shapes of requests) have no state; the memory context is a client of external services; most
routes and views read or write single rows. Of modelled components these parts are left out:
the scheduler's comparison of rows with jobs, a throw inside `dispatchLoop`, the 400
answers of `validateWriteOp`, the scoring of council answers, the indexing of source code and
its queue, the queries of the knowledge graph. `watcher.ts`, `genesis.ts`'s bootstrapper,
`research.ts`'s ingestion, `router.ts` and the reset of the drift breaker have no
caller. Nothing is persisted between the death of a worker thread and its replacement by
the pool, which is external.

## 6. Plan

1. An abstract specification of replicated rows that NodeSync implements, with its proof; three
   nodes. The same for the memory: what a fact that was learned becomes.
2. The types of the modules that no theorem states by themselves, as theorems of their own.
3. The scheduler's refresh, the indexing queue of ScoutDaemon, and the sync policy as operators
   against a reference.
4. Composition of `Console`, `Memory` and `CoreExec` over one table of to-dos.
