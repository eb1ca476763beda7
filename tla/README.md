# A formal model of the WorldScraper engine and its document handoff

This directory holds TLA+ modules for the crawl engine (`engine/`, Go) and for the part
of the desktop app (`app/src-tauri/`, Rust) that keeps the engine running and takes
documents from it; TLC configurations that check them on small instances; and theorems
that the TLA+ proof system checks for every value of the constants. `PROJECT.json` lists
the runs, the mutated definitions each property was tried against, the source lines each
definition stands for, the hazards, and what was found.

Check a module with `tlc -config X.cfg MCModule` and a proof with `tlapm XProofs.tla`.

## 1. The system

Two processes on one machine. The **engine** is a daemon: it crawls, keeps its frontier
in Pebble and its aggregates in SQLite, and serves a local HTTP API. The **app** finds or
starts the engine, pulls crawled documents into a Tantivy index and shows a dashboard.

| Component | State it keeps | Operations | What is hard |
|---|---|---|---|
| Crawl frontier (`kv/kv.go`, `crawl/crawler.go`) | `u/` seen-set, `q/` queue, `l/` leases, `t/` recrawl index; counters in memory, saved under `m/` | Enqueue, Lease, Complete, Requeue, SweepLeases, DueForRecrawl, ClearQueue, ClearSeen, PersistCounters, Open | batches built from reads of the committed store while others commit; counters that lag behind at a crash; two-commit buttons |
| Document spool and handoff (`kv.go`, `api.go`, `indexer.rs`, `lib.rs`) | `d/` documents, spoolTail/spoolHead; the app's index, cursor file, staged documents | Complete's documents, SpoolRead, SpoolAck; fetch, add_batch, commit, save cursor, ack; final commit at exit | two processes that end at any time, lost and late acks, an index commit and a cursor write that are not one step, stale counters |
| Dispatcher (`crawler.go`) | host table, ring, buffered counter; work and results channels | refill, pick, workers, hostDone, penalize, collector, DropBuffered, ClearQueue | a table thrown away under running requests, bounded channels, hosts waiting in a state |
| Lifecycle (`crawler.go`, `api.go`) | running flag, cancel, wait group, channels of a run | Start, Stop, SetConfig's restart, shutdown | concurrent handlers, goroutines of an old run reading new fields, draining |
| robots.txt (`robots/`, `crawler.go`, `discover.go`) | `r/` records, rules in the host table, discovery's copies in memory | Parse, Allowed; fetchRobots and loadRobots of two readers, ClearRobots | the meaning of a stored failure, copies of copies, late answers, a setting changed under way |
| Discovery (`discover/discover.go`) | Tranco list and rank, interval gate, counters | Run, Collect of each source | a rank saved before the seeds it covers are stored; a name and a rank that are two writes |
| Aggregates (`meta/`, `simhash`, `crawler.go` persist) | SQLite tables, fingerprints | Apply, HasNearDuplicate, ResetStats | two stores, one after the other; a look-up that reads only some rows |
| HTTP API (`api/api.go`) | a cached aggregates answer, open SSE streams | config, control, spool, stats, stream | a stream between a counter and a ring that both move; a stale cache |
| Metrics, notifications | event ring and its counter, rates; cooldowns | Record, Recent; check, send | windows and rates |
| Engine supervisor (`engine.rs`) and engine process (`main.go`) | endpoint, child handle, stop flag; the store's lock, `runtime.json` | adopt, supervise_step, spawn, reap, stop, start; open, serve, the deferred calls | health checks racing stop requests; two processes for one store; an adopted process that hangs |
| Pure functions (`urlx`, `extract`, `classify`, `simhash`, `geoip`, `config`, search) | none that outlives a call | | algorithms and tables |
| User interface (`app/src`) | what it shows | polling and buttons | none for the engine |

How they interact. The scheduler goroutine leases URLs from the frontier into the host
table and sends jobs to workers over a channel; workers send results to the collector,
which completes them in batches: that releases leases, records outcomes, pushes links and
appends documents to the spool. A maintenance goroutine recrawls, reseeds, runs discovery
and saves counters. API handlers start and stop all of these and press the maintenance
buttons while they run. The app's ingest loop reads the spool past its cursor, commits,
saves the cursor, acknowledges; the engine then deletes. The supervisor restarts the
engine, which sweeps its leases when the crawl starts.

What makes each correct: no accepted URL is lost and no outcome goes to another URL's
lease (frontier); no document is lost and each is indexed in the end (handoff); a host is
not overloaded, every leased URL is in one place and reaches an outcome (dispatcher); a
stop leaves no goroutine and no buffered URL, strands no pending one, and returns
(lifecycle); the parser's loop agrees with a reading of the file by position, the rules in
use come from an answer of the host, and new ones arrive (robots); the walk along the list
skips nothing and reaches the end of what the client reads (discovery); who wants an engine
gets one, and nobody launches one against a stop (supervisor); what is suppressed
as a copy has an original, and the dashboard comes to show what is stored (aggregates,
metrics, API).

## 2. The modules

| Module | What it is |
|---|---|
| `WorkList` | abstract: a to-do list of URLs; no crash, lease or queue |
| `Frontier`, `MCFrontier` | the Pebble records and the calls on them; implements `WorkList` |
| `FrontierProofs` | its theorems |
| `Handoff` | abstract: what the engine owes the index; no sequence, cursor, ack or process |
| `Spool`, `MCSpool` | both processes of the handoff; implements `Handoff` |
| `SpoolProofs` | its theorems |
| `Dispatch`, `MCDispatch` | scheduler, workers, collector and the host table |
| `DispatchProofs` | its theorems |
| `Lifecycle`, `MCLifecycle` | starting, stopping and restarting, with the goroutines of several runs |
| `LifecycleProofs` | its theorems |
| `RobotsRules` | pure: the parser and the matcher, and what lines and patterns say by position |
| `Robots`, `MCRobots` | records of robots.txt, their two readers, the host table's rules and discovery's copies |
| `RobotsProofs` | its theorems |
| `Discovery`, `MCDiscovery` | a discovery cycle and the saved walk along the list |
| `DiscoveryProofs` | its theorems |
| `Supervisor`, `MCSupervisor` | the app's supervisor against engine processes, the store's lock and `runtime.json` |
| `SupervisorProofs` | its theorems |
| `Persist`, `MCPersist` | the collector's two commits, near-copy suppression, the live feed, the aggregates cache and the dashboard's stream |
| `PersistProofs` | its theorems |

The modules meet at the actions they share: `stock` in Dispatch and `queue` in Lifecycle are
the queue of Frontier; a `Complete` of Persist is one of Frontier and of Spool; `entry` in
Robots is the robots part of Dispatch's `hosts`; `Enqueue` of Discovery is Frontier's.

### Frontier
`seen`, `queue`, `leases`, `recrawl` are the key ranges `u/`, `q/`, `l/`, `t/`; `seq` and
`pending` the counters in memory and `mSeq`, `mPending` their saved values; `held` what the
crawler has leased and not completed. One action is one Pebble commit, or one update of the
pending counter: every call commits first and adds after, so each caller has in `owed` what
it still has to add (`AddOwed`), and anything may come between. Enqueue and Complete read the
committed store item by item while they build a batch, so a batch is state (`enq`, `com`)
built in steps between which every other caller may run. Lease reads an entry (`LeaseRead`,
`taking`) and commits it later (`LeaseApply`), whatever became of the entry meanwhile.
ClearQueue deletes the queue, then the leases, then stores 0 in the counter, then throws the
buffers away again and saves; ClearSeen and Stop go on in steps too: `rest` is what is still
to be done. A Requeue may fail, at a stop and after DueForRecrawl. `CrashAndOpen` is possible
in every state: memory is lost, counters go back to what was saved. Queue keys carry 16
random bits; `JitterRepeats` says whether they may repeat for a number that is drawn again.

### Spool
The engine's documents `spool`, `tail` and `head` with their saved values, the batch being
completed and acks in flight; the app's committed `index`, `cursorFile`, and in memory
`cursor`, `staged`, `uncommitted`, `pendingSeq` and `pc`, the place in the ingest loop.
A commit of the index, the cursor write and the ack are three steps. Either process may
end between any two actions. `StaleCounters` allows an end of the engine with unsaved
counters, `CursorWriteFails` a write of the cursor file that fails (the code ignores it).

### Dispatch
An entry per host (`hosts`), the `ring` with its position, `buffered`, the scheduler's
place, and the channels. The loops of refill and pick hold `hostsMu` and take one step per
URL or host; `Unlocked` keeps other users of the mutex out. Channels are sets: their order
decides nothing here. An item is an entry of the queue, and the durable queue is the set
`stock`. DropBuffered takes the buffered items under `hostsMu` into the caller's hands
(`back`); `RequeueBack` puts them into the queue after the unlock, or fails, which leaves them
to nobody (`dropped`) until the next Start sweeps their leases. ClearQueue is the table, the
store, the table again, and the store may fail. The lease that a requeued item leaves behind
is not an item here: that the next Start makes a second entry of it is in Frontier.

### Lifecycle
A goroutine is a record with the number of its run and what it has in hand; each run has its
channels. `Start` is one step under `runMu`. `Stop` is five, in the order of the code: flag,
cancel, wait, table, requeue; only the first is under the mutex. Goroutines read `c.work`
and `c.results` again on each turn without a lock, so one of an old run may use the channels
of its own run or of any later one (`Visible`). A select between a channel and `ctx.Done()`
may take either. A request begun under a cancelled context fails at once (`Begun`); the
Requeue of a stop may fail, and then the leases are what is left. What happens to a host is
left to Dispatch; a pause is a scheduler that takes no step; the maintenance goroutine holds
nothing and is left out. `StopWait` is atomic: the panic of Go's wait group on an Add
between its count reaching zero and the return of Wait is not modelled.

### RobotsRules and Robots
A line of a file is a field and a value, a pattern is split at its `*` as `match` splits
it. Each step (`ParseLine`) is one turn of Parse's loop, so its properties are checked after
every line. The reference `Glob` asks for any placement of the parts, `RefAllowed` reads the
file by position, without the loop's state; which group is read, the first of those that name
us best and no other, it takes from the code. `MCRobots` checks both modules in one run: files
are read in the first state of Robots, so that the two do not multiply; and it has two kinds of
hosts, one whose answers vary within one run, and one whose answers stay the same over two.

In Robots `record` is the store, `entry` the host table, `job` the workers, `copy` and `disc`
discovery. A job waits (`waiting`) in what pick returned or in the work channel until a worker
takes it (`Take`), or is dropped there by a stop (`DropJob`). A read of the record, the request
and the use of its answer are three steps. Of a run there is what matters here: the Start, and
the Stop as flag, cancel, the end of the goroutines, the wait and the table; a Start may come
between them (`overlapped`), and then both runs use one table.
`Outcomes` gives a cancelled request a failed answer, as the code does. Age is counted in
ticks of which `TTL` make 24 hours. `gave` is a history of answers.

### Discovery
`run` is the cycle under way with what it has collected, one step per request or write;
`saved` the two cursor values, read and written apart. A body may be cut at `Fits` rows by the
client's limit, and its last row in the middle. `excused` records what a crash, a failed
Enqueue or a cut row lost on the way, so that everything else is owed.

### Supervisor
`eng` has a record per process slot, `lock` and `file` are what they share; a session of the
app is its port. An engine opens the store, listens, writes `runtime.json`, starts the
crawl, serves; its end is the reverse. Listening and starting may fail, which ends the
process; a failed write of the file does not, and the engine serves on without it
(`listed`). `Probe`, `Decide`, `Reap` and `SpawnOnce` are supervise_step, `StopFlag` and
`PostShutdown` stop_engine; `missed` is the history of a stop whose one request met an
engine that was on its way. A start that takes longer than the grace, and a child killed for
it, are faults. Back-off only delays.

### Persist
`batch`, `at` and `step` are persist's loop: per page a look-up and an event, then Complete,
then Apply. A fingerprint is the set of its bits, cut in bands; the look-up may read any
`RowLimit` of the candidate rows. The event goes into the ring and the counter follows, as
in `Record`; the stream reads the counter and then the ring. `stale` is a history of rows
that a fault left out of step with the index.

## 3. The runs

| Run | Bounds | Shows |
|---|---|---|
| `Frontier.cfg` | 2 URLs, 3 key numbers, 1 crash, 1 operator action, batches of 2 | `NoWorkLost`, `LeaseKeysSafe`, `RecrawlScheduled`, `PendingExact`, and the refinement `ImplementsWorkList` |
| `Spool.cfg` | 2 pages, 3 documents, 1 clean end of the engine, 1 end of the app, 1 fault | `NoDocLost`, `DepthCovers`, `ImplementsHandoff`, `EveryDocIndexed` |
| `SpoolCrash.cfg` | 2 documents, an end of the engine with stale counters | `NoDocLost` fails (finding) |
| `Dispatch.cfg` | 2 hosts, 3 URLs, 2 workers, 1 bad fetch, 1 button, robots on and off | `HostLoadBounded`, `RingExact`, `ItemsConserved` |
| `DispatchLive.cfg` | 2 hosts, 3 URLs, 1 worker, 1 bad fetch | `QueuedIsReported` |
| `Lifecycle.cfg` | 2 URLs, 2 handlers, 3 calls, 2 leases, a results channel of 1 | `StoppedIsQuiet`, `NoStuckWork`, `StopReturns` |
| `Robots.cfg` | 1 host, 1 worker, 1 button or crash; a site that changes once between a file and 5xx, with 1 run; a site without a file or not there, with 2 runs; files of up to 4 lines with 2 patterns, 310 patterns in files of 2 lines, 31 paths | `MatchIsGlob`, `RulesByPosition`, `RulesHaveReason`, `FetchingIsServed`, `CopyAgeBounded`, `NewRulesReach` |
| `RobotsTrouble.cfg` | a site that only answers 5xx | `TroubleBacksOff` fails (finding) |
| `Discovery.cfg` | 2 lists of 4 rows of which the client reads 3, 3 per cycle, 1 crash | `CursorCovered`, `LimitKept`, `WalkOffersWhatFits` |
| `Supervisor.cfg` | 3 process slots, 3 sessions, 3 stops and starts, 3 faults | `ServingIsFindable`, `StopHolds`, `WantedIsServed` |
| `SupervisorReopen.cfg` | 2 sessions, no stop, no fault | `AdoptsOrLaunches` fails (finding) |
| `Persist.cfg` | 2 URLs, 3 fingerprints, 3 pages in batches of 2, 1 fault, a ring of 2, deltas of 1 | `SuppressedHasOriginal`, `DashboardCatchesUp` |

Every passing run also checks its module's `TypeOK` (but for `DispatchLive`, which has the
states of `Dispatch`).

**Why the bounds are enough to be of interest.** Two URLs are what it takes for a record of
one to be overwritten or released for the other; three key numbers let a lease, its requeue
and a number drawn again after a crash meet. Three documents of two pages give a newer and
an older version of a page on both sides of a cursor. Two hosts make the ring swap, two
URLs on one of them make it wait for a slot; channels of size one fill up. Two handlers
and three calls reach a start that comes between the flag and the wait of a stop, and a
restart by `SetConfig` against either. Hosts do not meet in Robots, so one is enough; one
worker carries the job of a dropped table while that of the new one waits; two runs make a
job of the first meet the second's table; two ticks to the 24 hours tell a young record, an
old one and a copy of an old one apart. A client that reads three of four rows makes the cut
of a list come in every walk. Patterns of three
parts have a middle that greedy search could place wrongly. Two lists of which the second
starts with a new domain make a rank that belongs to the other list visible. Three
slots hold an old session's engine, the new session's, and one being replaced. Two texts
that share a band and are no copies, and a look-up of one row, make the row limit and the
bands matter; a ring of two events that three pages pass wraps. Deadlock checking is off
because the bounds, or an empty crawl, end each behaviour; that nobody waits for ever is
what the liveness properties say.

**What the bounds hide.** `Spool.cfg` allows one fault. With two, `NoDocLost` fails: the
cursor file is not written (ignored by the code), the app restarts from the old cursor,
and add_batch fails after deleting the page's old version, of a document the engine has
already dropped. The theorem states the condition instead: a cursor file that can be
written. `Frontier.cfg` has one crash; the theorems have any number.

**Fairness.** Handoff: the ingest loop runs while the app does and an app that is exiting
exits; both are `WF`. Dispatch: goroutines run (`WF`), the scheduler's select and the mutex
do not starve one side for ever (`SF`: Go's select chooses at random among what is ready,
its mutex hands over to a waiter), requests end because each has a timeout, and time passes.
Robots: requests end, a stop that has begun goes on, the two steps of a button end, time
passes (`WF`); a goroutine that is offered `ctx.Done()` again and again leaves, and
discovery asks again and again (`SF`). Discovery: cycles go on (`WF`), the list's server
answers again and again, and as much of the body as the client reads arrives (`SF`;
`WalkOffersWhatFits` is not owed without it). Supervisor: processes and the supervise loop
run (`WF`); nobody quits the app, presses a button or crashes by fairness. Persist:
collector, stream and the second step of the reset run, a cached value ages (`WF`).
Lifecycle: a cancelled goroutine that is not blocked goes on (`WF`), and one whose select
offers `ctx.Done()` again and again takes it (`SF`); a goroutine that is not cancelled has
no fairness, so `StopReturns` owes nothing to it. Crashes, faults, buttons and calls are
never fair.

**Crashes.** A crash is the end of a process: Pebble's commits, `NoSync` ones too, survive it
because the operating system has them. A loss of power, which can take a suffix of the
unsynced commits, is not modelled. Tantivy's commit is atomic and durable.

## 4. What is proved

Every invariant and refinement that the runs check is also a theorem, so it holds for any
number of URLs, documents, hosts, workers, handlers, sessions, crashes, restarts and faults,
files and patterns; `PROJECT.json` lists theorem against property. Each proof module first
proves `TypeCorrect`, usually in a form with the finiteness of the sets that are counted,
and then the invariants below. The conjuncts named here were checked by TLC on the instances
of section 3 before they were proved.

**Frontier.**
- `LeaseKeysStayUnique`: two outstanding leases never share a number, and the next one drawn is
  free. `LeaseInv` adds that nothing is held while the crawl does not run and that a batch
  only releases what is held; the step that carries the argument is the sweep at Start,
  since a crash rolls the counter back.
- `NoWorkIsLost` and `ImplementsList`, for random bits that do not repeat. Both need that a
  batch under construction accounts for what it takes away (`BatchInv`): a lease it releases is
  pushed again or settled, a URL it sets to pending is pushed. A step of Frontier is a step
  of WorkList or a stutter, action by action.
- `RecrawlStaysScheduled`: the recrawl index has every finished page, but for the three ways
  that the history variable names: a crash or a failed Requeue after DueForRecrawl, and a
  completion inside ClearSeen.
- `PendingStaysExact`, with or without repeating bits: the counter and the adds still to come
  make the length of the queue, until one of the events that `drifted` names: an exit with an
  unsaved count or an add to come, a push or an open add across ClearQueue's `Store(0)`, a
  Lease of an entry that ClearQueue has deleted. Until then no number is in the queue and in a
  batch, or in two batches, and all were drawn already (`QueueInv`); so a push overwrites
  nothing. `NumberedCount` is the lemma that Requeue and the sweep push as many entries as
  they have leases.

**Spool.**
- `NoDocumentLost` and `HandoffImplemented`, assuming counters are exact when the engine ends
  (`~StaleCounters`) and the cursor file can be written (`~CursorWriteFails`). What has been
  acknowledged is at or below the cursor, what is at or below the cursor is in the index in
  that or a newer version, and what is staged beyond it is still in the spool. `SpoolCrash.cfg`
  shows that the first assumption is needed, section 3 that the second is. For the refinement
  `Versions` adds that index and writer hold published versions only: when a commit lets the
  index fall back, a version as new as the one it leaves is owed.
- `DepthIsCovered`, assuming exact counters only: a sequence the app can name is that of a
  document already applied, so a late ack never reaches into a batch, and head and tail
  bracket the spool (`Bracketed`).

**Dispatch.**
- `RingStaysExact`: the position and the hosts on the ring agree with the host table through
  the swap, the insertion and the tables thrown away (`RingInv`).
- `ItemsAreConserved`: the homes of an item (stock, tables, channels, workers, batch, hands of
  the scheduler and of each button, or let go by a Requeue that failed or a ClearQueue) are
  disjoint and complete, and `buffered` is the number of those in host queues (`Homes`,
  `Counted`). `TypeOK` (a counter not below zero) follows from it.
- `HostLoadIsBounded`: outstanding requests of a host are at most its entry's inflight plus `Burst`
  for each table thrown away (`Load`); it rests on jobs being distinct (`JobsApart`).

**Lifecycle.**
- `StoppedStaysQuiet`: when the crawler is not running, either no goroutine and no entry of the
  table is left, or a Stop is before the end of its wait, or the goroutines are gone and a
  Stop is cleaning up (`Quiet`). It does not speak of the channels (section 5).
- `NothingIsStuck`: at most one run is live (`OneRun`), and what a goroutine of a current run
  carries is leased and pending (`WorkInv`), as long as no Start overtook a Stop.
- `PendingIsAccounted`, without that condition: a pending URL is queued or leased on disk,
  whatever overlaps. No run lists it; it is the part of `NothingIsStuck` that always holds.

**Robots.**
- `RulesComeFromAnswers`: the records, what a worker carries and the copies all have an answer
  behind them (`Sourced`); the rules in use only come from those.
- `WaitingIsServed`: an entry that is fetching has a job that will set it, in a worker's hands
  or waiting in the run that goes on, unless a Start overtook a Stop. With `Orderly`: the
  Stops of all runs before are through then, and one that is through leaves no host waiting.
- `CopiesAgeOut`: a copy's origin is at most `TTL` older than the copy (`BornBefore`), and a copy
  is dropped at `TTL`.

**RobotsRules**, for the specification `RulesSpec` (a file read line by line), any characters,
files, patterns and paths. The theorems assume that rule lines carry patterns and the others
words (`LineType`), which is all `Lines` and `Paths` may be.
- `MatchingMeansPatterns`: the walk is never behind a layout of the parts that `Glob` accepts
  (`LayoutIsMatched`), and where it succeeds it is a layout itself, with an anchored last part
  moved to the end of the path (`MatchHasLayout`). One step of it is `AdvanceIs`.
- `RulesMeanTheFile`: the groups of the parser are the lines under each head, in the order of the
  heads, and `inAgents` says that an unbroken run of User-agent lines reaches the end
  (`Fits`, kept by every line: `ReadLineFits`). `ParseIs` then finds the same group as the
  reference, and `AllowedIs` the same answer from the longest matches; it rests on
  `MatchDecides`, the lemma behind the theorem above.
- The walk and the length of a pattern are recursive functions. That they exist, and what
  holds at every step, follows from `StepsReach`, induction stated for a set of numbers.

**Discovery.**
- `CursorNeverAhead`: what a cycle has read and not queued is in its hands (`RowsRead`), and
  the rank is written after Enqueue; a rank of another list is never saved under this one's name.
- `CycleKeepsItsLimit`: a source is asked for no more than what is left.

**Supervisor.**
- `ServingStaysFindable`: who is between the opening and the closing of the store holds the lock,
  and the file is the holder's if the holder could write it (`HoldersLock`, `OwnFile`). An
  engine whose write failed is not claimed to be found.
- `StopAlwaysHolds`: a stop whose request met no engine on its way launches none, and what is at
  the app's port goes down or hangs. Sessions draw their ports one after the other
  (`PortsDrawn`), so an app that knows no engine shares its port with none.

**Persist.**
- `SuppressionKeepsOne`: a fingerprint row speaks of a document in the index, but for rows set
  apart by a fault (`RowsTell`), and within a batch a page is handed on once.

**Assumptions on the constants**, as weak as the code justifies and evaluated by TLC in every
run: sizes and limits are natural numbers (positive where a zero is meaningless); the model
values for "nothing" (`Idle`, `NoItem`, `NoRecord`, `NoOne`, `None`) are none of the values they
stand beside; sets that are counted (`Items`, `Domains`) are finite.

**Only model-checked.** Liveness (`EveryDocIndexed`, `QueuedIsReported`, `StopReturns`,
`NewRulesReach`, `WalkOffersWhatFits`, `WantedIsServed`, `DashboardCatchesUp`), which the
prover does not reach.

## 5. Where the code differs from what it says

Shown by a run:

1. `SpoolCrash`: after a crash the saved spoolTail is behind; the sequence of a document nobody
   has read is drawn again, and the next document overwrites it ("a crash on either process
   replays rather than loses"). Likewise, though the run stops before it: a document that is
   given a number at or below the app's cursor is not read.
2. `RobotsTrouble`: a 5xx robots.txt denies everything once and permits everything for the
   24 hours after ("back off rather than assume permission").
3. `SupervisorReopen`: an app opened while the engine of the session before is starting never
   adopts it, and cannot start another ("adopts it or starts it").

In the models, without a run of their own (each is a state or a step that the properties
leave out, and their comments say so):

4. A page that a worker sends to the collector after the collector has left lies in a channel
   nobody reads; its outcome, links and document are lost, and its lease has it fetched again
   after the next Start (`crawler.go:822`: "so no work is lost on shutdown"). `StoppedIsQuiet`
   is about goroutines and table only.
5. A list longer than what the client reads of a body (`MaxPageBytes`, 3 MiB by default; a
   list's own `MaxBytes` has no reader) is walked up to the cut, and from there each cycle
   reads the same rows; a cut zip does not open at all (`discover.go:145`: "for the whole
   million"). `WalkOffersWhatFits` is about the rows before the cut.
6. A stop whose one request meets an engine that is starting, or is about to be spawned, leaves
   that engine running: the health check passes, and the flag is looked at only when it does
   not (`src/README.md:106`: "to stop it for good"). `StopHolds` excepts it (`missed`).
7. The pending counter goes off without a crash when a push commits, or has its add to come,
   while ClearQueue is between its deletes and its `Store(0)`; the code calls it approximate
   (`kv.go:110`). `PendingExact` excepts it (`drifted`).

Known limits, kept as the code has them:

- Frontier: after a crash key numbers are drawn again, and a queue entry is overwritten if
  its 16 random bits repeat (`JitterRepeats`). Stop and DropBuffered requeue URLs and leave
  their leases, which the next Start sweeps, so a URL can be queued, and fetched, twice;
  ReseedNow requeues seeds that are being fetched. A Requeue that fails leaves only the
  leases. The refinement's `Todo` is a set: it does not count how often a URL is queued.
- Spool: documents whose ack is lost stay in the spool until a later ack.
- Dispatch: `HostLoadBounded` allows `Burst` for each table thrown away, because the load of
  the old table is forgotten with it (`src/README.md:201` says one request per host at a
  time); `PerHostBurst` is a constant here and may be lowered at run time in the code; a
  parked host whose other request succeeds keeps its new URLs until it fails again; a host's
  delay counts from the pick, so two requests can be closer; 429 and 503 are retried without
  a count.
- Lifecycle: a stop records the pages being fetched as dead.
- Robots: a Start that overtakes a Stop may leave a host waiting for rules nobody fetches,
  with a slot taken, until its table is thrown away (`overlapped` in `FetchingIsServed`); a
  request cancelled by a stop, and one that found no network, leave a record that permits
  everything for 24 hours; hosts made ready while robots.txt was ignored stay so; the rules
  in the host table are never refreshed while their entry lives (`src/README.md:200` says
  24 h); a discovery copy may go by an answer almost 48 hours old (`CopyAgeBounded` is the
  bound); ClearRobots leaves discovery's copies. Of several groups that name us alike only the
  first is read. A record that cannot be written is not modelled.
- Discovery: Tranco asks for all that is left of the limit, so the user's feeds are asked
  only in cycles where it gives less; rows that are not domains move the rank on by nothing,
  so some domains are offered twice. Errors of the cursor's writes, which the code ignores,
  are not modelled, nor is Run's own cut-off, which has nothing to cut (`LimitKept`).
- Supervisor: an engine that could not write `runtime.json` serves on and is not found by the
  next session (`listed` in `ServingIsFindable`); an engine slower than its grace is killed
  and started again; a kill may hit an engine that is still closing its store; an adopted
  engine that hangs keeps the store (`Stranger` in `WantedIsServed`). Sessions draw different
  ports, and a port taken by somebody else is a Listen that fails.
- Persist: two copies in one batch are both kept; near copies that share no band, or lie
  beyond the row limit, are missed; an Apply that succeeds after a Complete that failed
  leaves a fingerprint without a document; an event overtaken between the stream's two
  reads is not sent, only later ones are (`DashboardCatchesUp` is about the latest). The
  pruning of documents and failed queries of the totals (`api.go:177`) are not modelled.

## 6. Plan

Done, in this order: Frontier with WorkList, Spool with Handoff, Dispatch, Lifecycle, the
proofs of the first two; then Robots with RobotsRules, Discovery, Supervisor, Persist.

Then the proofs: every invariant and refinement of Frontier, Spool, Dispatch, Lifecycle, Robots,
Discovery, Supervisor, Persist and RobotsRules.

Not modelled, and why:
- **Notifications**: one goroutine that reads rates once a minute and posts to an outside
  endpoint; nothing depends on it.
- **URL normalisation, extraction, classification, geolocation**: pure functions of one string
  or page, character by character; URLs and fingerprints are values here, and what the
  others return is a choice.
- **Search and ranking**: queries on a committed index, float formulas, no state.
- **User interface**: its buttons are the operator actions of the modules.
- **The configuration's read-modify-write** (two requests at once, the last one wins) and
  `config.Sanitize`, which clamps each field by itself.
- **Two collectors on one spool**, possible while a Start overlaps a Stop (Lifecycle's
  `overlapped`): Spool has one.
- **Rates and Spark** of the metrics, single SQL queries, Vacuum and PruneMetrics.
