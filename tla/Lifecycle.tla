----------------------------- MODULE Lifecycle ------------------------------
(***************************************************************************)
(* Starting and stopping the crawl: Start, Stop and the restart inside     *)
(* SetConfig (internal/crawl/crawler.go), called by concurrent API         *)
(* handlers, and the goroutines of a run with their context, channels and  *)
(* wait group.  What a run does to a URL is kept to lease, dispatch, fetch *)
(* and record: the host table is a set, Dispatch.tla has it in full.  The  *)
(* maintenance goroutine holds no lease and is left out; a pause is a      *)
(* scheduler that takes no step.                                           *)
(*                                                                         *)
(* Start replaces the fields c.work and c.results without telling the      *)
(* goroutines of an earlier run, which read them again on every turn of    *)
(* their loops: such a goroutine may use the channels of its own run or of *)
(* any later one.                                                          *)
(***************************************************************************)
EXTENDS Integers, FiniteSets

CONSTANTS
  Urls,              \* the URLs to crawl
  Callers,           \* API handlers that run at the same time
  Workers,           \* goroutines that fetch, in each run
  Slots,             \* room in a results channel (8192)
  MaxCalls,          \* bound: calls of Start, Stop and SetConfig
  MaxLeases          \* bound: leases drawn

ASSUME SizesAssumption ==
  Workers \in Nat \ {0} /\ Slots \in Nat \ {0} /\ MaxCalls \in Nat /\ MaxLeases \in Nat

VARIABLES
  seen, queue,       \* on disk: the state of a URL, and its entries in the queue
  leases, seq,       \* on disk: the leases; the last lease number
  table,             \* leased URLs in the host table
  running,           \* c.running
  run,               \* the number of the latest run: c.cancel, c.work, c.results
  cancelled,         \* runs whose context is cancelled
  procs,             \* the goroutines alive; the wait group counts them
  work, results,     \* the channels of each run
  calls,             \* the API handlers, and how far they are; and how many began
  overlapped         \* history: did a Start happen before a Stop was through?

disk == <<seen, queue, leases, seq>>
vars == <<disk, table, running, run, cancelled, procs, work, results, calls,
          overlapped>>

-----------------------------------------------------------------------------
Runs  == 1 .. MaxCalls
Scheduler == 0
Collector == -1
Roles == {Scheduler, Collector} \union (1 .. Workers)

\* A leased URL on its way, and what has become of it.
Outcomes == {"none", "done", "dead", "cancelled", "retry"}
Lease(u, n)  == [url |-> u, n |-> n, outcome |-> "none"]
LeaseType    == [url : Urls, n : Nat, outcome : Outcomes]
Bare(l)      == Lease(l.url, l.n)

ProcType == [run : Runs, role : Roles, has : SUBSET LeaseType]

\* A handler between two steps: where it is, the run whose cancel it took, whether it
\* starts the crawler again, what it will requeue.
CallType ==
  [at : {"idle", "stop", "cancel", "wait", "clean", "requeue", "start"},
   run : 0 .. MaxCalls, again : BOOLEAN, back : SUBSET LeaseType]
Idle == [at |-> "idle", run |-> 0, again |-> FALSE, back |-> {}]

Init ==
  /\ seen = [u \in Urls |-> "pending"] /\ queue = [u \in Urls |-> 1]
  /\ leases = {} /\ seq = 0 /\ table = {}
  /\ running = FALSE /\ run = 0 /\ cancelled = {} /\ procs = {}
  /\ work = [r \in Runs |-> {}] /\ results = [r \in Runs |-> {}]
  /\ calls = [of |-> [c \in Callers |-> Idle], made |-> 0]
  /\ overlapped = FALSE

\* The channels a goroutine of run r may find in the crawler's fields.
Visible(r) == r .. run

Become(p, has) == procs' = (procs \ {p}) \union {[p EXCEPT !.has = has]}

-----------------------------------------------------------------------------
(* The scheduler.  A cancelled one may still find a ticker ready first.    *)

\* Mutated form of Refill: it leases what is not there.
RefillUnchecked(p, u) ==
  /\ p.role = Scheduler /\ p.has = {}
  /\ seq < MaxLeases
  /\ seq' = seq + 1
  /\ leases' = leases \union {Lease(u, seq')}
  /\ queue' = [queue EXCEPT ![u] = @ - 1]
  /\ table' = table \union {Lease(u, seq')}
  /\ UNCHANGED <<seen, running, run, cancelled, procs, work, results, calls, overlapped>>

Refill(p, u) ==
  /\ p.role = Scheduler /\ p.has = {}
  /\ queue[u] > 0
  /\ seq < MaxLeases
  /\ seq' = seq + 1
  /\ leases' = leases \union {Lease(u, seq')}
  /\ queue' = [queue EXCEPT ![u] = @ - 1]
  /\ table' = table \union {Lease(u, seq')}
  /\ UNCHANGED <<seen, running, run, cancelled, procs, work, results, calls, overlapped>>

Pick(p, some) ==
  /\ p.role = Scheduler /\ p.has = {}
  /\ some # {} /\ some \subseteq table
  /\ table' = table \ some
  /\ Become(p, some)
  /\ UNCHANGED <<disk, running, run, cancelled, work, results, calls, overlapped>>

Dispatch(p, l, r) ==
  /\ p.role = Scheduler /\ l \in p.has
  /\ r \in Visible(p.run)
  /\ Cardinality(work[r]) < 2 * Workers
  /\ work' = [work EXCEPT ![r] = @ \union {l}]
  /\ Become(p, p.has \ {l})
  /\ UNCHANGED <<disk, table, running, run, cancelled, results, calls, overlapped>>

-----------------------------------------------------------------------------
(* A worker: `has` is its job, then its result.                            *)

\* A request made under a cancelled context fails at once.
Begun(p, j) == IF p.run \in cancelled THEN [j EXCEPT !.outcome = "cancelled"] ELSE j

Take(p, j, r) ==
  /\ p.role \in 1 .. Workers /\ p.has = {}
  /\ r \in Visible(p.run)
  /\ j \in work[r]
  /\ work' = [work EXCEPT ![r] = @ \ {j}]
  /\ Become(p, {Begun(p, j)})
  /\ UNCHANGED <<disk, table, running, run, cancelled, results, calls, overlapped>>

\* fetchPage returns; one that is cancelled under way may have ended before.
Fetched(p, j, outcome) ==
  /\ p.role \in 1 .. Workers
  /\ p.has = {j} /\ j.outcome = "none"
  /\ outcome = "cancelled" => p.run \in cancelled
  /\ Become(p, {[j EXCEPT !.outcome = outcome]})
  /\ UNCHANGED <<disk, table, running, run, cancelled, work, results, calls, overlapped>>

Send(p, j, r) ==
  /\ p.role \in 1 .. Workers
  /\ p.has = {j} /\ j.outcome # "none"
  /\ r \in Visible(p.run)
  /\ Cardinality(results[r]) < Slots
  /\ results' = [results EXCEPT ![r] = @ \union {j}]
  /\ Become(p, {})
  /\ UNCHANGED <<disk, table, running, run, cancelled, work, calls, overlapped>>

\* Mutated form of Leave: a blocked send does not look at the context.
LeaveUnlessBlocked(p) ==
  /\ p.run \in cancelled
  /\ p.role # Collector
  /\ p.has = {}
  /\ procs' = procs \ {p}
  /\ UNCHANGED <<disk, table, running, run, cancelled, work, results, calls, overlapped>>

\* ctx.Done() wins in a select: in the loop, or where a job or result is being sent,
\* which is then forgotten.
Leave(p) ==
  /\ p.run \in cancelled
  /\ p.role # Collector
  /\ p.role \in 1 .. Workers => \A j \in p.has : j.outcome # "none"
  /\ procs' = procs \ {p}
  /\ UNCHANGED <<disk, table, running, run, cancelled, work, results, calls, overlapped>>

-----------------------------------------------------------------------------
(* The collector.                                                          *)

Collect(p, j, r) ==
  /\ p.role = Collector
  /\ r \in Visible(p.run)
  /\ j \in results[r]
  /\ results' = [results EXCEPT ![r] = @ \ {j}]
  /\ Become(p, p.has \union {j})
  /\ UNCHANGED <<disk, table, running, run, cancelled, work, calls, overlapped>>

\* Complete: leases released, outcomes recorded, retries queued again.
Complete(batch) ==
  LET of(outcome) == {j.url : j \in {k \in batch : k.outcome = outcome}} IN
  /\ leases' = {l \in leases : \A j \in batch : j.n # l.n}
  /\ seen' = [u \in Urls |-> CASE u \in of("done") -> "done"
                               [] u \in of("dead") \union of("cancelled") -> "dead"
                               [] OTHER -> seen[u]]
  /\ queue' = [u \in Urls |->
                 queue[u] + Cardinality({j \in batch : j.url = u /\ j.outcome = "retry"})]
  /\ UNCHANGED seq

Persist(p) ==
  /\ p.role = Collector /\ p.has # {}
  /\ Complete(p.has)
  /\ Become(p, {})
  /\ UNCHANGED <<table, running, run, cancelled, work, results, calls, overlapped>>

\* Cancelled: the channel is empty, the last batch is recorded, the collector returns.
Drained(p, r) ==
  /\ p.role = Collector
  /\ p.run \in cancelled
  /\ r \in Visible(p.run)
  /\ results[r] = {}
  /\ Complete(p.has)
  /\ procs' = procs \ {p}
  /\ UNCHANGED <<table, running, run, cancelled, work, results, calls, overlapped>>

-----------------------------------------------------------------------------
(* The API handlers.                                                       *)

Step(c, call) == calls' = [calls EXCEPT !.of[c] = call]
At(c, where) == calls.of[c].at = where
Stopping == {c \in Callers : calls.of[c].at \in {"cancel", "wait", "clean", "requeue"}}

\* A handler begins: Start ("start" and "resume"), Stop, or SetConfig with another
\* number of workers, which restarts a crawler that is running.
Call(c) ==
  /\ At(c, "idle")
  /\ calls.made < MaxCalls
  /\ \E call \in {[Idle EXCEPT !.at = "start"], [Idle EXCEPT !.at = "stop"],
                  [Idle EXCEPT !.at = "stop", !.again = TRUE]} :
       /\ call.again => running
       /\ calls' = [of |-> [calls.of EXCEPT ![c] = call], made |-> calls.made + 1]
  /\ UNCHANGED <<disk, table, running, run, cancelled, procs, work, results, overlapped>>

\* Mutated form of SweepLeases: nothing is recovered.
SweepNothing == UNCHANGED <<queue, leases>>

SweepLeases ==
  /\ queue' = [u \in Urls |-> queue[u] + Cardinality({l \in leases : l.url = u})]
  /\ leases' = {}

\* Start, all of it under runMu.
Start(c) ==
  /\ At(c, "start")
  /\ Step(c, Idle)
  /\ IF running THEN UNCHANGED <<queue, leases, running, run, procs, overlapped>>
     ELSE /\ SweepLeases
          /\ running' = TRUE
          /\ run' = run + 1
          /\ procs' = procs \union {[run |-> run + 1, role |-> x, has |-> {}] : x \in Roles}
          /\ overlapped' = (overlapped \/ Stopping # {})
  /\ UNCHANGED <<seen, seq, table, cancelled, work, results>>

AfterStop(c) ==
  IF calls.of[c].again THEN [Idle EXCEPT !.at = "start"] ELSE Idle

\* Stop, in the order of its code: the flag under runMu, then without it the cancel,
\* the wait, the table, the requeue.
StopFlag(c) ==
  /\ At(c, "stop")
  /\ running' = FALSE
  /\ Step(c, IF running THEN [calls.of[c] EXCEPT !.at = "cancel", !.run = run]
             ELSE AfterStop(c))
  /\ UNCHANGED <<disk, table, run, cancelled, procs, work, results, overlapped>>

StopCancel(c) ==
  /\ At(c, "cancel")
  /\ cancelled' = cancelled \union {calls.of[c].run}
  /\ Step(c, [calls.of[c] EXCEPT !.at = "wait"])
  /\ UNCHANGED <<disk, table, running, run, procs, work, results, overlapped>>

StopWait(c) ==
  /\ At(c, "wait")
  /\ procs = {}
  /\ Step(c, [calls.of[c] EXCEPT !.at = "clean"])
  /\ UNCHANGED <<disk, table, running, run, cancelled, procs, work, results, overlapped>>

\* Mutated form of StopClean: the table keeps its entries.
StopCleanCopies(c) ==
  /\ At(c, "clean")
  /\ Step(c, [calls.of[c] EXCEPT !.at = "requeue", !.back = table])
  /\ UNCHANGED <<disk, table, running, run, cancelled, procs, work, results, overlapped>>

StopClean(c) ==
  /\ At(c, "clean")
  /\ table' = {}
  /\ Step(c, [calls.of[c] EXCEPT !.at = "requeue", !.back = table])
  /\ UNCHANGED <<disk, running, run, cancelled, procs, work, results, overlapped>>

\* Requeue: the leases stay.
Requeue(back) ==
  /\ queue' = [u \in Urls |-> queue[u] + Cardinality({l \in back : l.url = u})]
  /\ seen' = [u \in Urls |-> IF \E l \in back : l.url = u THEN "pending" ELSE seen[u]]

\* If it fails, that is logged, and the leases are all that is left.
StopRequeue(c) ==
  /\ At(c, "requeue")
  /\ Requeue(calls.of[c].back) \/ UNCHANGED <<queue, seen>>
  /\ Step(c, AfterStop(c))
  /\ UNCHANGED <<leases, seq, table, running, run, cancelled, procs, work, results,
                 overlapped>>

-----------------------------------------------------------------------------
StopStep(c) == StopFlag(c) \/ StopCancel(c) \/ StopWait(c) \/ StopClean(c) \/ StopRequeue(c)

SchedulerStep(p) ==
  \/ \E u \in Urls : Refill(p, u)
  \/ \E some \in SUBSET table : Pick(p, some)
  \/ \E l \in p.has, r \in Runs : Dispatch(p, l, r)

WorkerStep(p) ==
  \/ \E r \in Runs : \E j \in work[r] : Take(p, j, r)
  \/ \E j \in p.has :
       \/ \E outcome \in Outcomes \ {"none"} : Fetched(p, j, outcome)
       \/ \E r \in Runs : Send(p, j, r)

CollectorStep(p) ==
  \/ \E r \in Runs : \E j \in results[r] : Collect(p, j, r)
  \/ Persist(p)
  \/ \E r \in Runs : Drained(p, r)

Next ==
  \/ \E c \in Callers : Call(c) \/ Start(c) \/ StopStep(c)
  \/ \E p \in procs : SchedulerStep(p) \/ WorkerStep(p) \/ Leave(p) \/ CollectorStep(p)

Spec == Init /\ [][Next]_vars

\* Goroutines whose context is cancelled go on, unless they are blocked, and a select
\* that is always offered Done() takes it in the end.  The handlers go on.
Fairness ==
  /\ SF_vars(\E p \in procs : Leave(p))
  /\ WF_vars(\E p \in procs : /\ p.run \in cancelled
                              /\ \/ \E l \in p.has, r \in Runs : Dispatch(p, l, r)
                                 \/ \E j \in p.has, r \in Runs : Send(p, j, r)
                                 \/ \E j \in p.has, o \in Outcomes \ {"none"} : Fetched(p, j, o)
                                 \/ \E r \in Runs : \E j \in results[r] : Collect(p, j, r)
                                 \/ \E r \in Runs : Drained(p, r))
  /\ WF_vars(\E c \in Callers : Start(c) \/ StopStep(c))

FairSpec == Spec /\ Fairness

-----------------------------------------------------------------------------
(* Properties.                                                             *)

\* Every variable holds a value of its kind.
TypeOK ==
  /\ seen \in [Urls -> {"pending", "done", "dead"}] /\ queue \in [Urls -> Nat]
  /\ leases \subseteq LeaseType /\ seq \in Nat /\ table \subseteq LeaseType
  /\ running \in BOOLEAN /\ run \in 0 .. MaxCalls /\ cancelled \subseteq Runs
  /\ procs \subseteq ProcType
  /\ work \in [Runs -> SUBSET LeaseType] /\ results \in [Runs -> SUBSET LeaseType]
  /\ calls \in [of : [Callers -> CallType], made : Nat]
  /\ overlapped \in BOOLEAN

\* When every Stop is through and the crawler is not running, no goroutine of any run is
\* left and the host table is empty, however calls overlapped: a Stop has waited for the
\* goroutines a Start added behind its flag, and taken what they put into the table.
\* (The channels of a run may hold more: a worker can send a page after the collector has
\* left, and nobody reads it.)
StoppedIsQuiet ==
  ~running /\ Stopping = {} => procs = {} /\ table = {}

\* In the hands of a goroutine of the current run, or of a channel it reads.
InHand(u) ==
  \/ \E l \in table \union work[run] \union results[run] : l.url = u
  \/ \E p \in procs : \E l \in p.has : l.url = u

\* While the crawler runs, a pending URL is queued or in the hands of the run: none sits
\* in a dead channel or under a forgotten lease until the next restart.  (A Start that
\* comes before the last Stop is through can leave one behind.)
NoStuckWork ==
  running /\ ~overlapped =>
    \A u \in Urls : seen[u] = "pending" => queue[u] > 0 \/ InHand(u)

\* A Stop comes back, unless the crawler is started again meanwhile: the wait group
\* counts the goroutines of every run.
StopReturns ==
  \A c \in Callers : At(c, "wait") ~> (~At(c, "wait") \/ running)
=============================================================================
