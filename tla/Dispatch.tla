------------------------------ MODULE Dispatch ------------------------------
(***************************************************************************)
(* How internal/crawl/crawler.go turns leased URLs into polite requests:   *)
(* the scheduler goroutine (refill and pick), the table of hosts and the   *)
(* ring under hostsMu, the work channel, the worker goroutines (fetchRobots*)
(* and fetchPage) and the results channel.  The maintenance buttons throw  *)
(* the table away while workers are busy.                                  *)
(*                                                                         *)
(* A step is a critical section of hostsMu, a channel operation, or what   *)
(* happens between two of them; the loops of pick and refill, which hold   *)
(* the mutex, take one step per host or item.  Sets stand for the channels:*)
(* the order inside them decides nothing here.  The durable queue is the   *)
(* set `stock`; Frontier.tla has it in full.  An item is an entry of that  *)
(* queue: when ReseedNow, a recrawl, or the sweep of the next Start over   *)
(* leases a button left behind, queues a URL that is under way already,    *)
(* the URL has two entries, and is two items here.                         *)
(***************************************************************************)
EXTENDS Integers, Sequences, FiniteSets

CONSTANTS
  Hosts, Items,      \* the hosts, and the queued URLs to crawl on them
  HostOf,            \* the host of each URL
  NoItem,            \* stands for the URL of a robots.txt job
  Burst,             \* PerHostBurst
  Workers,           \* Workers
  ResultsCap,        \* capacity of the results channel (8192)
  Target,            \* how many URLs refill keeps buffered
  MaxJobs,           \* jobs one pick may return (256)
  MaxFails,          \* maxHostFails
  RespectRobots,     \* the values RespectRobots takes; the user may change it any time
  Delay, MaxDelay,   \* the polite delay, and the longest that backoff makes it
  MaxFaults,         \* bound: failed and throttled fetches, failed writes
  MaxDrops           \* bound: times the host table is thrown away

ASSUME HostsAssumption ==
  /\ HostOf \in [Items -> Hosts]
  /\ IsFiniteSet(Items) /\ NoItem \notin Items
ASSUME LimitsAssumption ==
  /\ Burst \in Nat \ {0} /\ Workers \in Nat \ {0} /\ ResultsCap \in Nat \ {0}
  /\ Target \in Nat \ {0} /\ MaxJobs \in Nat \ {0} /\ MaxFails \in Nat \ {0}
  /\ RespectRobots \subseteq BOOLEAN
  /\ Delay \in Nat /\ MaxDelay \in Nat /\ Delay <= MaxDelay
  /\ MaxFaults \in Nat /\ MaxDrops \in Nat

VARIABLES
  hosts,             \* the host table: an entry, or Absent, for each host
  ring, ringPos,     \* hosts with queued URLs, and where pick goes on (from 0)
  buffered,          \* the counter of queued URLs
  stock,             \* URLs in the durable queue
  leased,            \* URLs refill has leased and not put in the table yet
  sched,             \* what the scheduler is doing
  scanned, lap,      \* pick's loop: hosts visited, hosts to visit
  jobs, drops,       \* what pick returned and the scheduler has not sent yet
  work,              \* the work channel
  busy,              \* the jobs workers have, and how far they are
  results,           \* the results channel
  settled,           \* URLs whose outcome is recorded, or that the user threw away
  clearing,          \* how far ClearQueue is
  back,              \* what each DropBuffered has taken and not requeued yet
  dropped,           \* URLs nobody has: at most a lease is left, for the next Start
  tables, faults     \* bounds: host tables thrown away, bad fetches

table     == <<hosts, ring, ringPos, buffered>>
scheduler == <<leased, sched, scanned, lap, jobs, drops>>
pool      == <<work, busy, results>>
buttons   == <<clearing, back, dropped>>
durable   == <<stock, settled, buttons>>
vars      == <<table, scheduler, pool, durable, tables, faults>>

-----------------------------------------------------------------------------
EntryType ==
  [state : {"absent", "needRobots", "fetchingRobots", "ready", "parked"},
   queue : Seq(Items), inflight : Nat, wait : 0 .. MaxDelay, fails : Nat,
   inRing : BOOLEAN]

Absent == [state |-> "absent", queue |-> <<>>, inflight |-> 0, wait |-> 0,
           fails |-> 0, inRing |-> FALSE]

\* hostLocked: the entry of a host, made if there is none.
HostLocked(h) ==
  IF hosts[h] = Absent THEN [Absent EXCEPT !.state = "needRobots"] ELSE hosts[h]

\* A job; robots.txt jobs have no URL.  The code does not remember which table a
\* job came from: here that tells two robots.txt jobs of one host apart.
JobType == [host : Hosts, item : Items \union {NoItem}, table : Nat]
Job(h, i) == [host |-> h, item |-> i, table |-> tables]

BusyType == [job : JobType, phase : {"fetch", "throttled", "retry", "done"}]
ResultType == [item : Items, retry : BOOLEAN]

Init ==
  /\ hosts = [h \in Hosts |-> Absent]
  /\ ring = <<>> /\ ringPos = 0 /\ buffered = 0
  /\ stock = Items /\ leased = {} /\ settled = {}
  /\ clearing = "no" /\ back = {} /\ dropped = {}
  /\ sched = "idle" /\ scanned = 0 /\ lap = 0
  /\ jobs = {} /\ drops = {} /\ work = {} /\ busy = {} /\ results = {}
  /\ tables = 0 /\ faults = 0

\* pick and the insertion loop of refill hold hostsMu throughout.
Unlocked == sched \notin {"pick", "insert"}

-----------------------------------------------------------------------------
(* refill                                                                  *)

\* The counter is read, and Lease called, without the mutex held in between.
RefillLease ==
  /\ sched = "idle"
  /\ buffered < Target
  /\ stock # {}
  /\ \E some \in SUBSET stock :
       /\ \/ Cardinality(some) = Target - buffered
          \/ Cardinality(some) < Target - buffered /\ some = stock
       /\ leased' = some
       /\ stock' = stock \ some
  /\ sched' = "leased"
  /\ UNCHANGED <<table, scanned, lap, jobs, drops, pool, settled, buttons, tables,
                 faults>>

\* Mutated form of RefillInsert: a host is put on the ring again for every URL.
RefillInsertAlways(i) ==
  LET h == HostOf[i] IN
  /\ sched \in {"leased", "insert"}
  /\ i \in leased
  /\ leased' = leased \ {i}
  /\ sched' = IF leased = {i} THEN "idle" ELSE "insert"
  /\ hosts' = [hosts EXCEPT ![h] = [HostLocked(h) EXCEPT !.queue = Append(@, i),
                                                         !.inRing = TRUE]]
  /\ ring' = Append(ring, h)
  /\ buffered' = buffered + 1
  /\ UNCHANGED <<ringPos, scanned, lap, jobs, drops, pool, durable, tables, faults>>

RefillInsert(i) ==
  LET h == HostOf[i] IN
  /\ sched \in {"leased", "insert"}
  /\ i \in leased
  /\ leased' = leased \ {i}
  /\ sched' = IF leased = {i} THEN "idle" ELSE "insert"
  /\ hosts' = [hosts EXCEPT ![h] = [HostLocked(h) EXCEPT !.queue = Append(@, i),
                                                         !.inRing = TRUE]]
  /\ ring' = IF hosts[h].inRing THEN ring ELSE Append(ring, h)
  /\ buffered' = buffered + 1
  /\ UNCHANGED <<ringPos, scanned, lap, jobs, drops, pool, durable, tables, faults>>

-----------------------------------------------------------------------------
(* pick: one lap of the ring.                                              *)

PickBegin ==
  /\ sched = "idle"
  /\ ring # <<>>
  /\ sched' = "pick"
  /\ scanned' = 0 /\ lap' = Len(ring)
  /\ UNCHANGED <<table, leased, jobs, drops, pool, durable, tables, faults>>

Pos == IF ringPos >= Len(ring) THEN 0 ELSE ringPos

\* The host pick looks at.
Visiting(h) ==
  /\ sched = "pick"
  /\ scanned < lap
  /\ Cardinality(jobs) < MaxJobs
  /\ ring[Pos + 1] = h
  /\ scanned' = scanned + 1
  /\ UNCHANGED <<sched, leased, pool, durable, tables, faults>>

NextHost == ringPos' = Pos + 1 /\ UNCHANGED <<ring, lap>>
SameHost == ringPos' = Pos /\ UNCHANGED <<ring, lap>>

\* removeFromRingLocked, and the shorter lap.
RemoveFromRing ==
  LET last == Len(ring) - 1 IN
  /\ ring' = [n \in 1 .. last |-> IF n = Pos + 1 THEN ring[Len(ring)] ELSE ring[n]]
  /\ ringPos' = IF Pos > last THEN 0 ELSE Pos
  /\ lap' = last

PickEmpty(h) ==
  /\ Visiting(h)
  /\ hosts[h].queue = <<>>
  /\ RemoveFromRing
  /\ hosts' = IF hosts[h] = Absent THEN hosts ELSE [hosts EXCEPT ![h].inRing = FALSE]
  /\ UNCHANGED <<buffered, jobs, drops>>

Failing(h) == hosts[h].queue # <<>> /\ hosts[h].fails >= MaxFails

\* A host that failed too often: everything queued for it is given up.
PickFailing(h) ==
  /\ Visiting(h)
  /\ Failing(h)
  /\ drops' = drops \union {hosts[h].queue[n] : n \in DOMAIN hosts[h].queue}
  /\ buffered' = buffered - Len(hosts[h].queue)
  /\ hosts' = [hosts EXCEPT ![h].queue = <<>>, ![h].state = "parked", ![h].inRing = FALSE]
  /\ RemoveFromRing
  /\ UNCHANGED jobs

Eligible(h) ==
  /\ hosts[h].queue # <<>>
  /\ hosts[h].fails < MaxFails
  /\ hosts[h].wait = 0
  /\ hosts[h].inflight < Burst

\* Too early, or enough in flight, or nothing to do for a host in this state.
PickPass(h) ==
  /\ Visiting(h)
  /\ hosts[h].queue # <<>>
  /\ hosts[h].fails < MaxFails
  /\ ~Eligible(h) \/ hosts[h].state \in {"fetchingRobots", "parked"}
  /\ NextHost
  /\ UNCHANGED <<hosts, buffered, jobs, drops>>

PickNoRobots(h) ==
  /\ Visiting(h)
  /\ Eligible(h)
  /\ hosts[h].state = "needRobots"
  /\ FALSE \in RespectRobots
  /\ hosts' = [hosts EXCEPT ![h].state = "ready"]
  /\ SameHost
  /\ UNCHANGED <<buffered, jobs, drops>>

PickRobots(h) ==
  /\ Visiting(h)
  /\ Eligible(h)
  /\ hosts[h].state = "needRobots"
  /\ TRUE \in RespectRobots
  /\ hosts' = [hosts EXCEPT ![h].state = "fetchingRobots", ![h].inflight = @ + 1]
  /\ jobs' = jobs \union {Job(h, NoItem)}
  /\ SameHost
  /\ UNCHANGED <<buffered, drops>>

\* shouldSkip: the policy forbids the URL.
PickSkip(h) ==
  /\ Visiting(h)
  /\ Eligible(h)
  /\ hosts[h].state = "ready"
  /\ hosts' = [hosts EXCEPT ![h].queue = Tail(@)]
  /\ buffered' = buffered - 1
  /\ drops' = drops \union {Head(hosts[h].queue)}
  /\ SameHost
  /\ UNCHANGED jobs

\* Mutated form of PickPage: the request is not counted as in flight.
PickPageUncounted(h, d) ==
  /\ Visiting(h)
  /\ Eligible(h)
  /\ hosts[h].state = "ready"
  /\ hosts' = [hosts EXCEPT ![h].queue = Tail(@), ![h].wait = d]
  /\ buffered' = buffered - 1
  /\ jobs' = jobs \union {Job(h, Head(hosts[h].queue))}
  /\ NextHost
  /\ UNCHANGED drops

PickPage(h, d) ==
  /\ Visiting(h)
  /\ Eligible(h)
  /\ hosts[h].state = "ready"
  /\ hosts' = [hosts EXCEPT ![h].queue = Tail(@), ![h].inflight = @ + 1, ![h].wait = d]
  /\ buffered' = buffered - 1
  /\ jobs' = jobs \union {Job(h, Head(hosts[h].queue))}
  /\ NextHost
  /\ UNCHANGED drops

PickEnd ==
  /\ sched = "pick"
  /\ scanned >= lap \/ Cardinality(jobs) >= MaxJobs
  /\ sched' = IF jobs = {} /\ drops = {} THEN "idle" ELSE "send"
  /\ scanned' = 0 /\ lap' = 0
  /\ UNCHANGED <<table, leased, jobs, drops, pool, durable, tables, faults>>

\* The scheduler sends the drops, then the jobs, and waits for room.
SendDrop(i) ==
  /\ sched = "send"
  /\ i \in drops
  /\ Cardinality(results) < ResultsCap
  /\ results' = results \union {[item |-> i, retry |-> FALSE]}
  /\ drops' = drops \ {i}
  /\ sched' = IF drops = {i} /\ jobs = {} THEN "idle" ELSE "send"
  /\ UNCHANGED <<table, leased, scanned, lap, jobs, work, busy, durable, tables,
                 faults>>

SendJob(j) ==
  /\ sched = "send"
  /\ drops = {}
  /\ j \in jobs
  /\ Cardinality(work) < 2 * Workers
  /\ work' = work \union {j}
  /\ jobs' = jobs \ {j}
  /\ sched' = IF jobs = {j} THEN "idle" ELSE "send"
  /\ UNCHANGED <<table, leased, scanned, lap, drops, busy, results, durable, tables,
                 faults>>

-----------------------------------------------------------------------------
(* The workers.                                                            *)

Take(j) ==
  /\ j \in work
  /\ Cardinality(busy) < Workers
  /\ work' = work \ {j}
  /\ busy' = busy \union {[job |-> j, phase |-> "fetch"]}
  /\ UNCHANGED <<table, scheduler, results, durable, tables, faults>>

\* Mutated form of Release: nothing stops the count at zero.
ReleaseUnclamped(h) == hosts[h].inflight - 1

Release(h) == IF hosts[h].inflight > 0 THEN hosts[h].inflight - 1 ELSE 0

\* Mutated form of RobotsDone: the rules arrive and the slot is not given back.
RobotsDoneKept(b, d) ==
  LET h == b.job.host IN
  /\ Unlocked
  /\ b \in busy
  /\ b.job.item = NoItem
  /\ busy' = busy \ {b}
  /\ hosts' = IF hosts[h] = Absent THEN hosts
              ELSE [hosts EXCEPT ![h].state = "ready", ![h].wait = d]
  /\ UNCHANGED <<ring, ringPos, buffered, scheduler, work, results, durable, tables,
                 faults>>

\* fetchRobots ends, from the cache or the network: the rules go into whatever
\* entry the host has by now.
RobotsDone(b, d) ==
  LET h == b.job.host IN
  /\ Unlocked
  /\ b \in busy
  /\ b.job.item = NoItem
  /\ busy' = busy \ {b}
  /\ hosts' = IF hosts[h] = Absent THEN hosts
              ELSE [hosts EXCEPT ![h].state = "ready", ![h].inflight = Release(h),
                                 ![h].wait = d]
  /\ UNCHANGED <<ring, ringPos, buffered, scheduler, work, results, durable, tables,
                 faults>>

\* The request of fetchPage ends and hostDone gives the slot back.  A 429 is
\* throttled, a 503 is throttled and failed, a 500 or an error only failed.
PageDone(b, failed, throttled) ==
  LET h == b.job.host IN
  /\ Unlocked
  /\ b \in busy
  /\ b.phase = "fetch"
  /\ b.job.item # NoItem
  /\ IF failed \/ throttled THEN faults < MaxFaults /\ faults' = faults + 1
     ELSE UNCHANGED faults
  /\ busy' = (busy \ {b}) \union
             {[b EXCEPT !.phase = IF throttled THEN "throttled" ELSE "done"]}
  /\ hosts' = IF hosts[h] = Absent THEN hosts
              ELSE [hosts EXCEPT ![h].inflight = Release(h),
                                 ![h].fails = IF failed THEN @ + 1 ELSE 0]
  /\ UNCHANGED <<ring, ringPos, buffered, scheduler, work, results, durable, tables>>

\* A throttled host is pushed into the future, in a later critical section.
Penalize(b) ==
  LET h == b.job.host IN
  /\ Unlocked
  /\ b \in busy
  /\ b.phase = "throttled"
  /\ busy' = (busy \ {b}) \union {[b EXCEPT !.phase = "retry"]}
  /\ hosts' = IF hosts[h] = Absent THEN hosts ELSE [hosts EXCEPT ![h].wait = MaxDelay]
  /\ UNCHANGED <<ring, ringPos, buffered, scheduler, work, results, durable, tables,
                 faults>>

Report(b) ==
  /\ b \in busy
  /\ b.phase \in {"retry", "done"}
  /\ Cardinality(results) < ResultsCap
  /\ results' = results \union {[item |-> b.job.item, retry |-> b.phase = "retry"]}
  /\ busy' = busy \ {b}
  /\ UNCHANGED <<table, scheduler, work, durable, tables, faults>>

\* The collector hands an outcome to the frontier, which queues a retry again.
Collect(r) ==
  /\ r \in results
  /\ results' = results \ {r}
  /\ IF r.retry THEN stock' = stock \union {r.item} /\ UNCHANGED settled
     ELSE settled' = settled \union {r.item} /\ UNCHANGED stock
  /\ UNCHANGED <<table, scheduler, work, busy, buttons, tables, faults>>

-----------------------------------------------------------------------------
(* The maintenance buttons.                                                *)

Queued == {i \in Items : \E h \in Hosts : \E n \in DOMAIN hosts[h].queue : hosts[h].queue[n] = i}

\* The host table is replaced by an empty one.
NewTable ==
  /\ Unlocked
  /\ tables' = tables + 1
  /\ hosts' = [h \in Hosts |-> Absent]
  /\ ring' = <<>> /\ ringPos' = 0 /\ buffered' = 0
  /\ UNCHANGED <<scheduler, pool, faults>>

\* Mutated form of DropBuffered: the URLs are not kept for the requeue.
DropBufferedLost ==
  /\ tables < MaxDrops
  /\ NewTable
  /\ UNCHANGED durable

\* ForgetHosts, FreeMemory, ClearRobots: under hostsMu the URLs go into the caller's
\* hands...
DropBuffered ==
  /\ tables < MaxDrops
  /\ NewTable
  /\ back' = IF Queued = {} THEN back ELSE back \union {Queued}
  /\ UNCHANGED <<stock, settled, clearing, dropped>>

\* ... and after it is unlocked into the durable queue,
RequeueBack(some) ==
  /\ some \in back
  /\ back' = back \ {some}
  /\ stock' = stock \union some
  /\ UNCHANGED <<table, scheduler, pool, settled, clearing, dropped, tables, faults>>

\* unless Requeue fails, which is only logged.
RequeueBackFails(some) ==
  /\ some \in back
  /\ faults < MaxFaults
  /\ faults' = faults + 1
  /\ back' = back \ {some}
  /\ dropped' = dropped \union some
  /\ UNCHANGED <<table, scheduler, pool, stock, settled, clearing, tables>>

\* ClearQueue: the table, the durable queue with the leases, the table again.
ClearQueueBegin ==
  /\ clearing = "no"
  /\ tables < MaxDrops
  /\ NewTable
  /\ dropped' = dropped \union Queued
  /\ clearing' = "store"
  /\ UNCHANGED <<stock, settled, back>>

ClearQueueStore ==
  /\ clearing = "store"
  /\ settled' = settled \union stock \union dropped
  /\ stock' = {} /\ dropped' = {}
  /\ clearing' = "again"
  /\ UNCHANGED <<table, scheduler, pool, back, tables, faults>>

\* One of the two range deletions fails: nothing more is done.
ClearQueueFails ==
  /\ clearing = "store"
  /\ faults < MaxFaults
  /\ faults' = faults + 1
  /\ clearing' = "no"
  /\ \/ UNCHANGED <<stock, settled>>
     \/ stock' = {} /\ settled' = settled \union stock
  /\ UNCHANGED <<table, scheduler, pool, back, dropped, tables>>

ClearQueueEnd ==
  /\ clearing = "again"
  /\ NewTable
  /\ dropped' = dropped \union Queued
  /\ clearing' = "no"
  /\ UNCHANGED <<stock, settled, back>>

\* Time passes; pick reads the clock once.
Tick ==
  /\ Unlocked
  /\ \E h \in Hosts : hosts[h].wait > 0
  /\ hosts' = [h \in Hosts |-> [hosts[h] EXCEPT !.wait = IF @ > 0 THEN @ - 1 ELSE 0]]
  /\ UNCHANGED <<ring, ringPos, buffered, scheduler, pool, durable, tables, faults>>

-----------------------------------------------------------------------------
PickVisit ==
  \E h \in Hosts :
    \/ PickEmpty(h) \/ PickFailing(h) \/ PickPass(h) \/ PickNoRobots(h) \/ PickRobots(h)
    \/ PickSkip(h)
    \/ \E d \in Delay .. MaxDelay : PickPage(h, d)

Scheduler ==
  \/ \E i \in leased : RefillInsert(i)
  \/ PickVisit \/ PickEnd
  \/ \E i \in drops : SendDrop(i)
  \/ \E j \in jobs : SendJob(j)

Worker(b) ==
  \/ \E d \in Delay .. MaxDelay : RobotsDone(b, d)
  \/ \E failed, throttled \in BOOLEAN : PageDone(b, failed, throttled)
  \/ Penalize(b)
  \/ Report(b)

Next ==
  \/ RefillLease \/ PickBegin \/ Scheduler
  \/ \E j \in work : Take(j)
  \/ \E b \in busy : Worker(b)
  \/ \E r \in results : Collect(r)
  \/ DropBuffered
  \/ \E some \in back : RequeueBack(some) \/ RequeueBackFails(some)
  \/ ClearQueueBegin \/ ClearQueueStore \/ ClearQueueFails \/ ClearQueueEnd
  \/ Tick

Spec == Init /\ [][Next]_vars

\* The goroutines keep running and both tickers of the scheduler keep firing, every
\* request ends (it has a timeout), a mutex is not withheld forever, time passes.
Fairness ==
  /\ SF_vars(RefillLease) /\ SF_vars(PickBegin)
  /\ WF_vars(Scheduler)
  /\ WF_vars(\E j \in work : Take(j))
  /\ SF_vars(\E b \in busy : Worker(b))
  /\ WF_vars(\E r \in results : Collect(r))
  /\ SF_vars(Tick)

FairSpec == Spec /\ Fairness

-----------------------------------------------------------------------------
(* Properties.                                                             *)

\* Every variable holds a value of its kind.
TypeOK ==
  /\ hosts \in [Hosts -> EntryType]
  /\ ring \in Seq(Hosts) /\ ringPos \in Nat /\ buffered \in Nat
  /\ stock \subseteq Items /\ leased \subseteq Items /\ settled \subseteq Items
  /\ clearing \in {"no", "store", "again"}
  /\ back \subseteq SUBSET Items /\ dropped \subseteq Items
  /\ sched \in {"idle", "leased", "insert", "pick", "send"}
  /\ scanned \in Nat /\ lap \in Nat
  /\ jobs \subseteq JobType /\ work \subseteq JobType /\ drops \subseteq Items
  /\ busy \subseteq BusyType /\ results \subseteq ResultType
  /\ tables \in Nat /\ faults \in Nat

\* The requests of a host the crawler has under way: picked, waiting for a worker,
\* or being made.
Outstanding(h) ==
  {j \in jobs \union work \union {b.job : b \in {c \in busy : c.phase = "fetch"}} : j.host = h}

\* No host has more requests under way than Burst allows ("Simultaneous requests
\* allowed to a single host"), except that each maintenance button that throws the
\* table away while requests are under way lets a host have Burst more.
HostLoadBounded ==
  \A h \in Hosts : Cardinality(Outstanding(h)) <= Burst * (1 + tables)

\* The ring and the table agree: a host is on the ring once exactly when its entry
\* says so, and a host with queued URLs is on it, or pick would never come to it.
RingExact ==
  /\ \A m, n \in DOMAIN ring : ring[m] = ring[n] => m = n
  /\ \A h \in Hosts : hosts[h].inRing <=> \E n \in DOMAIN ring : ring[n] = h
  /\ \A h \in Hosts : hosts[h].queue # <<>> => hosts[h].inRing

\* How often an item is somewhere in the crawl.
Places(i) ==
  (IF i \in stock THEN 1 ELSE 0) + (IF i \in leased THEN 1 ELSE 0)
  + Cardinality({p \in Hosts \X (1 .. Cardinality(Items)) :
                   p[2] \in DOMAIN hosts[p[1]].queue /\ hosts[p[1]].queue[p[2]] = i})
  + (IF i \in drops THEN 1 ELSE 0)
  + Cardinality({j \in jobs \union work : j.item = i})
  + Cardinality({b \in busy : b.job.item = i})
  + Cardinality({r \in results : r.item = i})
  + Cardinality({some \in back : i \in some})
  + (IF i \in dropped THEN 1 ELSE 0) + (IF i \in settled THEN 1 ELSE 0)

\* From the queue to its outcome an item is in exactly one place: no channel, buffer or
\* button has it twice, however a button comes between the steps of scheduler, workers
\* and another button, and where a button's failed Requeue or a ClearQueue lets go of it,
\* it is among the `dropped`.  And `buffered`, by which refill and the recrawl sweep
\* judge how much work there is, counts the queued ones.
ItemsConserved ==
  /\ \A i \in Items : Places(i) = 1
  /\ buffered = Cardinality(Queued)

\* A URL queued for a host comes to an outcome: its host is always visited again, and
\* no slot, state or channel stays taken.  (Burst = 1; a thrown away table has its
\* own history.)
QueuedIsReported ==
  \A i \in Items : i \in Queued ~> (tables > 0 \/ \E r \in results : r.item = i)
=============================================================================
