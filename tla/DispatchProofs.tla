--------------------------- MODULE DispatchProofs ---------------------------
(***************************************************************************)
(* Proofs about Dispatch.tla for any hosts, URLs, limits and channels, and *)
(* any number of drops of the host table.                                  *)
(*                                                                         *)
(* The invariant has five parts.  Kinds gives every variable but the       *)
(* counter its type; Progress ties pick's lap to the ring and a worker's   *)
(* phase to its job; RingExact is that of the model; Homes says every URL  *)
(* is in one place, and once there; Load bounds a host's requests by its   *)
(* slots and by the tables thrown away.                                    *)
(***************************************************************************)
EXTENDS Dispatch, FiniteSetTheorems, TLAPS

-----------------------------------------------------------------------------
(* Types.                                                                  *)

TableKinds == hosts \in [Hosts -> EntryType] /\ ring \in Seq(Hosts) /\ ringPos \in Nat

\* TypeOK but for the counter: that it never goes below zero is part of ItemsConserved.
Kinds ==
  /\ TableKinds
  /\ stock \subseteq Items /\ leased \subseteq Items /\ settled \subseteq Items
  /\ clearing \in {"no", "store", "again"}
  /\ back \subseteq SUBSET Items /\ dropped \subseteq Items
  /\ sched \in {"idle", "leased", "insert", "pick", "send"}
  /\ scanned \in Nat /\ lap \in Nat
  /\ jobs \subseteq JobType /\ work \subseteq JobType /\ drops \subseteq Items
  /\ busy \subseteq BusyType /\ results \subseteq ResultType
  /\ tables \in Nat /\ faults \in Nat

\* A lap is as long as the ring; only refill holds leased URLs; only a page is
\* throttled, retried or reported.
Progress ==
  /\ sched = "pick" => lap = Len(ring)
  /\ leased # {} => sched \in {"leased", "insert"}
  /\ \A b \in busy : b.phase # "fetch" => b.job.item # NoItem

Shape == Kinds /\ Progress

LEMMA AbsentType == Absent \in EntryType
  BY LimitsAssumption DEF Absent, EntryType

\* A table in which one entry is replaced.
LEMMA EntryReplaced ==
  ASSUME TableKinds, NEW h \in Hosts, NEW e \in EntryType, hosts' = [hosts EXCEPT ![h] = e]
  PROVE  hosts' \in [Hosts -> EntryType]
  BY DEF TableKinds

LEMMA EntryFields ==
  ASSUME TableKinds, NEW h \in Hosts
  PROVE  /\ hosts[h] \in EntryType
         /\ hosts[h].queue \in Seq(Items) /\ hosts[h].inflight \in Nat
         /\ hosts[h].fails \in Nat /\ hosts[h].inRing \in BOOLEAN
         /\ Release(h) \in Nat /\ HostLocked(h) \in EntryType
         /\ HostLocked(h).queue = hosts[h].queue
         /\ HostLocked(h).inflight = hosts[h].inflight
         /\ HostLocked(h).inRing = hosts[h].inRing
<1>1. hosts[h] \in EntryType
  BY DEF TableKinds
<1>2. Release(h) \in Nat
  BY <1>1 DEF Release, EntryType
<1>3. /\ HostLocked(h) \in EntryType
      /\ HostLocked(h).queue = hosts[h].queue
      /\ HostLocked(h).inflight = hosts[h].inflight
      /\ HostLocked(h).inRing = hosts[h].inRing
  <2>1. CASE hosts[h] = Absent
    BY <2>1, AbsentType DEF HostLocked, Absent, EntryType
  <2>2. CASE hosts[h] # Absent
    BY <1>1, <2>2 DEF HostLocked
  <2> QED BY <2>1, <2>2
<1> QED BY <1>1, <1>2, <1>3 DEF EntryType

\* Where pick is on the ring.
LEMMA VisitingPlace ==
  ASSUME Shape, NEW h \in Hosts, Visiting(h)
  PROVE  /\ Len(ring) \in Nat \ {0} /\ Len(ring) = lap
         /\ Pos \in 0 .. Len(ring) - 1 /\ Pos + 1 \in DOMAIN ring /\ ring[Pos + 1] = h
<1>1. ring \in Seq(Hosts) /\ lap = Len(ring) /\ scanned \in Nat /\ scanned < lap
  BY DEF Shape, Kinds, TableKinds, Progress, Visiting
<1>2. Len(ring) \in Nat \ {0} /\ DOMAIN ring = 1 .. Len(ring)
  BY <1>1
<1>3. Pos \in 0 .. Len(ring) - 1
  BY <1>2 DEF Pos, Shape, Kinds, TableKinds
<1> QED BY <1>1, <1>2, <1>3 DEF Visiting

LEMMA RemovedShape ==
  ASSUME Shape, NEW h \in Hosts, Visiting(h), RemoveFromRing
  PROVE  ring' \in Seq(Hosts) /\ ringPos' \in Nat /\ lap' \in Nat /\ lap' = Len(ring')
<1> DEFINE last == Len(ring) - 1
<1>1. /\ Len(ring) \in Nat \ {0} /\ Pos \in 0 .. Len(ring) - 1
      /\ ring \in Seq(Hosts) /\ last \in Nat
  BY VisitingPlace DEF Shape, Kinds, TableKinds
<1>2. \A n \in 1 .. last : ring[n] \in Hosts /\ ring[Len(ring)] \in Hosts
  BY <1>1
<1>3. /\ ring' = [n \in 1 .. last |-> IF n = Pos + 1 THEN ring[Len(ring)] ELSE ring[n]]
      /\ ringPos' = (IF Pos > last THEN 0 ELSE Pos) /\ lap' = last
  BY DEF RemoveFromRing
<1> HIDE DEF last
<1>4. ring' \in Seq(Hosts) /\ Len(ring') = last
  BY <1>1, <1>2, <1>3
<1> QED BY <1>1, <1>3, <1>4

\* What the visits of pick change apart from the table.
LEMMA VisitShape ==
  ASSUME Shape, NEW h \in Hosts, Visiting(h), TableKinds',
         jobs' \subseteq JobType, drops' \subseteq Items,
         lap' \in Nat /\ lap' = Len(ring')
  PROVE  Shape'
<1>1. scanned' \in Nat
  BY DEF Shape, Kinds, Visiting
<1> QED BY <1>1 DEF Shape, Kinds, Progress, Visiting, pool, durable, buttons

LEMMA NextHostShape ==
  ASSUME Shape, NEW h \in Hosts, Visiting(h), NextHost \/ SameHost
  PROVE  ring' \in Seq(Hosts) /\ ringPos' \in Nat /\ lap' \in Nat /\ lap' = Len(ring')
<1>1. Pos \in Nat /\ lap = Len(ring) /\ lap \in Nat /\ ring \in Seq(Hosts)
  BY VisitingPlace DEF Shape, Kinds, TableKinds
<1> QED BY <1>1 DEF NextHost, SameHost

LEMMA JobKind ==
  ASSUME Shape, NEW h \in Hosts, NEW i \in Items \union {NoItem}
  PROVE  Job(h, i) \in JobType
  BY DEF Shape, Kinds, Job, JobType

LEMMA InitShape == Init => Shape
<1> SUFFICES ASSUME Init PROVE Shape
  OBVIOUS
<1>1. hosts \in [Hosts -> EntryType]
  BY AbsentType DEF Init
<1> QED BY <1>1 DEF Init, Shape, Kinds, TableKinds, Progress

LEMMA PickShape ==
  ASSUME Shape, PickVisit
  PROVE  Shape'
<1>t. TableKinds /\ jobs \subseteq JobType /\ drops \subseteq Items
  BY DEF Shape, Kinds
<1>1. PICK h \in Hosts :
        \/ PickEmpty(h) \/ PickFailing(h) \/ PickPass(h) \/ PickNoRobots(h) \/ PickRobots(h)
        \/ PickSkip(h)
        \/ \E d \in Delay .. MaxDelay : PickPage(h, d)
  BY DEF PickVisit
<1>2. Visiting(h)
  BY <1>1 DEF PickEmpty, PickFailing, PickPass, PickNoRobots, PickRobots, PickSkip, PickPage
<1>e. /\ hosts[h] \in EntryType /\ hosts[h].queue \in Seq(Items)
      /\ hosts[h].inflight \in Nat
  BY <1>t, EntryFields
<1>n. hosts[h].inflight + 1 \in Nat
  BY <1>e
<1>3. CASE PickEmpty(h)
  <2>1. ring' \in Seq(Hosts) /\ ringPos' \in Nat /\ lap' \in Nat /\ lap' = Len(ring')
    BY <1>2, <1>3, RemovedShape DEF PickEmpty
  <2>2. hosts' \in [Hosts -> EntryType]
    BY <1>3, <1>t DEF PickEmpty, TableKinds, EntryType
  <2> QED BY <1>2, <1>3, <1>t, <2>1, <2>2, VisitShape DEF PickEmpty, TableKinds
<1>4. CASE PickFailing(h)
  <2>1. ring' \in Seq(Hosts) /\ ringPos' \in Nat /\ lap' \in Nat /\ lap' = Len(ring')
    BY <1>2, <1>4, RemovedShape DEF PickFailing
  <2>2. hosts' \in [Hosts -> EntryType]
    <3>1. <<>> \in Seq(Items)
      OBVIOUS
    <3> QED BY <1>4, <1>t, <3>1 DEF PickFailing, TableKinds, EntryType
  <2>3. \A n \in DOMAIN hosts[h].queue : hosts[h].queue[n] \in Items
    BY <1>e
  <2>4. drops' \subseteq Items
    BY <1>4, <1>t, <2>3 DEF PickFailing
  <2> QED BY <1>2, <1>4, <1>t, <2>1, <2>2, <2>4, VisitShape DEF PickFailing, TableKinds
<1>5. CASE PickPass(h)
  <2>1. ring' \in Seq(Hosts) /\ ringPos' \in Nat /\ lap' \in Nat /\ lap' = Len(ring')
    BY <1>2, <1>5, NextHostShape DEF PickPass
  <2> QED BY <1>2, <1>5, <1>t, <2>1, VisitShape DEF PickPass, TableKinds
<1>6. CASE PickNoRobots(h)
  <2>1. ring' \in Seq(Hosts) /\ ringPos' \in Nat /\ lap' \in Nat /\ lap' = Len(ring')
    BY <1>2, <1>6, NextHostShape DEF PickNoRobots
  <2>2. hosts' \in [Hosts -> EntryType]
    BY <1>6, <1>t DEF PickNoRobots, TableKinds, EntryType
  <2> QED BY <1>2, <1>6, <1>t, <2>1, <2>2, VisitShape DEF PickNoRobots, TableKinds
<1>7. CASE PickRobots(h)
  <2>1. ring' \in Seq(Hosts) /\ ringPos' \in Nat /\ lap' \in Nat /\ lap' = Len(ring')
    BY <1>2, <1>7, NextHostShape DEF PickRobots
  <2>2. hosts' \in [Hosts -> EntryType]
    <3> DEFINE e == [hosts[h] EXCEPT !.state = "fetchingRobots", !.inflight = @ + 1]
    <3>1. hosts' = [hosts EXCEPT ![h] = e]
      BY <1>7, <1>t DEF PickRobots, TableKinds
    <3>2. e \in EntryType
      BY <1>e, <1>n DEF EntryType
    <3> QED BY <1>t, <3>1, <3>2, EntryReplaced
  <2>3. jobs' \subseteq JobType
    BY <1>7, <1>t, JobKind DEF PickRobots
  <2> QED BY <1>2, <1>7, <1>t, <2>1, <2>2, <2>3, VisitShape DEF PickRobots, TableKinds
<1>8. CASE PickSkip(h)
  <2>1. ring' \in Seq(Hosts) /\ ringPos' \in Nat /\ lap' \in Nat /\ lap' = Len(ring')
    BY <1>2, <1>8, NextHostShape DEF PickSkip
  <2>2. Tail(hosts[h].queue) \in Seq(Items) /\ Head(hosts[h].queue) \in Items
    BY <1>8, <1>e DEF PickSkip, Eligible
  <2>3. hosts' \in [Hosts -> EntryType]
    BY <1>8, <1>t, <2>2 DEF PickSkip, TableKinds, EntryType
  <2>4. drops' \subseteq Items
    BY <1>8, <1>t, <2>2 DEF PickSkip
  <2> QED BY <1>2, <1>8, <1>t, <2>1, <2>3, <2>4, VisitShape DEF PickSkip, TableKinds
<1>9. ASSUME NEW d \in Delay .. MaxDelay, PickPage(h, d)
      PROVE  Shape'
  <2>1. ring' \in Seq(Hosts) /\ ringPos' \in Nat /\ lap' \in Nat /\ lap' = Len(ring')
    BY <1>2, <1>9, NextHostShape DEF PickPage
  <2>2. Tail(hosts[h].queue) \in Seq(Items) /\ Head(hosts[h].queue) \in Items
    BY <1>9, <1>e DEF PickPage, Eligible
  <2>3. d \in 0 .. MaxDelay
    BY LimitsAssumption
  <2>4. hosts' \in [Hosts -> EntryType]
    <3> DEFINE e == [hosts[h] EXCEPT !.queue = Tail(@), !.inflight = @ + 1, !.wait = d]
    <3>1. hosts' = [hosts EXCEPT ![h] = e]
      BY <1>9, <1>t DEF PickPage, TableKinds
    <3>2. e \in EntryType
      BY <1>e, <1>n, <2>2, <2>3 DEF EntryType
    <3> QED BY <1>t, <3>1, <3>2, EntryReplaced
  <2>5. jobs' \subseteq JobType
    BY <1>9, <1>t, <2>2, JobKind DEF PickPage
  <2> QED BY <1>2, <1>9, <1>t, <2>1, <2>4, <2>5, VisitShape DEF PickPage, TableKinds
<1> QED BY <1>1, <1>3, <1>4, <1>5, <1>6, <1>7, <1>8, <1>9

LEMMA SchedulerShape ==
  ASSUME Shape, RefillLease \/ PickBegin \/ Scheduler
  PROVE  Shape'
<1>t. TableKinds /\ Kinds /\ Progress
  BY DEF Shape, Kinds
<1>1. CASE RefillLease
  BY <1>1, <1>t DEF RefillLease, Shape, Kinds, Progress, TableKinds, table, pool, buttons
<1>2. CASE PickBegin
  <2>1. Len(ring) \in Nat
    BY <1>t DEF TableKinds
  <2> QED BY <1>2, <1>t, <2>1 DEF PickBegin, Shape, Kinds, Progress, TableKinds, table, pool, durable, buttons
<1>3. ASSUME NEW i \in leased, RefillInsert(i) PROVE Shape'
  <2> DEFINE h == HostOf[i]
  <2>1. i \in Items /\ h \in Hosts
    BY <1>t, HostsAssumption DEF Kinds
  <2> HIDE DEF h
  <2>2. /\ HostLocked(h) \in EntryType /\ HostLocked(h).queue \in Seq(Items)
    BY <1>t, <2>1, EntryFields
  <2>3. Append(HostLocked(h).queue, i) \in Seq(Items)
    BY <2>1, <2>2
  <2>4. [HostLocked(h) EXCEPT !.queue = Append(@, i), !.inRing = TRUE] \in EntryType
    BY <2>2, <2>3 DEF EntryType
  <2>5. hosts' \in [Hosts -> EntryType]
    BY <1>3, <1>t, <2>1, <2>4, EntryReplaced DEF RefillInsert, h
  <2>6. ring' \in Seq(Hosts) /\ ringPos' \in Nat
    BY <1>3, <1>t, <2>1 DEF RefillInsert, TableKinds, h
  <2> QED BY <1>3, <1>t, <2>5, <2>6 DEF RefillInsert, Shape, Kinds, Progress, TableKinds, pool, durable, buttons
<1>4. CASE PickVisit
  BY <1>4, PickShape
<1>5. CASE PickEnd
  BY <1>5, <1>t DEF PickEnd, Shape, Kinds, Progress, TableKinds, table, pool, durable, buttons
<1>6. ASSUME NEW i \in drops, SendDrop(i) PROVE Shape'
  <2>1. [item |-> i, retry |-> FALSE] \in ResultType
    BY <1>t DEF Kinds, ResultType
  <2> QED BY <1>6, <1>t, <2>1 DEF SendDrop, Shape, Kinds, Progress, TableKinds, table, durable, buttons
<1>7. ASSUME NEW j \in jobs, SendJob(j) PROVE Shape'
  BY <1>7, <1>t DEF SendJob, Shape, Kinds, Progress, TableKinds, table, durable, buttons
<1> QED BY <1>1, <1>2, <1>3, <1>4, <1>5, <1>6, <1>7 DEF Scheduler

\* A worker's step replaces or removes its job, and may change its host's entry.
LEMMA WorkerShape ==
  ASSUME Shape, \/ \E j \in work : Take(j)
                \/ \E b \in busy : Worker(b)
                \/ \E r \in results : Collect(r)
  PROVE  Shape'
<1>t. TableKinds /\ Kinds /\ Progress
  BY DEF Shape, Kinds
<1>m. MaxDelay \in 0 .. MaxDelay /\ Delay .. MaxDelay \subseteq 0 .. MaxDelay
  BY LimitsAssumption
<1>b. ASSUME NEW b \in busy
      PROVE  /\ b \in BusyType /\ b.job.host \in Hosts
             /\ hosts[b.job.host] \in EntryType /\ Release(b.job.host) \in Nat
  <2>1. b \in BusyType /\ b.job.host \in Hosts
    BY <1>t DEF Kinds, BusyType, JobType
  <2> QED BY <1>t, <2>1, EntryFields
<1>1. ASSUME NEW j \in work, Take(j) PROVE Shape'
  <2>1. [job |-> j, phase |-> "fetch"] \in BusyType
    BY <1>t DEF Kinds, BusyType
  <2> QED BY <1>1, <1>t, <2>1 DEF Take, Shape, Kinds, Progress, TableKinds, table, scheduler, durable, buttons
<1>2. ASSUME NEW b \in busy, NEW d \in Delay .. MaxDelay, RobotsDone(b, d) PROVE Shape'
  <2>1. hosts' \in [Hosts -> EntryType]
    BY <1>2, <1>t, <1>m, <1>b DEF RobotsDone, TableKinds, EntryType
  <2> QED BY <1>2, <1>t, <2>1 DEF RobotsDone, Shape, Kinds, Progress, TableKinds, scheduler, durable, buttons
<1>3. ASSUME NEW b \in busy, NEW failed \in BOOLEAN, NEW throttled \in BOOLEAN,
             PageDone(b, failed, throttled)
      PROVE  Shape'
  <2> DEFINE c == [b EXCEPT !.phase = IF throttled THEN "throttled" ELSE "done"]
  <2>1. hosts' \in [Hosts -> EntryType]
    <3> DEFINE h == b.job.host
               e == [hosts[h] EXCEPT !.inflight = Release(h), !.fails = IF failed THEN @ + 1 ELSE 0]
    <3>1. hosts' = hosts \/ hosts' = [hosts EXCEPT ![h] = e]
      BY <1>3, <1>t, <1>b DEF PageDone, TableKinds
    <3>2. e \in EntryType
      <4>1. (IF failed THEN hosts[h].fails + 1 ELSE 0) \in Nat
        BY <1>t, <1>b, EntryFields
      <4> QED BY <1>b, <4>1 DEF EntryType
    <3> HIDE DEF e
    <3> QED BY <1>t, <1>b, <3>1, <3>2, EntryReplaced DEF TableKinds
  <2>2. c \in BusyType /\ c.job = b.job
    BY <1>b DEF BusyType
  <2>3. faults' \in Nat
    BY <1>3, <1>t DEF PageDone, Kinds
  <2>4. busy' = (busy \ {b}) \union {c} /\ b.job.item # NoItem
    BY <1>3 DEF PageDone
  <2> HIDE DEF c
  <2>5. Progress'
    BY <1>3, <1>t, <2>2, <2>4 DEF PageDone, Progress, scheduler
  <2> QED BY <1>3, <1>t, <2>1, <2>2, <2>3, <2>4, <2>5 DEF PageDone, Shape, Kinds, TableKinds, scheduler, durable, buttons
<1>4. ASSUME NEW b \in busy, Penalize(b) PROVE Shape'
  <2> DEFINE c == [b EXCEPT !.phase = "retry"]
  <2>1. hosts' \in [Hosts -> EntryType]
    BY <1>4, <1>t, <1>m, <1>b DEF Penalize, TableKinds, EntryType
  <2>2. c \in BusyType /\ c.job = b.job
    BY <1>b DEF BusyType
  <2>3. busy' = (busy \ {b}) \union {c} /\ b.job.item # NoItem
    BY <1>4, <1>t DEF Penalize, Progress
  <2> HIDE DEF c
  <2>4. Progress'
    BY <1>4, <1>t, <2>2, <2>3 DEF Penalize, Progress, scheduler
  <2> QED BY <1>4, <1>t, <2>1, <2>2, <2>3, <2>4 DEF Penalize, Shape, Kinds, TableKinds, scheduler, durable, buttons
<1>5. ASSUME NEW b \in busy, Report(b) PROVE Shape'
  <2>1. b.job.item \in Items
    BY <1>5, <1>t, <1>b DEF Report, Progress, BusyType, JobType
  <2>2. [item |-> b.job.item, retry |-> b.phase = "retry"] \in ResultType
    <3>1. (b.phase = "retry") \in BOOLEAN
      OBVIOUS
    <3> QED BY <2>1, <3>1 DEF ResultType
  <2> QED BY <1>5, <1>t, <2>2 DEF Report, Shape, Kinds, Progress, TableKinds, table, scheduler, durable, buttons
<1>6. ASSUME NEW r \in results, Collect(r) PROVE Shape'
  <2>1. r.item \in Items
    BY <1>t DEF Kinds, ResultType
  <2> QED BY <1>6, <1>t, <2>1 DEF Collect, Shape, Kinds, Progress, TableKinds, table, scheduler, buttons
<1> QED BY <1>1, <1>2, <1>3, <1>4, <1>5, <1>6 DEF Worker

\* What the buttons do after they have released the mutex.
StoreStep ==
  \/ \E some \in back : RequeueBack(some) \/ RequeueBackFails(some)
  \/ ClearQueueStore \/ ClearQueueFails

LEMMA StoreStepKeeps == StoreStep => UNCHANGED <<table, scheduler, pool, tables>>
  BY DEF StoreStep, RequeueBack, RequeueBackFails, ClearQueueStore, ClearQueueFails

LEMMA TableShape ==
  ASSUME Shape, DropBuffered \/ ClearQueueBegin \/ ClearQueueEnd \/ StoreStep \/ Tick
  PROVE  Shape'
<1>t. TableKinds /\ Kinds /\ Progress
  BY DEF Shape, Kinds
<1>q. Queued \subseteq Items
  BY DEF Queued
<1>1. ASSUME NewTable PROVE TableKinds' /\ tables' \in Nat /\ (sched # "pick")'
  <2>1. hosts' \in [Hosts -> EntryType]
    BY <1>1, AbsentType DEF NewTable
  <2> QED BY <1>1, <1>t, <2>1 DEF NewTable, TableKinds, Kinds, Unlocked, scheduler
<1>2. CASE DropBuffered \/ ClearQueueBegin \/ ClearQueueEnd
  <2>1. NewTable
    BY <1>2 DEF DropBuffered, ClearQueueBegin, ClearQueueEnd
  <2>2. /\ stock' \subseteq Items /\ settled' \subseteq Items
        /\ clearing' \in {"no", "store", "again"}
        /\ back' \subseteq SUBSET Items /\ dropped' \subseteq Items
    BY <1>2, <1>t, <1>q DEF DropBuffered, ClearQueueBegin, ClearQueueEnd, Kinds
  <2> QED BY <1>1, <1>t, <2>1, <2>2 DEF NewTable, Shape, Kinds, Progress, scheduler, pool
<1>3. CASE StoreStep
  <2>1. /\ stock' \subseteq Items /\ settled' \subseteq Items /\ faults' \in Nat
        /\ clearing' \in {"no", "store", "again"}
        /\ back' \subseteq SUBSET Items /\ dropped' \subseteq Items
    BY <1>3, <1>t DEF StoreStep, RequeueBack, RequeueBackFails, ClearQueueStore, ClearQueueFails, Kinds
  <2> QED
    BY <1>3, <1>t, <2>1, StoreStepKeeps
    DEF Shape, Kinds, Progress, TableKinds, table, scheduler, pool
<1>4. CASE Tick
  <2>1. hosts' \in [Hosts -> EntryType]
    <3>1. ASSUME NEW h \in Hosts
          PROVE  [hosts[h] EXCEPT !.wait = IF @ > 0 THEN @ - 1 ELSE 0] \in EntryType
      <4>1. hosts[h] \in EntryType /\ hosts[h].wait \in 0 .. MaxDelay
        BY <1>t DEF TableKinds, EntryType
      <4>2. (IF hosts[h].wait > 0 THEN hosts[h].wait - 1 ELSE 0) \in 0 .. MaxDelay
        BY <4>1, LimitsAssumption
      <4> QED BY <4>1, <4>2 DEF EntryType
    <3> QED BY <1>4, <3>1 DEF Tick
  <2> QED BY <1>4, <1>t, <2>1 DEF Tick, Shape, Kinds, Progress, TableKinds, scheduler, pool, durable, buttons
<1> QED BY <1>2, <1>3, <1>4

LEMMA NextShape == Shape /\ [Next]_vars => Shape'
<1>1. Shape /\ UNCHANGED vars => Shape'
  BY DEF Shape, Kinds, Progress, TableKinds, vars, table, scheduler, pool, durable, buttons
<1> QED BY <1>1, SchedulerShape, WorkerShape, TableShape DEF Next, StoreStep

-----------------------------------------------------------------------------
(* The ring.                                                               *)

SameQueues ==
  \A k \in Hosts : hosts'[k].queue = hosts[k].queue /\ hosts'[k].inRing = hosts[k].inRing

\* The steps that leave every queue as it is.
Quiet ==
  \/ RefillLease \/ PickBegin \/ PickEnd
  \/ \E h \in Hosts : PickPass(h) \/ PickNoRobots(h) \/ PickRobots(h)
  \/ \E i \in drops : SendDrop(i)
  \/ \E j \in jobs : SendJob(j)
  \/ \E j \in work : Take(j)
  \/ \E b \in busy : Worker(b)
  \/ \E r \in results : Collect(r)
  \/ StoreStep \/ Tick
  \/ UNCHANGED vars

\* The steps that move URLs into, within or out of the table.
Moving ==
  \/ \E i \in leased : RefillInsert(i)
  \/ \E h \in Hosts : \/ PickEmpty(h) \/ PickFailing(h) \/ PickSkip(h)
                      \/ \E d \in Delay .. MaxDelay : PickPage(h, d)
  \/ DropBuffered \/ ClearQueueBegin \/ ClearQueueEnd

LEMMA NextCases == [Next]_vars => Quiet \/ Moving
  BY DEF Next, Scheduler, PickVisit, Quiet, Moving, StoreStep

LEMMA QuietQueues ==
  ASSUME Shape, Quiet
  PROVE  SameQueues /\ UNCHANGED <<ring, buffered>>
<1>t. hosts \in [Hosts -> EntryType]
  BY DEF Shape, Kinds, TableKinds
<1>1. CASE RefillLease \/ PickBegin \/ PickEnd \/ StoreStep \/ UNCHANGED vars
  BY <1>1, StoreStepKeeps DEF RefillLease, PickBegin, PickEnd, vars, table, SameQueues
<1>2. ASSUME NEW h \in Hosts, PickPass(h) PROVE SameQueues /\ UNCHANGED <<ring, buffered>>
  BY <1>2 DEF PickPass, NextHost, SameQueues
<1>3. ASSUME NEW h \in Hosts, PickNoRobots(h) PROVE SameQueues /\ UNCHANGED <<ring, buffered>>
  BY <1>3, <1>t DEF PickNoRobots, SameHost, SameQueues, EntryType
<1>4. ASSUME NEW h \in Hosts, PickRobots(h) PROVE SameQueues /\ UNCHANGED <<ring, buffered>>
  BY <1>4, <1>t DEF PickRobots, SameHost, SameQueues, EntryType
<1>5. ASSUME NEW i, SendDrop(i) PROVE SameQueues /\ UNCHANGED <<ring, buffered>>
  BY <1>5 DEF SendDrop, table, SameQueues
<1>6. ASSUME NEW j, SendJob(j) \/ Take(j) \/ Collect(j)
      PROVE  SameQueues /\ UNCHANGED <<ring, buffered>>
  BY <1>6 DEF SendJob, Take, Collect, table, SameQueues
<1>7. ASSUME NEW b \in busy, Worker(b) PROVE SameQueues /\ UNCHANGED <<ring, buffered>>
  <2>1. ASSUME NEW d, RobotsDone(b, d) PROVE SameQueues /\ UNCHANGED <<ring, buffered>>
    BY <2>1, <1>t DEF RobotsDone, SameQueues, EntryType
  <2>2. ASSUME NEW failed, NEW throttled, PageDone(b, failed, throttled)
        PROVE  SameQueues /\ UNCHANGED <<ring, buffered>>
    <3>1. UNCHANGED <<ring, buffered>>
      BY <2>2 DEF PageDone
    <3>2. SameQueues
      BY <2>2, <1>t DEF PageDone, SameQueues, EntryType
    <3> QED BY <3>1, <3>2
  <2>3. CASE Penalize(b)
    BY <2>3, <1>t DEF Penalize, SameQueues, EntryType
  <2>4. CASE Report(b)
    BY <2>4 DEF Report, table, SameQueues
  <2> QED BY <1>7, <2>1, <2>2, <2>3, <2>4 DEF Worker
<1>8. CASE Tick
  BY <1>8, <1>t DEF Tick, SameQueues, EntryType
<1> QED BY <1>1, <1>2, <1>3, <1>4, <1>5, <1>6, <1>7, <1>8 DEF Quiet

OnRing(h) == \E n \in DOMAIN ring : ring[n] = h

\* removeFromRingLocked takes off the host that pick visits, and no other.
LEMMA RemovedRing ==
  ASSUME Shape, RingExact, NEW h \in Hosts, Visiting(h), RemoveFromRing
  PROVE  /\ \A m, n \in DOMAIN ring' : ring'[m] = ring'[n] => m = n
         /\ \A k \in Hosts : OnRing(k)' <=> k # h /\ OnRing(k)
<1> DEFINE last == Len(ring) - 1
<1>1. /\ Len(ring) \in Nat \ {0} /\ Pos \in 0 .. last /\ ring[Pos + 1] = h
      /\ ring \in Seq(Hosts) /\ DOMAIN ring = 1 .. Len(ring) /\ last \in Nat
      /\ last + 1 = Len(ring)
  BY VisitingPlace DEF Shape, Kinds, TableKinds
<1>2. ring' = [n \in 1 .. last |-> IF n = Pos + 1 THEN ring[last + 1] ELSE ring[n]]
  BY <1>1 DEF RemoveFromRing
<1>3. \A m, n \in 1 .. last + 1 : ring[m] = ring[n] => m = n
  BY <1>1 DEF RingExact
<1> HIDE DEF last
<1>4. DOMAIN ring' = 1 .. last
  BY <1>2
<1>5. ASSUME NEW m \in DOMAIN ring', NEW n \in DOMAIN ring', ring'[m] = ring'[n]
      PROVE  m = n
  <2>1. m \in 1 .. last /\ n \in 1 .. last /\ m # last + 1 /\ n # last + 1
    BY <1>1, <1>4
  <2> DEFINE from(k) == IF k = Pos + 1 THEN last + 1 ELSE k
  <2>2. ring'[m] = ring[from(m)] /\ ring'[n] = ring[from(n)]
    BY <1>2, <2>1
  <2>3. from(m) \in 1 .. last + 1 /\ from(n) \in 1 .. last + 1
    <3>1. last \in Nat
      BY <1>1
    <3>2. \A k \in 1 .. last : k \in 1 .. last + 1
      BY <3>1
    <3>3. last + 1 \in 1 .. last + 1
      BY <3>1
    <3> QED BY <2>1, <3>2, <3>3
  <2> HIDE DEF from
  <2>4. from(m) = from(n)
    BY <1>3, <1>5, <2>2, <2>3
  <2> USE DEF from
  <2> QED BY <2>1, <2>4
<1>6. ASSUME NEW k \in Hosts, NEW n \in DOMAIN ring', ring'[n] = k
      PROVE  k # h /\ OnRing(k)
  <2>1. n \in 1 .. last /\ n # last + 1
    BY <1>1, <1>4
  <2>2. ring'[n] = (IF n = Pos + 1 THEN ring[last + 1] ELSE ring[n])
    BY <1>2, <2>1
  <2>3. PICK m \in 1 .. last + 1 : k = ring[m] /\ m # Pos + 1
    BY <1>1, <1>6, <2>1, <2>2
  <2> QED BY <1>1, <1>3, <2>3 DEF OnRing
<1>7. ASSUME NEW k \in Hosts, k # h, OnRing(k)
      PROVE  OnRing(k)'
  <2>1. PICK m \in 1 .. last + 1 : ring[m] = k
    BY <1>1, <1>7 DEF OnRing
  <2>2. m # Pos + 1
    BY <1>1, <1>7, <2>1
  <2>3. CASE m = last + 1
    <3>1. Pos + 1 \in 1 .. last
      BY <1>1, <2>2, <2>3
    <3>2. ring'[Pos + 1] = k
      BY <1>2, <2>1, <2>3, <3>1
    <3> QED BY <1>4, <3>1, <3>2 DEF OnRing
  <2>4. CASE m # last + 1
    <3>1. m \in 1 .. last /\ ring'[m] = k
      BY <1>1, <1>2, <2>1, <2>2, <2>4
    <3> QED BY <1>4, <3>1 DEF OnRing
  <2> QED BY <2>3, <2>4
<1> QED BY <1>5, <1>6, <1>7 DEF OnRing

RingInv == Shape /\ RingExact

LEMMA VisitedOnRing ==
  ASSUME RingInv, NEW h \in Hosts, Visiting(h)
  PROVE  OnRing(h) /\ hosts[h].inRing /\ hosts[h] # Absent
<1>1. OnRing(h)
  BY VisitingPlace DEF RingInv, OnRing
<1>2. hosts[h].inRing
  BY <1>1 DEF RingInv, RingExact, OnRing
<1> QED BY <1>1, <1>2 DEF Absent

LEMMA NextRingExact == RingInv /\ [Next]_vars => RingExact'
<1> SUFFICES ASSUME RingInv, [Next]_vars PROVE RingExact'
  OBVIOUS
<1>t. /\ hosts \in [Hosts -> EntryType] /\ ring \in Seq(Hosts) /\ Shape /\ RingExact
      /\ leased \subseteq Items /\ TableKinds
  BY DEF RingInv, Shape, Kinds, TableKinds
<1>r. /\ \A m, n \in DOMAIN ring : ring[m] = ring[n] => m = n
      /\ \A h \in Hosts : hosts[h].inRing <=> OnRing(h)
      /\ \A h \in Hosts : hosts[h].queue # <<>> => hosts[h].inRing
  BY <1>t DEF RingExact, OnRing
<1>1. CASE Quiet
  BY <1>1, <1>t, QuietQueues DEF RingExact, SameQueues
<1>2. ASSUME NEW i \in leased, RefillInsert(i) PROVE RingExact'
  <2> DEFINE h == HostOf[i]
             e == [HostLocked(h) EXCEPT !.queue = Append(@, i), !.inRing = TRUE]
  <2>1. h \in Hosts
    BY <1>t, HostsAssumption
  <2>2. hosts' = [hosts EXCEPT ![h] = e] /\ ring' = (IF hosts[h].inRing THEN ring ELSE Append(ring, h))
    BY <1>2 DEF RefillInsert
  <2>3. HostLocked(h) \in EntryType
    BY <1>t, <2>1, EntryFields
  <2>4. e.inRing = TRUE
    BY <2>3 DEF EntryType
  <2> HIDE DEF h, e
  <2>5. CASE hosts[h].inRing
    BY <1>r, <1>t, <2>1, <2>2, <2>4, <2>5 DEF RingExact, OnRing
  <2>6. CASE ~hosts[h].inRing
    <3>1. ~OnRing(h)
      BY <1>r, <2>1, <2>6
    <3>2. /\ ring' = Append(ring, h) /\ DOMAIN ring = 1 .. Len(ring) /\ Len(ring) \in Nat
          /\ DOMAIN ring' = 1 .. Len(ring) + 1 /\ ring'[Len(ring) + 1] = h
          /\ \A n \in DOMAIN ring : ring'[n] = ring[n]
      BY <1>t, <2>1, <2>2, <2>6
    <3>3. \A n \in DOMAIN ring' : n \in DOMAIN ring \/ n = Len(ring) + 1
      BY <3>2
    <3>4. \A m, n \in DOMAIN ring' : ring'[m] = ring'[n] => m = n
      BY <1>r, <3>1, <3>2, <3>3 DEF OnRing
    <3>5. \A k \in Hosts : OnRing(k)' <=> k = h \/ OnRing(k)
      <4>1. DOMAIN ring \subseteq DOMAIN ring' /\ Len(ring) + 1 \in DOMAIN ring'
        BY <3>2
      <4> QED BY <3>2, <3>3, <4>1 DEF OnRing
    <3> QED BY <1>r, <1>t, <2>1, <2>2, <2>4, <3>4, <3>5 DEF RingExact, OnRing
  <2> QED BY <2>5, <2>6
<1>3. ASSUME NEW h \in Hosts, PickEmpty(h) \/ PickFailing(h) PROVE RingExact'
  <2>1. Visiting(h) /\ RemoveFromRing
    BY <1>3 DEF PickEmpty, PickFailing
  <2>2. /\ \A m, n \in DOMAIN ring' : ring'[m] = ring'[n] => m = n
        /\ \A k \in Hosts : OnRing(k)' <=> k # h /\ OnRing(k)
    BY <1>t, <2>1, RemovedRing
  <2>3. hosts[h] # Absent
    BY <2>1, VisitedOnRing
  <2>4. /\ hosts'[h].inRing = FALSE /\ hosts'[h].queue = <<>>
        /\ \A k \in Hosts \ {h} : hosts'[k] = hosts[k]
    BY <1>3, <1>t, <2>3 DEF PickEmpty, PickFailing, EntryType
  <2> QED BY <1>r, <2>2, <2>4 DEF RingExact, OnRing
<1>4. ASSUME NEW h \in Hosts, PickSkip(h) \/ \E d \in Delay .. MaxDelay : PickPage(h, d)
      PROVE  RingExact'
  <2>1. Visiting(h) /\ ring' = ring
    BY <1>4 DEF PickSkip, PickPage, SameHost, NextHost
  <2>2. hosts[h].inRing
    BY <2>1, VisitedOnRing
  <2>3. /\ hosts'[h].inRing = hosts[h].inRing
        /\ \A k \in Hosts \ {h} : hosts'[k] = hosts[k]
    BY <1>4, <1>t DEF PickSkip, PickPage, EntryType
  <2> QED BY <1>r, <2>1, <2>2, <2>3 DEF RingExact, OnRing
<1>5. CASE NewTable
  <2>1. \A h \in Hosts : hosts'[h].inRing = FALSE /\ hosts'[h].queue = <<>>
    BY <1>5 DEF NewTable, Absent
  <2>2. DOMAIN ring' = {}
    BY <1>5 DEF NewTable
  <2> QED BY <2>1, <2>2 DEF RingExact
<1> QED
  BY <1>1, <1>2, <1>3, <1>4, <1>5, NextCases
  DEF Moving, DropBuffered, ClearQueueBegin, ClearQueueEnd

LEMMA InitRingInv == Init => RingInv
<1> SUFFICES ASSUME Init PROVE RingExact
  BY InitShape DEF RingInv
<1>1. \A h \in Hosts : hosts[h].inRing = FALSE /\ hosts[h].queue = <<>>
  BY DEF Init, Absent
<1>2. DOMAIN ring = {}
  BY DEF Init
<1> QED BY <1>1, <1>2 DEF RingExact

LEMMA RingInvHolds == Spec => []RingInv
<1>1. RingInv /\ [Next]_vars => RingInv'
  BY NextShape, NextRingExact DEF RingInv
<1> QED BY <1>1, InitRingInv, PTL DEF Spec

\* RingExact: the swap that takes a host off the ring, the insertion that puts it on and
\* the tables thrown away in between never leave a host with queued URLs where pick does
\* not come by, nor a host on the ring twice.
THEOREM RingStaysExact == Spec => []RingExact
<1>1. RingInv => RingExact
  BY DEF RingInv
<1> QED BY <1>1, RingInvHolds, PTL

-----------------------------------------------------------------------------
(* The queues of the table.                                                *)

QueueOf(h) == {hosts[h].queue[n] : n \in DOMAIN hosts[h].queue}

\* A URL is queued for its own host, and once.
QueuedOnce ==
  \A h \in Hosts :
    /\ \A n \in DOMAIN hosts[h].queue : HostOf[hosts[h].queue[n]] = h
    /\ \A m, n \in DOMAIN hosts[h].queue : hosts[h].queue[m] = hosts[h].queue[n] => m = n

Counted == buffered = Cardinality(Queued)

LEMMA QueuedMember ==
  ASSUME TableKinds, QueuedOnce, NEW i \in Items
  PROVE  /\ i \in Queued <=> \E h \in Hosts : i \in QueueOf(h)
         /\ \A h \in Hosts : i \in QueueOf(h) => HostOf[i] = h
  BY DEF Queued, QueueOf, QueuedOnce

LEMMA QueuedFinite ==
  /\ Queued \subseteq Items
  /\ IsFiniteSet(Queued) /\ Cardinality(Queued) \in Nat
<1>1. Queued \in SUBSET Items
  BY DEF Queued
<1> QED BY <1>1, HostsAssumption, FS_Subset, FS_CardinalityType

\* The number of a host's queued URLs is the length of its queue.
LEMMA QueueSize ==
  ASSUME TableKinds, QueuedOnce, NEW h \in Hosts
  PROVE  /\ IsFiniteSet(QueueOf(h)) /\ QueueOf(h) \subseteq Queued
         /\ Cardinality(QueueOf(h)) = Len(hosts[h].queue)
         /\ Len(hosts[h].queue) \in Nat
<1> DEFINE q == hosts[h].queue
           I == 1 .. Len(q)
           f == [n \in I |-> q[n]]
<1>1. q \in Seq(Items) /\ Len(q) \in Nat /\ DOMAIN q = I
  BY EntryFields
<1>2. \A n \in I : q[n] \in Items
  BY <1>1
<1>3. QueueOf(h) = {q[n] : n \in I}
  BY <1>1 DEF QueueOf
<1>4. \A m, n \in I : q[m] = q[n] => m = n
  BY <1>1 DEF QueuedOnce
<1>5. IsFiniteSet(I) /\ Cardinality(I) = Len(q)
  <2>1. 1 \in Int /\ Len(q) \in Int
    BY <1>1
  <2> HIDE DEF q
  <2>2. IsFiniteSet(1 .. Len(q)) /\ Cardinality(1 .. Len(q)) = IF 1 > Len(q) THEN 0 ELSE Len(q) - 1 + 1
    BY <2>1, FS_Interval
  <2> QED BY <1>1, <2>2 DEF q
<1>6. QueueOf(h) \subseteq Queued
  BY <1>1, <1>2 DEF QueueOf, Queued
<1> HIDE DEF q, I
<1>7. f \in Surjection(I, QueueOf(h))
  BY <1>3 DEF Surjection
<1>8. f \in Injection(I, QueueOf(h))
  BY <1>3, <1>4 DEF Injection, IsInjective
<1> HIDE DEF f
<1>9. IsFiniteSet(QueueOf(h)) /\ Cardinality(QueueOf(h)) = Cardinality(I)
  BY <1>5, <1>7, <1>8, FS_Surjection
<1> QED BY <1>1, <1>5, <1>6, <1>9 DEF q

LEMMA QueuesKept ==
  ASSUME QueuedOnce, SameQueues
  PROVE  QueuedOnce' /\ Queued' = Queued
  BY DEF QueuedOnce, SameQueues, Queued

OthersKept(h) == \A k \in Hosts \ {h} : hosts'[k].queue = hosts[k].queue

\* The queued URLs are those of one host and those of the others.
LEMMA QueuedSplit ==
  ASSUME NEW h \in Hosts, OthersKept(h)
  PROVE  LET elsewhere(x) == \E k \in Hosts \ {h} : x \in QueueOf(k)
         IN \A x \in Items :
              /\ x \in Queued <=> x \in QueueOf(h) \/ elsewhere(x)
              /\ x \in Queued' <=> x \in QueueOf(h)' \/ elsewhere(x)
<1>1. \A k \in Hosts \ {h} : QueueOf(k)' = QueueOf(k)
  BY DEF OthersKept, QueueOf
<1>2. \A x \in Items : x \in Queued <=> \E k \in Hosts : x \in QueueOf(k)
  BY DEF Queued, QueueOf
<1>3. \A x \in Items : x \in Queued' <=> \E k \in Hosts : x \in QueueOf(k)'
  BY DEF Queued, QueueOf
<1> QED BY <1>1, <1>2, <1>3

LEMMA QueuePushed ==
  ASSUME TableKinds, QueuedOnce, Counted, NEW i \in Items, i \notin Queued,
         OthersKept(HostOf[i]),
         hosts'[HostOf[i]].queue = Append(hosts[HostOf[i]].queue, i)
  PROVE  QueuedOnce' /\ Queued' = Queued \union {i} /\ Cardinality(Queued') = buffered + 1
<1> DEFINE h == HostOf[i]
           q == hosts[h].queue
           p == hosts'[h].queue
<1>1. h \in Hosts /\ q \in Seq(Items)
  BY HostsAssumption, EntryFields
<1>2. p = Append(q, i)
  OBVIOUS
<1> HIDE DEF q, p
<1>3. /\ DOMAIN q = 1 .. Len(q) /\ Len(q) \in Nat /\ DOMAIN p = 1 .. Len(q) + 1
      /\ p[Len(q) + 1] = i /\ \A n \in DOMAIN q : p[n] = q[n]
  BY <1>1, <1>2
<1>4. \A n \in DOMAIN p : n \in DOMAIN q \/ n = Len(q) + 1
  BY <1>3
<1>5. DOMAIN q \subseteq DOMAIN p /\ Len(q) + 1 \in DOMAIN p
  BY <1>3
<1>6. \A n \in DOMAIN q : q[n] # i
  BY <1>1 DEF Queued, q
<1>7. QueuedOnce'
  <2>1. /\ \A n \in DOMAIN q : HostOf[q[n]] = h
        /\ \A m, n \in DOMAIN q : q[m] = q[n] => m = n
    BY <1>1 DEF QueuedOnce, q
  <2>2. \A n \in DOMAIN p : HostOf[p[n]] = h
    BY <1>3, <1>4, <2>1
  <2>3. \A m, n \in DOMAIN p : p[m] = p[n] => m = n
    BY <1>3, <1>4, <1>6, <2>1
  <2> QED BY <2>2, <2>3 DEF QueuedOnce, OthersKept, p
<1>8. Queued' = Queued \union {i}
  <2>1. ASSUME NEW x \in Items PROVE (\E n \in DOMAIN p : p[n] = x) <=> x = i \/ \E n \in DOMAIN q : q[n] = x
    BY <1>3, <1>4, <1>5
  <2>2. \A x \in Items : x \in QueueOf(h)' <=> x = i \/ x \in QueueOf(h)
    BY <2>1 DEF QueueOf, p, q
  <2>3. Queued \subseteq Items /\ Queued' \subseteq Items
    BY DEF Queued
  <2> QED BY <1>1, <2>2, <2>3, QueuedSplit
<1>9. Cardinality(Queued \union {i}) = Cardinality(Queued) + 1
  BY QueuedFinite, FS_AddElement
<1> QED BY <1>7, <1>8, <1>9 DEF Counted

LEMMA QueuePopped ==
  ASSUME TableKinds, QueuedOnce, Counted, NEW h \in Hosts, OthersKept(h),
         hosts[h].queue # <<>>, hosts'[h].queue = Tail(hosts[h].queue)
  PROVE  /\ QueuedOnce' /\ Head(hosts[h].queue) \in Queued
         /\ Queued' = Queued \ {Head(hosts[h].queue)}
         /\ Cardinality(Queued') = buffered - 1
<1> DEFINE q == hosts[h].queue
           p == hosts'[h].queue
           i == Head(q)
<1>1. q \in Seq(Items) /\ q # <<>> /\ p = Tail(q)
  BY EntryFields
<1> HIDE DEF q, p
<1>2. /\ Len(q) \in Nat \ {0} /\ DOMAIN q = 1 .. Len(q) /\ DOMAIN p = 1 .. Len(q) - 1
      /\ i = q[1] /\ i \in Items /\ \A n \in DOMAIN p : p[n] = q[n + 1]
  BY <1>1
<1>3. /\ \A n \in DOMAIN q : HostOf[q[n]] = h
      /\ \A m, n \in DOMAIN q : q[m] = q[n] => m = n
  BY DEF QueuedOnce, q
<1>4. 1 \in DOMAIN q /\ \A n \in DOMAIN p : n + 1 \in DOMAIN q /\ n + 1 # 1
  BY <1>2
<1>5. \A n \in DOMAIN q : n # 1 => n - 1 \in DOMAIN p /\ p[n - 1] = q[n]
  BY <1>2
<1> HIDE DEF i
<1>6. QueuedOnce'
  <2>1. \A n \in DOMAIN p : HostOf[p[n]] = h
    BY <1>2, <1>3, <1>4
  <2>2. \A m, n \in DOMAIN p : p[m] = p[n] => m = n
    <3> SUFFICES ASSUME NEW m \in DOMAIN p, NEW n \in DOMAIN p, p[m] = p[n] PROVE m = n
      OBVIOUS
    <3>1. m + 1 = n + 1
      BY <1>2, <1>3, <1>4
    <3>2. m \in Int /\ n \in Int
      BY <1>2
    <3> QED BY <3>1, <3>2
  <2> QED BY <2>1, <2>2 DEF QueuedOnce, OthersKept, p
<1>7. i \in Queued
  BY <1>2, <1>4 DEF Queued, q
<1>8. Queued' = Queued \ {i}
  <2>1. ASSUME NEW x \in Items
        PROVE  (\E n \in DOMAIN p : p[n] = x) <=> x # i /\ \E n \in DOMAIN q : q[n] = x
    <3>1. ASSUME NEW n \in DOMAIN p, p[n] = x PROVE x # i /\ \E m \in DOMAIN q : q[m] = x
      BY <1>2, <1>3, <1>4, <3>1
    <3>2. ASSUME NEW n \in DOMAIN q, q[n] = x, x # i PROVE \E m \in DOMAIN p : p[m] = x
      BY <1>2, <1>5, <3>2
    <3> QED BY <3>1, <3>2
  <2>2. \A x \in Items : x \in QueueOf(h)' <=> x # i /\ x \in QueueOf(h)
    BY <2>1 DEF QueueOf, p, q
  <2>3. Queued \subseteq Items /\ Queued' \subseteq Items
    BY DEF Queued
  <2>4. \A k \in Hosts : i \in QueueOf(k) => k = h
    BY <1>2, <1>3, <1>4 DEF QueuedOnce, QueueOf
  <2> QED BY <2>2, <2>3, <2>4, QueuedSplit
<1>9. Cardinality(Queued \ {i}) = Cardinality(Queued) - 1
  BY <1>7, QueuedFinite, FS_RemoveElement
<1> QED BY <1>6, <1>7, <1>8, <1>9 DEF Counted, i, q

LEMMA QueueEmptied ==
  ASSUME TableKinds, QueuedOnce, Counted, NEW h \in Hosts, OthersKept(h),
         hosts'[h].queue = <<>>
  PROVE  /\ QueuedOnce' /\ Queued' = Queued \ QueueOf(h)
         /\ Cardinality(Queued') = buffered - Len(hosts[h].queue)
<1>1. QueuedOnce'
  BY DEF QueuedOnce, OthersKept
<1>2. Queued' = Queued \ QueueOf(h)
  <2>1. \A k \in Hosts, x \in Items :
          (\E n \in DOMAIN hosts'[k].queue : hosts'[k].queue[n] = x) <=> k # h /\ x \in QueueOf(k)
    BY DEF OthersKept, QueueOf
  <2>2. \A x : x \in Queued' <=> x \in Items /\ \E k \in Hosts : k # h /\ x \in QueueOf(k)
    BY <2>1 DEF Queued
  <2> QED BY <2>2, QueuedMember, QueuedFinite
<1>3. /\ IsFiniteSet(QueueOf(h)) /\ QueueOf(h) \subseteq Queued
      /\ Cardinality(QueueOf(h)) = Len(hosts[h].queue)
  BY QueueSize
<1>4. Cardinality(Queued \ QueueOf(h)) = Cardinality(Queued) - Cardinality(Queued \cap QueueOf(h))
  BY QueuedFinite, FS_Difference
<1>5. Queued \cap QueueOf(h) = QueueOf(h)
  BY <1>3
<1> QED BY <1>1, <1>2, <1>3, <1>4, <1>5 DEF Counted

LEMMA QueuesGone ==
  ASSUME NewTable
  PROVE  QueuedOnce' /\ Queued' = {} /\ Counted'
<1>1. \A h \in Hosts : hosts'[h].queue = <<>>
  BY DEF NewTable, Absent
<1>2. Queued' = {} /\ QueuedOnce'
  BY <1>1 DEF Queued, QueuedOnce
<1> QED BY <1>2, FS_EmptySet DEF Counted, NewTable

-----------------------------------------------------------------------------
(* One home for every URL.                                                 *)

Picked   == {j.item : j \in jobs \union work}
Handled  == {b.job.item : b \in busy}
Reported == {r.item : r \in results}

One(p) == IF p THEN 1 ELSE 0

Away     == UNION back

Homes(i) ==
  One(i \in stock) + One(i \in leased) + One(i \in Queued) + One(i \in drops)
  + One(i \in Picked) + One(i \in Handled) + One(i \in Reported) + One(i \in settled)
  + One(i \in Away) + One(i \in dropped)

\* A URL is the subject of one job, of one worker, of one result.
JobsOnce ==
  /\ \A j, k \in jobs \union work : j.item = k.item /\ j.item # NoItem => j = k
  /\ \A j \in jobs \intersect work : j.item = NoItem
  /\ \A b, c \in busy : b.job.item = c.job.item /\ b.job.item # NoItem => b = c
  /\ \A r, s \in results : r.item = s.item => r = s

\* A URL is in the hands of one DropBuffered.
AwayOnce == \A B, C \in back : B \intersect C # {} => B = C

Parts == QueuedOnce /\ Counted /\ JobsOnce

HomesInv == Shape /\ Parts /\ AwayOnce /\ \A i \in Items : Homes(i) = 1

LEMMA InitHomesInv == Init => HomesInv
<1> SUFFICES ASSUME Init PROVE HomesInv
  OBVIOUS
<1>1. \A h \in Hosts : hosts[h].queue = <<>>
  BY DEF Init, Absent
<1>2. Queued = {} /\ QueuedOnce
  BY <1>1 DEF Queued, QueuedOnce
<1>3. Counted
  BY <1>2, FS_EmptySet DEF Counted, Init
<1>4. JobsOnce /\ Picked = {} /\ Handled = {} /\ Reported = {} /\ AwayOnce /\ Away = {}
  BY DEF Init, JobsOnce, Picked, Handled, Reported, AwayOnce, Away
<1>5. \A i \in Items : Homes(i) = 1
  BY <1>2, <1>4 DEF Init, Homes, One
<1> QED BY <1>2, <1>3, <1>4, <1>5, InitShape DEF HomesInv, Parts

\* The steps of the table's part that move no URL.
LEMMA QuietParts ==
  ASSUME HomesInv, Quiet
  PROVE  QueuedOnce' /\ Counted' /\ Queued' = Queued
<1>1. SameQueues /\ buffered' = buffered
  BY QuietQueues DEF HomesInv
<1> QED BY <1>1, QueuesKept DEF HomesInv, Parts, Counted

\* Where the sets of URLs stay as they are, each has its home still.
LEMMA HomesKept ==
  ASSUME HomesInv, Queued' = Queued, UNCHANGED <<back, dropped, stock, leased, drops, settled>>,
         \A i \in Items : i \in Picked' <=> i \in Picked,
         \A i \in Items : i \in Handled' <=> i \in Handled,
         Reported' = Reported
  PROVE  \A i \in Items : (Homes(i) = 1)'
  BY DEF HomesInv, Homes, One, Away

\* The scheduler's steps between lease and table, and those that only look around.
LEMMA RefillHomes ==
  ASSUME HomesInv, RefillLease \/ \E i \in leased : RefillInsert(i)
  PROVE  Parts' /\ \A i \in Items : (Homes(i) = 1)'
<1>t. /\ TableKinds /\ Progress /\ leased \subseteq Items /\ QueuedOnce /\ Counted /\ JobsOnce
      /\ \A i \in Items : Homes(i) = 1
  BY DEF HomesInv, Shape, Kinds, Parts
<1>1. CASE RefillLease
  <2>1. QueuedOnce' /\ Counted' /\ Queued' = Queued
    BY <1>1, QuietParts DEF Quiet
  <2>2. /\ UNCHANGED <<back, dropped, drops, settled, jobs, work, busy, results>>
    BY <1>1 DEF RefillLease, pool, buttons
  <2>3. JobsOnce' /\ Picked' = Picked /\ Handled' = Handled /\ Reported' = Reported
    BY <1>t, <2>2 DEF JobsOnce, Picked, Handled, Reported
  <2>4. leased = {}
    BY <1>1, <1>t DEF RefillLease, Progress
  <2>5. PICK some \in SUBSET stock : leased' = some /\ stock' = stock \ some
    BY <1>1 DEF RefillLease
  <2>6. \A i \in Items : (Homes(i) = 1)'
    BY <1>t, <2>1, <2>2, <2>3, <2>4, <2>5 DEF Homes, One, Away
  <2> QED BY <2>1, <2>3, <2>6 DEF Parts
<1>2. ASSUME NEW i \in leased, RefillInsert(i)
      PROVE  Parts' /\ \A x \in Items : (Homes(x) = 1)'
  <2> DEFINE h == HostOf[i]
  <2>1. i \in Items /\ h \in Hosts
    BY <1>t, HostsAssumption
  <2>2. i \notin Queued
    BY <1>t, <2>1 DEF Homes, One, Away
  <2>3. /\ hosts'[h].queue = Append(hosts[h].queue, i) /\ OthersKept(h)
        /\ buffered' = buffered + 1 /\ leased' = leased \ {i}
    <3>1. HostLocked(h) \in EntryType /\ HostLocked(h).queue = hosts[h].queue
      BY <1>t, <2>1, EntryFields
    <3> QED BY <1>2, <1>t, <2>1, <3>1 DEF RefillInsert, OthersKept, TableKinds, EntryType
  <2>4. QueuedOnce' /\ Queued' = Queued \union {i} /\ Cardinality(Queued') = buffered + 1
    BY <1>t, <2>1, <2>2, <2>3, QueuePushed
  <2>5. UNCHANGED <<back, dropped, stock, drops, settled, jobs, work, busy, results>>
    BY <1>2 DEF RefillInsert, pool, durable, buttons
  <2>6. JobsOnce' /\ Picked' = Picked /\ Handled' = Handled /\ Reported' = Reported
    BY <1>t, <2>5 DEF JobsOnce, Picked, Handled, Reported
  <2>7. \A x \in Items : (Homes(x) = 1)'
    BY <1>t, <2>2, <2>3, <2>4, <2>5, <2>6 DEF Homes, One, Away
  <2> QED BY <2>3, <2>4, <2>6, <2>7 DEF Parts, Counted
<1> QED BY <1>1, <1>2

LEMMA PickHomes ==
  ASSUME HomesInv, PickBegin \/ PickVisit \/ PickEnd
  PROVE  Parts' /\ \A i \in Items : (Homes(i) = 1)'
<1>t. /\ TableKinds /\ QueuedOnce /\ Counted /\ JobsOnce /\ jobs \subseteq JobType
      /\ \A i \in Items : Homes(i) = 1
  BY DEF HomesInv, Shape, Kinds, Parts
<1>1. CASE PickBegin \/ PickEnd
  <2>1. QueuedOnce' /\ Counted' /\ Queued' = Queued
    BY <1>1, QuietParts DEF Quiet
  <2>2. UNCHANGED <<back, dropped, stock, leased, drops, settled, jobs, work, busy, results>>
    BY <1>1 DEF PickBegin, PickEnd, pool, durable, buttons
  <2>3. JobsOnce' /\ Picked' = Picked /\ Handled' = Handled /\ Reported' = Reported
    BY <1>t, <2>2 DEF JobsOnce, Picked, Handled, Reported
  <2>4. \A i \in Items : (Homes(i) = 1)'
    BY <2>1, <2>2, <2>3, HomesKept
  <2> QED BY <2>1, <2>3, <2>4 DEF Parts
<1>2. ASSUME NEW h \in Hosts, Visiting(h)
      PROVE  /\ UNCHANGED <<back, dropped, stock, leased, settled, work, busy, results>>
             /\ Handled' = Handled /\ Reported' = Reported
             /\ UNCHANGED jobs => JobsOnce' /\ Picked' = Picked
  BY <1>2, <1>t DEF Visiting, pool, durable, buttons, JobsOnce, Picked, Handled, Reported
<1>3. ASSUME NEW h \in Hosts, PickPass(h) \/ PickNoRobots(h)
      PROVE  Parts' /\ \A i \in Items : (Homes(i) = 1)'
  <2>1. QueuedOnce' /\ Counted' /\ Queued' = Queued
    BY <1>3, QuietParts DEF Quiet
  <2>2. Visiting(h) /\ UNCHANGED <<jobs, drops>>
    BY <1>3 DEF PickPass, PickNoRobots
  <2>3. \A i \in Items : (Homes(i) = 1)'
    BY <1>2, <2>1, <2>2, HomesKept
  <2> QED BY <1>2, <2>1, <2>2, <2>3 DEF Parts
<1>4. ASSUME NEW h \in Hosts, PickRobots(h)
      PROVE  Parts' /\ \A i \in Items : (Homes(i) = 1)'
  <2>1. QueuedOnce' /\ Counted' /\ Queued' = Queued
    BY <1>4, QuietParts DEF Quiet
  <2>2. Visiting(h) /\ drops' = drops /\ jobs' = jobs \union {Job(h, NoItem)}
    BY <1>4 DEF PickRobots
  <2>3. Job(h, NoItem).item = NoItem
    BY DEF Job
  <2>4. \A i \in Items : i \in Picked' <=> i \in Picked
    BY <1>2, <2>2, <2>3, HostsAssumption DEF Picked
  <2>5. JobsOnce'
    BY <1>2, <1>t, <2>2, <2>3 DEF JobsOnce
  <2>6. \A i \in Items : (Homes(i) = 1)'
    BY <1>2, <2>1, <2>2, <2>4, HomesKept
  <2> QED BY <2>1, <2>5, <2>6 DEF Parts
<1>5. ASSUME NEW h \in Hosts, PickEmpty(h)
      PROVE  Parts' /\ \A i \in Items : (Homes(i) = 1)'
  <2>1. Visiting(h) /\ UNCHANGED <<jobs, drops, buffered>>
    BY <1>5 DEF PickEmpty
  <2>2. \A k \in Hosts : hosts'[k].queue = hosts[k].queue
    BY <1>5, <1>t DEF PickEmpty, TableKinds, EntryType
  <2>3. Queued' = Queued /\ QueuedOnce'
    BY <1>t, <2>2 DEF Queued, QueuedOnce
  <2>4. \A i \in Items : (Homes(i) = 1)'
    BY <1>2, <2>1, <2>3, HomesKept
  <2> QED BY <1>2, <1>t, <2>1, <2>3, <2>4 DEF Parts, Counted
<1>6. ASSUME NEW h \in Hosts, PickFailing(h)
      PROVE  Parts' /\ \A i \in Items : (Homes(i) = 1)'
  <2>1. /\ Visiting(h) /\ jobs' = jobs /\ drops' = drops \union QueueOf(h)
        /\ buffered' = buffered - Len(hosts[h].queue)
    BY <1>6 DEF PickFailing, QueueOf
  <2>2. hosts'[h].queue = <<>> /\ OthersKept(h)
    BY <1>6, <1>t DEF PickFailing, OthersKept, TableKinds, EntryType
  <2>3. /\ QueuedOnce' /\ Queued' = Queued \ QueueOf(h)
        /\ Cardinality(Queued') = buffered - Len(hosts[h].queue)
    BY <1>t, <2>2, QueueEmptied
  <2>4. QueueOf(h) \subseteq Queued
    BY <1>t, QueueSize
  <2>5. \A i \in Items : (Homes(i) = 1)'
    BY <1>2, <1>t, <2>1, <2>3, <2>4 DEF Homes, One, Away
  <2> QED BY <1>2, <2>1, <2>3, <2>5 DEF Parts, Counted
<1>7. ASSUME NEW h \in Hosts, PickSkip(h)
      PROVE  Parts' /\ \A i \in Items : (Homes(i) = 1)'
  <2> DEFINE x == Head(hosts[h].queue)
  <2>1. /\ Visiting(h) /\ jobs' = jobs /\ drops' = drops \union {x}
        /\ buffered' = buffered - 1 /\ hosts[h].queue # <<>>
    BY <1>7 DEF PickSkip, Eligible
  <2>2. hosts'[h].queue = Tail(hosts[h].queue) /\ OthersKept(h)
    BY <1>7, <1>t DEF PickSkip, OthersKept, TableKinds, EntryType
  <2>3. QueuedOnce' /\ x \in Queued /\ Queued' = Queued \ {x} /\ Cardinality(Queued') = buffered - 1
    BY <1>t, <2>1, <2>2, QueuePopped
  <2> HIDE DEF x
  <2>4. \A i \in Items : (Homes(i) = 1)'
    BY <1>2, <1>t, <2>1, <2>3 DEF Homes, One, Away
  <2> QED BY <1>2, <2>1, <2>3, <2>4 DEF Parts, Counted
<1>8. ASSUME NEW h \in Hosts, NEW d \in Delay .. MaxDelay, PickPage(h, d)
      PROVE  Parts' /\ \A i \in Items : (Homes(i) = 1)'
  <2> DEFINE x == Head(hosts[h].queue)
  <2>1. /\ Visiting(h) /\ jobs' = jobs \union {Job(h, x)} /\ drops' = drops
        /\ buffered' = buffered - 1 /\ hosts[h].queue # <<>>
    BY <1>8 DEF PickPage, Eligible
  <2>2. hosts'[h].queue = Tail(hosts[h].queue) /\ OthersKept(h)
    BY <1>8, <1>t DEF PickPage, OthersKept, TableKinds, EntryType
  <2>3. QueuedOnce' /\ x \in Queued /\ Queued' = Queued \ {x} /\ Cardinality(Queued') = buffered - 1
    BY <1>t, <2>1, <2>2, QueuePopped
  <2>4. Job(h, x).item = x
    BY DEF Job
  <2> HIDE DEF x
  <2>5. x \in Items /\ x \notin Picked
    BY <1>t, <2>3 DEF Homes, One, Away, Queued
  <2>6. Picked' = Picked \union {x}
    BY <1>2, <2>1, <2>4 DEF Picked
  <2>7. JobsOnce'
    BY <1>2, <1>t, <2>1, <2>4, <2>5 DEF JobsOnce, Picked
  <2>8. \A i \in Items : (Homes(i) = 1)'
    BY <1>2, <1>t, <2>1, <2>3, <2>5, <2>6 DEF Homes, One, Away
  <2> QED BY <2>1, <2>3, <2>7, <2>8 DEF Parts, Counted
<1> QED BY <1>1, <1>3, <1>4, <1>5, <1>6, <1>7, <1>8 DEF PickVisit

LEMMA ChannelHomes ==
  ASSUME HomesInv, \/ \E i \in drops : SendDrop(i)
                   \/ \E j \in jobs : SendJob(j)
                   \/ \E j \in work : Take(j)
                   \/ \E r \in results : Collect(r)
  PROVE  Parts' /\ \A i \in Items : (Homes(i) = 1)'
<1>t. /\ JobsOnce /\ drops \subseteq Items /\ results \subseteq ResultType
      /\ jobs \subseteq JobType /\ work \subseteq JobType
      /\ \A i \in Items : Homes(i) = 1
  BY DEF HomesInv, Shape, Kinds, Parts
<1>q. QueuedOnce' /\ Counted' /\ Queued' = Queued
  BY QuietParts DEF Quiet
<1>1. ASSUME NEW i \in drops, SendDrop(i)
      PROVE  Parts' /\ \A x \in Items : (Homes(x) = 1)'
  <2> DEFINE r == [item |-> i, retry |-> FALSE]
  <2>1. /\ UNCHANGED <<back, dropped, stock, leased, settled, jobs, work, busy>>
        /\ drops' = drops \ {i} /\ results' = results \union {r} /\ r.item = i
    BY <1>1 DEF SendDrop, durable, buttons
  <2> HIDE DEF r
  <2>2. i \in Items /\ i \notin Reported
    BY <1>t DEF Homes, One, Away
  <2>3. Reported' = Reported \union {i} /\ Picked' = Picked /\ Handled' = Handled
    BY <2>1 DEF Reported, Picked, Handled
  <2>4. JobsOnce'
    BY <1>t, <2>1, <2>2 DEF JobsOnce, Reported
  <2>5. \A x \in Items : (Homes(x) = 1)'
    BY <1>q, <1>t, <2>1, <2>2, <2>3 DEF Homes, One, Away
  <2> QED BY <1>q, <2>4, <2>5 DEF Parts
<1>2. ASSUME NEW j \in jobs, SendJob(j)
      PROVE  Parts' /\ \A x \in Items : (Homes(x) = 1)'
  <2>1. /\ UNCHANGED <<back, dropped, stock, leased, drops, settled, busy, results>>
        /\ jobs' = jobs \ {j} /\ work' = work \union {j}
    BY <1>2 DEF SendJob, durable, buttons
  <2>2. jobs' \union work' = jobs \union work
    BY <2>1
  <2>3. Picked' = Picked /\ Reported' = Reported /\ Handled' = Handled
    BY <2>1, <2>2 DEF Reported, Picked, Handled
  <2>4. JobsOnce'
    BY <1>t, <2>1, <2>2 DEF JobsOnce
  <2>5. \A x \in Items : (Homes(x) = 1)'
    BY <1>q, <2>1, <2>3, HomesKept
  <2> QED BY <1>q, <2>4, <2>5 DEF Parts
<1>3. ASSUME NEW j \in work, Take(j)
      PROVE  Parts' /\ \A x \in Items : (Homes(x) = 1)'
  <2> DEFINE b == [job |-> j, phase |-> "fetch"]
  <2>1. /\ UNCHANGED <<back, dropped, stock, leased, drops, settled, jobs, results>>
        /\ work' = work \ {j} /\ busy' = busy \union {b} /\ b.job = j
    BY <1>3 DEF Take, scheduler, durable, buttons
  <2> HIDE DEF b
  <2>2. j.item \in Items \/ j.item = NoItem
    BY <1>t DEF JobType
  <2>3. /\ \A x \in Items : x \in Picked' <=> x \in Picked /\ x # j.item
        /\ Handled' = Handled \union {j.item} /\ Reported' = Reported /\ j.item \in Picked
    BY <1>t, <2>1, HostsAssumption DEF JobsOnce, Picked, Handled, Reported
  <2>4. j.item \in Items => j.item \notin Handled
    BY <1>t, <2>3 DEF Homes, One, Away
  <2>5. JobsOnce'
    BY <1>t, <2>1, <2>2, <2>4 DEF JobsOnce, Handled
  <2>6. \A x \in Items : (Homes(x) = 1)'
    BY <1>q, <1>t, <2>1, <2>3, <2>4 DEF Homes, One, Away
  <2> QED BY <1>q, <2>5, <2>6 DEF Parts
<1>4. ASSUME NEW r \in results, Collect(r)
      PROVE  Parts' /\ \A x \in Items : (Homes(x) = 1)'
  <2>1. /\ UNCHANGED <<back, dropped, leased, drops, jobs, work, busy>>
        /\ results' = results \ {r}
        /\ \/ stock' = stock \union {r.item} /\ settled' = settled
           \/ settled' = settled \union {r.item} /\ stock' = stock
    BY <1>4 DEF Collect, scheduler, buttons
  <2>2. r.item \in Items /\ r.item \in Reported
    BY <1>t DEF ResultType, Reported
  <2>3. Reported' = Reported \ {r.item} /\ Picked' = Picked /\ Handled' = Handled
    BY <1>t, <2>1 DEF JobsOnce, Reported, Picked, Handled
  <2>4. JobsOnce'
    BY <1>t, <2>1 DEF JobsOnce
  <2>5. \A x \in Items : (Homes(x) = 1)'
    BY <1>q, <1>t, <2>1, <2>2, <2>3 DEF Homes, One, Away
  <2> QED BY <1>q, <2>4, <2>5 DEF Parts
<1> QED BY <1>1, <1>2, <1>3, <1>4

LEMMA WorkerHomes ==
  ASSUME HomesInv, NEW b \in busy, Worker(b)
  PROVE  Parts' /\ \A i \in Items : (Homes(i) = 1)'
<1>t. /\ JobsOnce /\ busy \subseteq BusyType /\ b \in BusyType
      /\ Shape /\ \A i \in Items : Homes(i) = 1
  BY DEF HomesInv, Shape, Kinds, Parts
<1>q. QueuedOnce' /\ Counted' /\ Queued' = Queued
  BY QuietParts DEF Quiet
<1>1. ASSUME NEW d, RobotsDone(b, d)
      PROVE  Parts' /\ \A x \in Items : (Homes(x) = 1)'
  <2>1. /\ UNCHANGED <<back, dropped, stock, leased, drops, settled, jobs, work, results>>
        /\ busy' = busy \ {b} /\ b.job.item = NoItem
    BY <1>1 DEF RobotsDone, scheduler, durable, buttons
  <2>2. JobsOnce' /\ Picked' = Picked /\ Reported' = Reported
    BY <1>t, <2>1 DEF JobsOnce, Picked, Reported
  <2>3. \A x \in Items : x \in Handled' <=> x \in Handled
    BY <2>1, HostsAssumption DEF Handled
  <2>4. \A x \in Items : (Homes(x) = 1)'
    BY <1>q, <2>1, <2>2, <2>3, HomesKept
  <2> QED BY <1>q, <2>2, <2>4 DEF Parts
\* The phase of a worker changes, its job does not.
<1>2. ASSUME NEW phase, busy' = (busy \ {b}) \union {[b EXCEPT !.phase = phase]},
             UNCHANGED <<back, dropped, stock, leased, drops, settled, jobs, work, results>>
      PROVE  Parts' /\ \A x \in Items : (Homes(x) = 1)'
  <2> DEFINE c == [b EXCEPT !.phase = phase]
  <2>1. c.job = b.job
    BY <1>t DEF BusyType
  <2>2. busy' = (busy \ {b}) \union {c}
    BY <1>2
  <2> HIDE DEF c
  <2>3. JobsOnce' /\ Picked' = Picked /\ Reported' = Reported
    BY <1>t, <1>2, <2>1, <2>2 DEF JobsOnce, Picked, Reported
  <2>4. Handled' = Handled
    BY <2>1, <2>2 DEF Handled
  <2>5. \A x \in Items : (Homes(x) = 1)'
    BY <1>q, <1>2, <2>3, <2>4, HomesKept
  <2> QED BY <1>q, <2>3, <2>5 DEF Parts
<1>3. ASSUME NEW failed, NEW throttled, PageDone(b, failed, throttled)
      PROVE  Parts' /\ \A x \in Items : (Homes(x) = 1)'
  BY <1>2, <1>3 DEF PageDone, scheduler, durable, buttons
<1>4. CASE Penalize(b)
  BY <1>2, <1>4 DEF Penalize, scheduler, durable, buttons
<1>5. CASE Report(b)
  <2> DEFINE i == b.job.item
             r == [item |-> i, retry |-> b.phase = "retry"]
  <2>1. /\ UNCHANGED <<back, dropped, stock, leased, drops, settled, jobs, work>>
        /\ busy' = busy \ {b} /\ results' = results \union {r} /\ r.item = i
    BY <1>5 DEF Report, scheduler, durable, buttons
  <2>2. i \in Items
    BY <1>5, <1>t DEF Report, Shape, Progress, BusyType, JobType
  <2>3. i \in Handled
    BY DEF Handled
  <2>4. i \notin Reported
    BY <1>t, <2>2, <2>3 DEF Homes, One, Away
  <2>5. Handled' = Handled \ {i}
    BY <1>t, <2>1, <2>2, HostsAssumption DEF JobsOnce, Handled
  <2> HIDE DEF r
  <2>6. Reported' = Reported \union {i} /\ Picked' = Picked
    BY <2>1 DEF Reported, Picked
  <2>7. JobsOnce'
    BY <1>t, <2>1, <2>4 DEF JobsOnce, Reported
  <2> HIDE DEF i
  <2>8. \A x \in Items : (Homes(x) = 1)'
    BY <1>q, <1>t, <2>1, <2>2, <2>3, <2>4, <2>5, <2>6 DEF Homes, One, Away
  <2> QED BY <1>q, <2>7, <2>8 DEF Parts
<1> QED BY <1>1, <1>3, <1>4, <1>5 DEF Worker

\* The steps that hand URLs from or to a button.
ButtonStep == DropBuffered \/ ClearQueueBegin \/ ClearQueueEnd \/ StoreStep

LEMMA TableHomes ==
  ASSUME HomesInv, ButtonStep \/ Tick \/ UNCHANGED vars
  PROVE  Parts' /\ \A i \in Items : (Homes(i) = 1)'
<1>t. /\ QueuedOnce /\ JobsOnce /\ stock \subseteq Items
      /\ \A i \in Items : Homes(i) = 1
  BY DEF HomesInv, Shape, Kinds, Parts
<1>s. UNCHANGED <<leased, drops, jobs, work, busy, results>>
  BY StoreStepKeeps
  DEF ButtonStep, DropBuffered, ClearQueueBegin, ClearQueueEnd, Tick, NewTable, vars, scheduler, pool
<1>j. JobsOnce' /\ Picked' = Picked /\ Handled' = Handled /\ Reported' = Reported
  BY <1>t, <1>s DEF JobsOnce, Picked, Handled, Reported
<1>1. CASE DropBuffered \/ ClearQueueBegin \/ ClearQueueEnd
  <2>1. QueuedOnce' /\ Queued' = {} /\ Counted'
    BY <1>1, QueuesGone DEF DropBuffered, ClearQueueBegin, ClearQueueEnd
  <2>2. /\ UNCHANGED <<stock, settled>>
        /\ \/ Away' = Away \union Queued /\ dropped' = dropped
           \/ dropped' = dropped \union Queued /\ Away' = Away
    BY <1>1 DEF DropBuffered, ClearQueueBegin, ClearQueueEnd, Away
  <2>3. \A i \in Items : (Homes(i) = 1)'
    BY <1>t, <1>s, <1>j, <2>1, <2>2 DEF Homes, One
  <2> QED BY <1>j, <2>1, <2>3 DEF Parts
<1>2. CASE StoreStep \/ Tick \/ UNCHANGED vars
  <2>1. QueuedOnce' /\ Counted' /\ Queued' = Queued
    BY <1>2, QuietParts DEF Quiet
  <2>2. \/ stock' = {} /\ dropped' = {} /\ settled' = settled \union stock \union dropped /\ Away' = Away
        \/ stock' = {} /\ settled' = settled \union stock /\ dropped' = dropped /\ Away' = Away
        \/ UNCHANGED <<stock, settled, Away, dropped>>
        \/ \E some \in back : /\ Away' = Away \ some /\ settled' = settled
                             /\ \/ stock' = stock \union some /\ dropped' = dropped
                                \/ dropped' = dropped \union some /\ stock' = stock
    <3>1. ASSUME NEW some \in back, RequeueBack(some) \/ RequeueBackFails(some)
          PROVE  /\ Away' = Away \ some /\ settled' = settled
                 /\ \/ stock' = stock \union some /\ dropped' = dropped
                    \/ dropped' = dropped \union some /\ stock' = stock
      <4>1. back' = back \ {some}
        BY <3>1 DEF RequeueBack, RequeueBackFails
      <4>2. \A B \in back : B # some => B \intersect some = {}
        BY DEF HomesInv, AwayOnce
      <4>3. Away' = Away \ some
        BY <4>1, <4>2 DEF Away
      <4> QED BY <3>1, <4>3 DEF RequeueBack, RequeueBackFails
    <3>2. CASE ClearQueueStore
      BY <3>2 DEF ClearQueueStore, Away
    <3>3. CASE ClearQueueFails
      BY <3>3 DEF ClearQueueFails, Away
    <3>4. CASE Tick \/ UNCHANGED vars
      BY <3>4 DEF Tick, vars, durable, buttons, Away
    <3> QED BY <1>2, <3>1, <3>2, <3>3, <3>4 DEF StoreStep
  <2>3. \A some \in back : some \subseteq Away
    BY DEF Away
  <2>4. \A i \in Items : (Homes(i) = 1)'
    BY <1>t, <1>s, <1>j, <2>1, <2>2, <2>3 DEF Homes, One
  <2> QED BY <1>j, <2>1, <2>4 DEF Parts
<1> QED BY <1>1, <1>2 DEF ButtonStep

LEMMA NextAwayOnce ==
  ASSUME HomesInv, [Next]_vars
  PROVE  AwayOnce'
<1>1. \/ back' \subseteq back
      \/ back' = back \union {Queued}
  <2>1. CASE UNCHANGED vars
    BY <2>1 DEF vars, durable, buttons
  <2>2. CASE RefillLease \/ PickBegin \/ Scheduler \/ Tick
    BY <2>2 DEF RefillLease, PickBegin, Scheduler, Tick, RefillInsert, PickVisit, PickEmpty,
                PickFailing, PickPass, PickNoRobots, PickRobots, PickSkip, PickPage, Visiting,
                PickEnd, SendDrop, SendJob, durable, buttons
  <2>3. ASSUME NEW x, Take(x) \/ Collect(x) \/ Worker(x) PROVE back' = back
    BY <2>3 DEF Take, Collect, Worker, RobotsDone, PageDone, Penalize, Report, durable, buttons
  <2>4. CASE ButtonStep
    BY <2>4 DEF ButtonStep, StoreStep, DropBuffered, RequeueBack, RequeueBackFails,
                ClearQueueBegin, ClearQueueStore, ClearQueueFails, ClearQueueEnd
  <2> QED BY <2>1, <2>2, <2>3, <2>4 DEF Next, ButtonStep, StoreStep
<1>2. \A B \in back : B \intersect Queued = {}
  <2> SUFFICES ASSUME NEW B \in back, NEW i \in B, i \in Queued PROVE FALSE
    OBVIOUS
  <2>1. i \in Items /\ i \in Away /\ Homes(i) = 1
    BY DEF HomesInv, Shape, Kinds, Away
  <2> QED BY <2>1 DEF Homes, One
<1>3. AwayOnce
  BY DEF HomesInv
<1> QED BY <1>1, <1>2, <1>3 DEF AwayOnce

LEMMA NextHomesInv == HomesInv /\ [Next]_vars => HomesInv'
<1> SUFFICES ASSUME HomesInv, [Next]_vars PROVE HomesInv'
  OBVIOUS
<1>1. Shape'
  BY NextShape DEF HomesInv
<1>2. Parts' /\ \A i \in Items : (Homes(i) = 1)'
  <2>1. CASE UNCHANGED vars
    BY <2>1, TableHomes
  <2>2. CASE Next
    BY <2>2, RefillHomes, PickHomes, ChannelHomes, WorkerHomes, TableHomes
    DEF Next, Scheduler, ButtonStep, StoreStep
  <2> QED BY <2>1, <2>2
<1> QED BY <1>1, <1>2, NextAwayOnce DEF HomesInv

LEMMA HomesInvHolds == Spec => []HomesInv
  BY InitHomesInv, NextHomesInv, PTL DEF Spec

-----------------------------------------------------------------------------
(* The model's count of a URL's places is that of its homes.               *)

LEMMA AtMostOne ==
  ASSUME NEW S, \A x, y \in S : x = y
  PROVE  Cardinality(S) = One(S # {})
<1>1. CASE S = {}
  BY <1>1, FS_EmptySet DEF One
<1>2. CASE S # {}
  <2>1. PICK x \in S : TRUE
    BY <1>2
  <2>2. S = {x}
    BY <2>1
  <2> QED BY <1>2, <2>2, FS_Singleton DEF One
<1> QED BY <1>1, <1>2

LEMMA PlacesAreHomes ==
  ASSUME HomesInv, NEW i \in Items
  PROVE  Places(i) = Homes(i)
<1> DEFINE Q == {p \in Hosts \X (1 .. Cardinality(Items)) :
                   p[2] \in DOMAIN hosts[p[1]].queue /\ hosts[p[1]].queue[p[2]] = i}
           J == {j \in jobs \union work : j.item = i}
           B == {b \in busy : b.job.item = i}
           R == {r \in results : r.item = i}
           A == {some \in back : i \in some}
<1>t. TableKinds /\ QueuedOnce /\ JobsOnce /\ AwayOnce /\ i # NoItem
  BY HostsAssumption DEF HomesInv, Shape, Kinds, Parts
<1>1. Cardinality(J) = One(i \in Picked)
  <2>1. (J # {}) = (i \in Picked)
    BY DEF Picked
  <2>2. \A j, k \in J : j = k
    BY <1>t DEF JobsOnce
  <2> HIDE DEF J
  <2> QED BY <2>1, <2>2, AtMostOne
<1>2. Cardinality(B) = One(i \in Handled)
  <2>1. (B # {}) = (i \in Handled)
    BY DEF Handled
  <2>2. \A b, c \in B : b = c
    BY <1>t DEF JobsOnce
  <2> HIDE DEF B
  <2> QED BY <2>1, <2>2, AtMostOne
<1>3. Cardinality(R) = One(i \in Reported)
  <2>1. (R # {}) = (i \in Reported)
    BY DEF Reported
  <2>2. \A r, s \in R : r = s
    BY <1>t DEF JobsOnce
  <2> HIDE DEF R
  <2> QED BY <2>1, <2>2, AtMostOne
<1>4. Cardinality(Q) = One(i \in Queued)
  <2>1. ASSUME NEW h \in Hosts, NEW n \in DOMAIN hosts[h].queue
        PROVE  n \in 1 .. Cardinality(Items)
    <3>1. /\ Cardinality(QueueOf(h)) = Len(hosts[h].queue) /\ QueueOf(h) \subseteq Items
          /\ Len(hosts[h].queue) \in Nat
      BY <1>t, QueueSize, QueuedFinite
    <3>2. Cardinality(QueueOf(h)) <= Cardinality(Items) /\ Cardinality(Items) \in Nat
      BY <3>1, HostsAssumption, FS_Subset, FS_CardinalityType
    <3>3. n \in 1 .. Len(hosts[h].queue)
      BY <1>t, EntryFields
    <3> QED BY <3>1, <3>2, <3>3
  <2>2. (Q # {}) = (i \in Queued)
    <3>1. ASSUME i \in Queued PROVE Q # {}
      <4>1. PICK h \in Hosts : \E n \in DOMAIN hosts[h].queue : hosts[h].queue[n] = i
        BY <3>1 DEF Queued
      <4>2. PICK n \in DOMAIN hosts[h].queue : hosts[h].queue[n] = i
        BY <4>1
      <4>3. <<h, n>> \in Q
        BY <2>1, <4>2
      <4> QED BY <4>3
    <3>2. ASSUME NEW p \in Q PROVE i \in Queued
      BY DEF Queued
    <3> QED BY <3>1, <3>2
  <2>3. \A p, r \in Q : p = r
    <3> SUFFICES ASSUME NEW p \in Q, NEW r \in Q PROVE p = r
      OBVIOUS
    <3>1. p[1] = HostOf[i] /\ r[1] = HostOf[i]
      BY <1>t DEF QueuedOnce
    <3>2. p[2] = r[2]
      BY <1>t, <3>1 DEF QueuedOnce
    <3> QED BY <3>1, <3>2
  <2> HIDE DEF Q
  <2> QED BY <2>2, <2>3, AtMostOne
<1>5. Cardinality(A) = One(i \in Away)
  <2>1. (A # {}) = (i \in Away)
    BY DEF Away
  <2>2. \A some, other \in A : some = other
    BY <1>t DEF AwayOnce
  <2> HIDE DEF A
  <2> QED BY <2>1, <2>2, AtMostOne
<1>6. Places(i) =
        One(i \in stock) + One(i \in leased) + Cardinality(Q) + One(i \in drops)
        + Cardinality(J) + Cardinality(B) + Cardinality(R) + Cardinality(A)
        + One(i \in dropped) + One(i \in settled)
  BY DEF Places, One
<1> HIDE DEF Q, J, B, R, A
<1> QED BY <1>1, <1>2, <1>3, <1>4, <1>5, <1>6 DEF Homes, One

\* ItemsConserved: however pick, the workers, the collector and the steps of any number
\* of maintenance buttons interleave, and whichever of their writes fail, every item is
\* in exactly one place, in a button's hands or let go of by it if nowhere else, and the
\* counter refill works from is the number of those queued.
THEOREM ItemsAreConserved == Spec => []ItemsConserved
<1>1. HomesInv => ItemsConserved
  BY PlacesAreHomes DEF HomesInv, Parts, Counted, ItemsConserved
<1> QED BY <1>1, HomesInvHolds, PTL

\* TypeOK: with ItemsConserved the counter is never below zero.
THEOREM TypeCorrect == Spec => []TypeOK
<1>1. HomesInv => TypeOK
  BY QueuedFinite DEF HomesInv, Shape, Kinds, TableKinds, Parts, Counted, TypeOK
<1> QED BY <1>1, HomesInvHolds, PTL

-----------------------------------------------------------------------------
(* The load of a host.  A slot (inflight) is taken with the request and    *)
(* given back once for it, but perhaps to the entry of a later table: so   *)
(* what exceeds the slots is at most Burst for each table thrown away.     *)

Held == {b.job : b \in busy}

\* No job is in two hands.
JobsApart == jobs \intersect work = {} /\ Held \intersect (jobs \union work) = {}

\* The host's rules have not been asked for since its entry was made.
Virgin(h) == hosts[h].state \in {"absent", "needRobots"}

\* A table asks for the rules of a host once.
RobotsOnce ==
  \A j \in jobs \union work \union Held :
    j.item = NoItem => j.table <= tables /\ (j.table = tables => ~Virgin(j.host))

Load ==
  \A h \in Hosts :
    /\ hosts[h].inflight <= Burst
    /\ IsFiniteSet(Outstanding(h))
    /\ Cardinality(Outstanding(h)) <= hosts[h].inflight + Burst * tables

LoadInv == HomesInv /\ JobsApart /\ RobotsOnce /\ Load

Fetching == {b.job : b \in {c \in busy : c.phase = "fetch"}}

LEMMA OutstandingIs == \A h : Outstanding(h) = {j \in jobs \union work \union Fetching : j.host = h}
  BY DEF Outstanding, Fetching

LEMMA InitLoadInv == Init => LoadInv
<1> SUFFICES ASSUME Init PROVE LoadInv
  OBVIOUS
<1>1. JobsApart /\ RobotsOnce /\ \A h \in Hosts : Outstanding(h) = {}
  BY DEF Init, JobsApart, RobotsOnce, Held, Outstanding
<1>2. \A h \in Hosts : hosts[h].inflight = 0
  BY DEF Init, Absent
<1>3. Burst * tables = 0 /\ Burst \in Nat
  BY LimitsAssumption DEF Init
<1>4. Load
  BY <1>1, <1>2, <1>3, FS_EmptySet DEF Load
<1> QED BY <1>1, <1>4, InitHomesInv DEF LoadInv

\* The steps that take a slot or give one back, or throw the slots away.
Slots ==
  \/ \E h \in Hosts : PickRobots(h) \/ \E d \in Delay .. MaxDelay : PickPage(h, d)
  \/ \E b \in busy : \/ \E d \in Delay .. MaxDelay : RobotsDone(b, d)
                     \/ \E failed, throttled \in BOOLEAN : PageDone(b, failed, throttled)
  \/ NewTable

\* The others leave the slots of every host as they are.
LEMMA SlotsKept ==
  ASSUME Shape, [Next]_vars, ~Slots
  PROVE  /\ tables' = tables
         /\ \A k \in Hosts : hosts'[k].inflight = hosts[k].inflight /\ (Virgin(k)' => Virgin(k))
<1>t. /\ hosts \in [Hosts -> EntryType] /\ TableKinds /\ leased \subseteq Items
  BY DEF Shape, Kinds, TableKinds
<1>0. CASE UNCHANGED <<hosts, tables>>
  BY <1>0 DEF Virgin
<1>1. CASE RefillLease \/ PickBegin \/ PickEnd \/ StoreStep \/ UNCHANGED vars
  BY <1>0, <1>1, StoreStepKeeps DEF RefillLease, PickBegin, PickEnd, vars, table
<1>2. ASSUME NEW i \in leased, RefillInsert(i)
      PROVE  tables' = tables /\ \A k \in Hosts : hosts'[k].inflight = hosts[k].inflight /\ (Virgin(k)' => Virgin(k))
  <2> DEFINE h == HostOf[i]
             e == [HostLocked(h) EXCEPT !.queue = Append(@, i), !.inRing = TRUE]
  <2>1. h \in Hosts
    BY <1>t, HostsAssumption
  <2>2. hosts' = [hosts EXCEPT ![h] = e] /\ tables' = tables
    BY <1>2 DEF RefillInsert
  <2>3. HostLocked(h) \in EntryType /\ HostLocked(h).inflight = hosts[h].inflight
    BY <1>t, <2>1, EntryFields
  <2>4. HostLocked(h).state \in {"absent", "needRobots"} => Virgin(h)
    BY DEF HostLocked, Virgin, Absent
  <2>5. e.inflight = hosts[h].inflight /\ e.state = HostLocked(h).state
    BY <2>3 DEF EntryType
  <2> HIDE DEF e
  <2> QED BY <1>t, <2>1, <2>2, <2>4, <2>5 DEF Virgin
<1>3. ASSUME NEW h \in Hosts,
             PickEmpty(h) \/ PickFailing(h) \/ PickPass(h) \/ PickNoRobots(h) \/ PickSkip(h)
      PROVE  tables' = tables /\ \A k \in Hosts : hosts'[k].inflight = hosts[k].inflight /\ (Virgin(k)' => Virgin(k))
  <2>1. tables' = tables
    BY <1>3 DEF PickEmpty, PickFailing, PickPass, PickNoRobots, PickSkip, Visiting
  <2>2. CASE PickEmpty(h)
    BY <1>t, <2>1, <2>2 DEF PickEmpty, Virgin, EntryType
  <2>3. CASE PickFailing(h)
    BY <1>t, <2>1, <2>3 DEF PickFailing, Virgin, EntryType
  <2>4. CASE PickPass(h)
    BY <1>0, <2>1, <2>4 DEF PickPass
  <2>5. CASE PickNoRobots(h)
    BY <1>t, <2>1, <2>5 DEF PickNoRobots, Virgin, EntryType
  <2>6. CASE PickSkip(h)
    BY <1>t, <2>1, <2>6 DEF PickSkip, Virgin, EntryType
  <2> QED BY <1>3, <2>2, <2>3, <2>4, <2>5, <2>6
<1>4. ASSUME NEW i, SendDrop(i) \/ SendJob(i) \/ Take(i) \/ Collect(i)
      PROVE  UNCHANGED <<hosts, tables>>
  BY <1>4 DEF SendDrop, SendJob, Take, Collect, table
<1>5. ASSUME NEW b \in busy, Report(b)
      PROVE  UNCHANGED <<hosts, tables>>
  BY <1>5 DEF Report, table
<1>6. ASSUME NEW b \in busy, Penalize(b)
      PROVE  tables' = tables /\ \A k \in Hosts : hosts'[k].inflight = hosts[k].inflight /\ (Virgin(k)' => Virgin(k))
  BY <1>6, <1>t DEF Penalize, Virgin, EntryType
<1>7. CASE Tick
  BY <1>7, <1>t DEF Tick, Virgin, EntryType
<1>8. CASE PickVisit
  BY <1>3, <1>8 DEF PickVisit, Slots
<1>9. ASSUME NEW b \in busy, Worker(b)
      PROVE  tables' = tables /\ \A k \in Hosts : hosts'[k].inflight = hosts[k].inflight /\ (Virgin(k)' => Virgin(k))
  BY <1>0, <1>5, <1>6, <1>9 DEF Worker, Slots
<1>10. ~(DropBuffered \/ ClearQueueBegin \/ ClearQueueEnd)
  BY DEF Slots, DropBuffered, ClearQueueBegin, ClearQueueEnd
<1> QED BY <1>0, <1>1, <1>2, <1>4, <1>7, <1>8, <1>9, <1>10 DEF Next, Scheduler, StoreStep

JobsKept ==
  /\ JobsApart' /\ jobs' \union work' \union Held' \subseteq jobs \union work \union Held
  /\ \A k \in Hosts : Outstanding(k)' = Outstanding(k)

LEMMA JobsUnchanged ==
  ASSUME JobsApart, UNCHANGED <<jobs, work, busy>>
  PROVE  JobsKept
  BY DEF JobsApart, JobsKept, Held, Outstanding

\* And what is under way stays so.
LEMMA SlotJobsKept ==
  ASSUME HomesInv, JobsApart, [Next]_vars, ~Slots
  PROVE  JobsKept
<1>t. busy \subseteq BusyType
  BY DEF HomesInv, Shape, Kinds
<1>1. CASE RefillLease \/ PickBegin \/ PickEnd \/ StoreStep \/ Tick \/ UNCHANGED vars
  BY <1>1, JobsUnchanged, StoreStepKeeps DEF RefillLease, PickBegin, PickEnd, Tick, vars, pool, scheduler
<1>2. ASSUME NEW i, RefillInsert(i) \/ SendDrop(i) \/ Collect(i) PROVE JobsKept
  BY <1>2, JobsUnchanged DEF RefillInsert, SendDrop, Collect, pool, scheduler
<1>3. CASE PickVisit
  <2>1. PICK h \in Hosts :
          PickEmpty(h) \/ PickFailing(h) \/ PickPass(h) \/ PickNoRobots(h) \/ PickSkip(h)
    BY <1>3 DEF PickVisit, Slots
  <2> QED BY <2>1, JobsUnchanged
          DEF PickEmpty, PickFailing, PickPass, PickNoRobots, PickSkip, Visiting, pool
<1>4. ASSUME NEW j \in jobs, SendJob(j) PROVE JobsKept
  <2>1. jobs' = jobs \ {j} /\ work' = work \union {j} /\ busy' = busy
    BY <1>4 DEF SendJob
  <2>2. jobs' \union work' = jobs \union work /\ Held' = Held
    BY <2>1 DEF Held
  <2>3. \A k \in Hosts : Outstanding(k)' = Outstanding(k)
    BY <2>1, <2>2 DEF Outstanding
  <2> QED BY <2>1, <2>2, <2>3 DEF JobsKept, JobsApart
<1>5. ASSUME NEW j \in work, Take(j) PROVE JobsKept
  <2> DEFINE b == [job |-> j, phase |-> "fetch"]
  <2>1. jobs' = jobs /\ work' = work \ {j} /\ busy' = busy \union {b}
    BY <1>5 DEF Take, scheduler
  <2>2. b.job = j /\ b.phase = "fetch"
    OBVIOUS
  <2> HIDE DEF b
  <2>3. Held' = Held \union {j} /\ Fetching' = Fetching \union {j}
    BY <2>1, <2>2 DEF Held, Fetching
  <2>4. jobs' \union work' \union Fetching' = jobs \union work \union Fetching
    BY <2>1, <2>3
  <2>5. \A k \in Hosts : Outstanding(k)' = Outstanding(k)
    BY <2>4 DEF Outstanding, Fetching
  <2> QED BY <2>1, <2>3, <2>5 DEF JobsKept, JobsApart
<1>6. ASSUME NEW b \in busy, Penalize(b) \/ Report(b) PROVE JobsKept
  <2> DEFINE c == [b EXCEPT !.phase = "retry"]
  <2>1. jobs' = jobs /\ work' = work /\ busy' \subseteq (busy \ {b}) \union {c} /\ busy \ {b} \subseteq busy'
    BY <1>6 DEF Penalize, Report, scheduler
  <2>2. c.job = b.job /\ c.phase = "retry" /\ b.phase # "fetch"
    BY <1>6, <1>t DEF Penalize, Report, BusyType
  <2> HIDE DEF c
  <2>3. Held' \subseteq Held /\ Fetching' = Fetching
    BY <2>1, <2>2 DEF Held, Fetching
  <2>4. \A k \in Hosts : Outstanding(k)' = Outstanding(k)
    BY <2>1, <2>3 DEF Outstanding, Fetching
  <2> QED BY <2>1, <2>3, <2>4 DEF JobsKept, JobsApart
<1>7. ASSUME NEW b \in busy, Worker(b) PROVE JobsKept
  BY <1>6, <1>7 DEF Worker, Slots
<1>8. ~(DropBuffered \/ ClearQueueBegin \/ ClearQueueEnd)
  BY DEF Slots, DropBuffered, ClearQueueBegin, ClearQueueEnd
<1> QED BY <1>1, <1>2, <1>3, <1>4, <1>5, <1>7, <1>8 DEF Next, Scheduler, StoreStep

\* A job more for a host with a free slot.
LEMMA SlotTaken ==
  ASSUME LoadInv, NEW h \in Hosts, NEW i \in Items \union {NoItem},
         jobs' = jobs \union {Job(h, i)}, UNCHANGED <<work, busy, tables>>,
         hosts[h].inflight < Burst, hosts'[h].inflight = hosts[h].inflight + 1,
         \A k \in Hosts \ {h} : hosts'[k].inflight = hosts[k].inflight,
         Job(h, i) \notin jobs \union work \union Held
  PROVE  JobsApart' /\ Load'
<1> DEFINE j == Job(h, i)
<1>1. j.host = h
  BY DEF Job
<1> HIDE DEF j
<1>2. Held' = Held /\ jobs' = jobs \union {j} /\ work' = work
  BY DEF Held, j
<1>3. JobsApart'
  BY <1>2 DEF LoadInv, JobsApart, j
<1>4. Outstanding(h)' = Outstanding(h) \union {j}
  BY <1>1, <1>2 DEF Outstanding
<1>5. \A k \in Hosts \ {h} : Outstanding(k)' = Outstanding(k)
  BY <1>1, <1>2 DEF Outstanding
<1>6. /\ hosts[h].inflight \in Nat /\ Burst \in Nat /\ tables \in Nat
      /\ Burst * tables \in Nat
  BY EntryFields, LimitsAssumption DEF LoadInv, HomesInv, Shape, Kinds
<1>7. /\ IsFiniteSet(Outstanding(h)) /\ Cardinality(Outstanding(h)) \in Nat
      /\ Cardinality(Outstanding(h)) <= hosts[h].inflight + Burst * tables
  BY FS_CardinalityType DEF LoadInv, Load
<1>8. /\ IsFiniteSet(Outstanding(h)')
      /\ Cardinality(Outstanding(h)') <= Cardinality(Outstanding(h)) + 1
  <2>1. /\ IsFiniteSet(Outstanding(h) \union {j})
        /\ Cardinality(Outstanding(h) \union {j}) =
             IF j \in Outstanding(h) THEN Cardinality(Outstanding(h)) ELSE Cardinality(Outstanding(h)) + 1
    BY <1>7, FS_AddElement
  <2> QED BY <1>4, <1>7, <2>1
<1>9. Cardinality(Outstanding(h)') \in Nat
  BY <1>8, FS_CardinalityType
<1>10. hosts'[h].inflight <= Burst
  BY <1>6
<1>11. Cardinality(Outstanding(h)') <= hosts'[h].inflight + Burst * tables
  BY <1>6, <1>7, <1>8, <1>9
<1> QED BY <1>3, <1>5, <1>8, <1>10, <1>11 DEF LoadInv, Load

\* A request that ends: its slot goes back to the entry the host has by now, if it has
\* one and a slot of it is taken.
LEMMA SlotGiven ==
  ASSUME LoadInv, NEW b \in busy, b.phase = "fetch",
         busy' = busy \ {b}
           \/ \E phase : phase # "fetch" /\ busy' = (busy \ {b}) \union {[b EXCEPT !.phase = phase]},
         UNCHANGED <<jobs, work, tables>>,
         hosts'[b.job.host].inflight \in {Release(b.job.host), hosts[b.job.host].inflight},
         hosts[b.job.host] # Absent => hosts'[b.job.host].inflight = Release(b.job.host),
         \A k \in Hosts \ {b.job.host} : hosts'[k].inflight = hosts[k].inflight
  PROVE  JobsApart' /\ Held' \subseteq Held /\ Load'
<1> DEFINE j == b.job
           h == b.job.host
<1>t. TableKinds /\ busy \subseteq BusyType /\ j \in JobType /\ h \in Hosts /\ b \in BusyType
  BY DEF LoadInv, HomesInv, Shape, Kinds, BusyType, JobType
<1>1. \A c \in busy : c.job = j /\ c.phase = "fetch" => c = b
  BY <1>t DEF BusyType
<1>2. Held' \subseteq Held /\ Fetching' = Fetching \ {j}
  <2>1. \A phase : [b EXCEPT !.phase = phase].job = j /\ [b EXCEPT !.phase = phase].phase = phase
    BY <1>t DEF BusyType
  <2>2. Held' \subseteq Held
    <3>1. \A c \in busy' : c \in busy \/ c.job = b.job
      <4>1. CASE busy' = busy \ {b}
        BY <4>1
      <4>2. ASSUME NEW phase, busy' = (busy \ {b}) \union {[b EXCEPT !.phase = phase]}
            PROVE  \A c \in busy' : c \in busy \/ c.job = b.job
        BY <2>1, <4>2
      <4> QED BY <4>1, <4>2
    <3> QED BY <3>1 DEF Held
  <2>3. \A c \in busy' : c.phase = "fetch" => c \in busy /\ c # b
    BY <2>1
  <2>4. busy \ {b} \subseteq busy'
    OBVIOUS
  <2>5. Fetching' \subseteq Fetching \ {j}
    BY <1>1, <2>3 DEF Fetching
  <2>6. Fetching \ {j} \subseteq Fetching'
    BY <2>4 DEF Fetching
  <2> QED BY <2>2, <2>5, <2>6
<1>3. j \in Fetching /\ j \notin jobs \union work
  BY DEF Fetching, LoadInv, JobsApart, Held
<1>4. JobsApart'
  BY <1>2 DEF LoadInv, JobsApart
<1>5. /\ Outstanding(h)' = Outstanding(h) \ {j} /\ j \in Outstanding(h)
      /\ \A k \in Hosts \ {h} : Outstanding(k)' = Outstanding(k)
  <2>1. jobs' \union work' \union Fetching' = (jobs \union work \union Fetching) \ {j}
    BY <1>2, <1>3
  <2>2. \A k : Outstanding(k)' = {l \in jobs' \union work' \union Fetching' : l.host = k}
    BY DEF Outstanding, Fetching
  <2> QED BY <1>3, <2>1, <2>2, OutstandingIs
<1>6. /\ hosts[h].inflight \in Nat /\ Burst \in Nat /\ tables \in Nat
      /\ Burst * tables \in Nat
  BY <1>t, EntryFields, LimitsAssumption DEF LoadInv, HomesInv, Shape, Kinds
<1>7. /\ IsFiniteSet(Outstanding(h)) /\ Cardinality(Outstanding(h)) \in Nat
      /\ Cardinality(Outstanding(h)) <= hosts[h].inflight + Burst * tables
      /\ hosts[h].inflight <= Burst
  BY <1>t, FS_CardinalityType DEF LoadInv, Load
<1>8. /\ IsFiniteSet(Outstanding(h)')
      /\ Cardinality(Outstanding(h)') = Cardinality(Outstanding(h)) - 1
  BY <1>5, <1>7, FS_RemoveElement
<1>9. hosts'[h].inflight \in Nat /\ hosts'[h].inflight <= hosts[h].inflight
      /\ hosts[h].inflight <= hosts'[h].inflight + 1
  <2>1. hosts[h] = Absent => hosts[h].inflight = 0
    BY DEF Absent
  <2> QED BY <1>6, <2>1 DEF Release
<1>10. hosts'[h].inflight <= Burst
       /\ Cardinality(Outstanding(h)') <= hosts'[h].inflight + Burst * tables
  BY <1>6, <1>7, <1>8, <1>9
<1> QED BY <1>2, <1>4, <1>5, <1>8, <1>10 DEF LoadInv, Load

LEMMA SlotsThrownAway ==
  ASSUME LoadInv, NewTable
  PROVE  JobsApart' /\ RobotsOnce' /\ Load'
<1>1. JobsKept /\ tables' = tables + 1 /\ \A k \in Hosts : hosts'[k].inflight = 0
  BY JobsUnchanged DEF LoadInv, NewTable, scheduler, pool, Absent
<1>2. tables \in Nat /\ Burst \in Nat /\ 0 <= Burst
  BY LimitsAssumption DEF LoadInv, HomesInv, Shape, Kinds
<1>3. Burst * (tables + 1) = Burst * tables + Burst /\ Burst * tables \in Nat
  BY <1>2
<1>4. RobotsOnce'
  <2>1. \A j \in jobs \union work \union Held : j.item = NoItem => j.table \in Nat /\ j.table <= tables
    BY DEF LoadInv, RobotsOnce, HomesInv, Shape, Kinds, Held, JobType, BusyType
  <2> QED BY <1>1, <1>2, <2>1 DEF RobotsOnce, JobsKept
<1>5. ASSUME NEW k \in Hosts
      PROVE  Cardinality(Outstanding(k)) <= 0 + Burst * (tables + 1)
  <2>1. /\ Cardinality(Outstanding(k)) \in Nat /\ hosts[k].inflight \in Nat
        /\ hosts[k].inflight <= Burst
        /\ Cardinality(Outstanding(k)) <= hosts[k].inflight + Burst * tables
    BY EntryFields, FS_CardinalityType DEF LoadInv, Load, HomesInv, Shape, Kinds
  <2> QED BY <1>2, <1>3, <2>1
<1> QED BY <1>1, <1>2, <1>4, <1>5 DEF Load, JobsKept, LoadInv

LEMMA NextLoad ==
  ASSUME LoadInv, [Next]_vars
  PROVE  JobsApart' /\ RobotsOnce' /\ Load'
<1>t. /\ hosts \in [Hosts -> EntryType] /\ TableKinds /\ HomesInv /\ Shape /\ QueuedOnce /\ Counted
      /\ busy \subseteq BusyType /\ tables \in Nat /\ JobsApart /\ RobotsOnce /\ Load
      /\ jobs \subseteq JobType /\ work \subseteq JobType
  BY DEF LoadInv, HomesInv, Shape, Kinds, TableKinds, Parts
<1>j. \A j \in jobs \union work \union Held : j.host \in Hosts
  BY <1>t DEF Held, BusyType, JobType
<1>1. CASE ~Slots
  <2>1. /\ tables' = tables
        /\ \A k \in Hosts : hosts'[k].inflight = hosts[k].inflight /\ (Virgin(k)' => Virgin(k))
    BY <1>1, <1>t, SlotsKept
  <2>2. JobsKept
    BY <1>1, <1>t, SlotJobsKept
  <2>3. RobotsOnce'
    BY <1>j, <1>t, <2>1, <2>2 DEF RobotsOnce, JobsKept
  <2>4. Load'
    BY <1>t, <2>1, <2>2 DEF Load, JobsKept
  <2> QED BY <2>2, <2>3, <2>4 DEF JobsKept
<1>2. ASSUME NEW h \in Hosts, PickRobots(h) PROVE JobsApart' /\ RobotsOnce' /\ Load'
  <2> DEFINE n == Job(h, NoItem)
  <2>1. /\ jobs' = jobs \union {n} /\ UNCHANGED <<work, busy, tables>>
        /\ hosts' = [hosts EXCEPT ![h].state = "fetchingRobots", ![h].inflight = @ + 1]
        /\ hosts[h].state = "needRobots" /\ hosts[h].inflight < Burst
    BY <1>2 DEF PickRobots, Visiting, Eligible, pool
  <2>2. n.host = h /\ n.item = NoItem /\ n.table = tables
    BY DEF Job
  <2>3. n \notin jobs \union work \union Held
    BY <1>t, <2>1, <2>2 DEF RobotsOnce, Virgin
  <2>4. /\ hosts'[h].inflight = hosts[h].inflight + 1 /\ hosts'[h].state = "fetchingRobots"
        /\ \A k \in Hosts \ {h} : hosts'[k] = hosts[k]
    BY <1>t, <2>1 DEF EntryType
  <2>5. JobsApart' /\ Load'
    BY <2>1, <2>3, <2>4, SlotTaken
  <2> HIDE DEF n
  <2>6. RobotsOnce'
    BY <1>j, <1>t, <2>1, <2>2, <2>4 DEF RobotsOnce, Virgin, Held
  <2> QED BY <2>5, <2>6
<1>3. ASSUME NEW h \in Hosts, NEW d \in Delay .. MaxDelay, PickPage(h, d)
      PROVE  JobsApart' /\ RobotsOnce' /\ Load'
  <2> DEFINE x == Head(hosts[h].queue)
             n == Job(h, x)
  <2>1. /\ jobs' = jobs \union {n} /\ UNCHANGED <<work, busy, tables>>
        /\ hosts' = [hosts EXCEPT ![h].queue = Tail(@), ![h].inflight = @ + 1, ![h].wait = d]
        /\ hosts[h].queue # <<>> /\ hosts[h].inflight < Burst
    BY <1>3 DEF PickPage, Visiting, Eligible, pool
  <2>2. hosts[h].queue \in Seq(Items) /\ DOMAIN hosts[h].queue = 1 .. Len(hosts[h].queue)
        /\ 1 \in DOMAIN hosts[h].queue /\ x = hosts[h].queue[1] /\ x \in Items
    <3>1. hosts[h].queue \in Seq(Items)
      BY <1>t, EntryFields
    <3> QED BY <2>1, <3>1
  <2>3. n.host = h /\ n.item = x /\ x # NoItem
    BY <2>2, HostsAssumption DEF Job
  <2>4. x \in Queued
    BY <2>2 DEF Queued
  <2>5. x \notin Picked /\ x \notin Handled
    BY <1>t, <2>2, <2>4 DEF HomesInv, Homes, One
  <2>6. n \notin jobs \union work \union Held
    BY <2>3, <2>5 DEF Picked, Handled, Held
  <2>7. /\ hosts'[h].inflight = hosts[h].inflight + 1 /\ hosts'[h].state = hosts[h].state
        /\ \A k \in Hosts \ {h} : hosts'[k] = hosts[k]
    BY <1>t, <2>1 DEF EntryType
  <2>8. JobsApart' /\ Load'
    <3>1. x \in Items \union {NoItem}
      BY <2>2
    <3> QED BY <2>1, <2>6, <2>7, <3>1, SlotTaken
  <2> HIDE DEF n, x
  <2>9. RobotsOnce'
    BY <1>j, <1>t, <2>1, <2>3, <2>7 DEF RobotsOnce, Virgin, Held
  <2> QED BY <2>8, <2>9
<1>4. ASSUME NEW b \in busy, NEW d, RobotsDone(b, d) PROVE JobsApart' /\ RobotsOnce' /\ Load'
  <2> DEFINE h == b.job.host
  <2>1. b \in BusyType /\ h \in Hosts /\ b.phase = "fetch"
    BY <1>4, <1>t DEF RobotsDone, Shape, Progress, BusyType, JobType
  <2>2. /\ busy' = busy \ {b} /\ UNCHANGED <<jobs, work, tables>>
        /\ hosts' = IF hosts[h] = Absent THEN hosts
                    ELSE [hosts EXCEPT ![h].state = "ready", ![h].inflight = Release(h), ![h].wait = d]
    BY <1>4 DEF RobotsDone, scheduler
  <2>3. /\ hosts'[h].inflight \in {Release(h), hosts[h].inflight}
        /\ hosts[h] # Absent => hosts'[h].inflight = Release(h)
        /\ \A k \in Hosts \ {h} : hosts'[k] = hosts[k]
        /\ \A k \in Hosts : Virgin(k)' => Virgin(k)
    BY <1>t, <2>1, <2>2 DEF Virgin, EntryType
  <2>4. JobsApart' /\ Held' \subseteq Held /\ Load'
    BY <2>1, <2>2, <2>3, SlotGiven
  <2>5. RobotsOnce'
    BY <1>j, <1>t, <2>2, <2>3, <2>4 DEF RobotsOnce
  <2> QED BY <2>4, <2>5
<1>5. ASSUME NEW b \in busy, NEW failed, NEW throttled, PageDone(b, failed, throttled)
      PROVE  JobsApart' /\ RobotsOnce' /\ Load'
  <2> DEFINE h == b.job.host
             phase == IF throttled THEN "throttled" ELSE "done"
  <2>1. b \in BusyType /\ h \in Hosts /\ b.phase = "fetch" /\ phase # "fetch"
    BY <1>5, <1>t DEF PageDone, BusyType, JobType
  <2>2. /\ busy' = (busy \ {b}) \union {[b EXCEPT !.phase = phase]} /\ UNCHANGED <<jobs, work, tables>>
        /\ hosts' = IF hosts[h] = Absent THEN hosts
                    ELSE [hosts EXCEPT ![h].inflight = Release(h),
                                       ![h].fails = IF failed THEN @ + 1 ELSE 0]
    BY <1>5 DEF PageDone, scheduler
  <2>3. /\ hosts'[h].inflight \in {Release(h), hosts[h].inflight}
        /\ hosts[h] # Absent => hosts'[h].inflight = Release(h)
        /\ \A k \in Hosts \ {h} : hosts'[k] = hosts[k]
        /\ \A k \in Hosts : Virgin(k)' => Virgin(k)
    BY <1>t, <2>1, <2>2 DEF Virgin, EntryType
  <2> HIDE DEF phase
  <2>4. JobsApart' /\ Held' \subseteq Held /\ Load'
    BY <2>1, <2>2, <2>3, SlotGiven
  <2>5. RobotsOnce'
    BY <1>j, <1>t, <2>2, <2>3, <2>4 DEF RobotsOnce
  <2> QED BY <2>4, <2>5
<1>6. CASE NewTable
  BY <1>6, SlotsThrownAway
<1> QED BY <1>1, <1>2, <1>3, <1>4, <1>5, <1>6 DEF Slots

\* HostLoadBounded: a host never has more than Burst requests under way, and Burst more
\* for each time its entry was thrown away while requests were on their way.
THEOREM HostLoadIsBounded == Spec => []HostLoadBounded
<1>1. LoadInv /\ [Next]_vars => LoadInv'
  BY NextHomesInv, NextLoad DEF LoadInv
<1>2. LoadInv => HostLoadBounded
  <2> SUFFICES ASSUME LoadInv, NEW h \in Hosts
               PROVE  Cardinality(Outstanding(h)) <= Burst * (1 + tables)
    BY DEF HostLoadBounded
  <2>1. /\ hosts[h].inflight \in Nat /\ hosts[h].inflight <= Burst
        /\ Cardinality(Outstanding(h)) \in Nat
        /\ Cardinality(Outstanding(h)) <= hosts[h].inflight + Burst * tables
    BY EntryFields, FS_CardinalityType DEF LoadInv, Load, HomesInv, Shape, Kinds
  <2>2. Burst \in Nat /\ tables \in Nat
    BY LimitsAssumption DEF LoadInv, HomesInv, Shape, Kinds
  <2>3. Burst * (1 + tables) = Burst + Burst * tables /\ Burst * tables \in Nat
    BY <2>2
  <2> QED BY <2>1, <2>2, <2>3
<1> QED BY <1>1, <1>2, InitLoadInv, PTL DEF Spec
=============================================================================
