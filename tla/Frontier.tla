------------------------------ MODULE Frontier ------------------------------
(***************************************************************************)
(* The durable crawl frontier of internal/kv/kv.go and the calls that      *)
(* internal/crawl/crawler.go makes to it: the seen-set u/, the pending     *)
(* queue q/, the leases l/, the recrawl index t/ and the counters kept in  *)
(* memory and saved under m/ from time to time.                            *)
(*                                                                         *)
(* One action is one Pebble commit, one step of building a Pebble batch    *)
(* where the code reads the store before it commits (Enqueue, Complete,    *)
(* Lease), or the update of the counter of pending entries, which follows  *)
(* its commit: other callers run between those steps.  The process may die *)
(* between any two actions; what was committed survives, what was in       *)
(* memory does not.  A call that handles a list of items and looks nothing *)
(* up between them (Lease, DueForRecrawl, the seed list) is modelled item  *)
(* by item.  Documents of a completion go to the spool, in Spool.tla.      *)
(***************************************************************************)
EXTENDS Integers, FiniteSets

CONSTANTS
  Urls,            \* the URLs of the instance
  Seeds,           \* those of them on the seed list
  MaxSeq,          \* bound: the highest key number drawn
  MaxBatch,        \* bound: completions in one Complete call
  MaxCrashes,      \* bound: times the process dies
  MaxOps,          \* bound: stops, reseeds and maintenance buttons
  JitterRepeats    \* may a queue key's random bytes repeat for a reused number?

ASSUME SeedsAssumption == Seeds \subseteq Urls
ASSUME BoundsAssumption ==
  /\ MaxSeq \in Nat /\ MaxBatch \in Nat
  /\ MaxCrashes \in Nat /\ MaxOps \in Nat
ASSUME JitterAssumption == JitterRepeats \in BOOLEAN

VARIABLES
  seen,            \* u/<url>: "none" when there is no record
  queue,           \* q/<pri><rnd><seq>
  leases,          \* l/<seq>
  recrawl,         \* t/<doneAt><url>: the URLs that have an entry
  seq, pending,    \* counters in memory
  mSeq, mPending,  \* the same counters as saved under m/
  owed,            \* per caller: what its commit adds to `pending`, added after it
  running,         \* between Start and Stop
  held,            \* leased items in the crawler's memory (buffers, channels, workers)
  enq,             \* the batch an Enqueue call is building
  com,             \* the batch the collector's Complete call is building
  taking,          \* the entry the scheduler's Lease has read, and the number drawn for it
  due,             \* what DueForRecrawl returned and is not requeued yet
  rest,            \* what the operator's call still has to do
  crashes, ops,
  dropped,         \* history: URLs thrown away by ClearQueue and not pushed since
  unscheduled,     \* history: finished URLs whose recrawl entry was lost on a known path
  drifted          \* history: has `pending` lost track of the queue on a known path?

store    == <<seen, queue, leases, recrawl>>
counters == <<seq, pending, owed, mSeq, mPending>>
memory   == <<running, held, enq, com, taking, due, rest>>
history  == <<dropped, unscheduled, drifted>>
bounds   == <<crashes, ops>>
vars     == <<store, counters, memory, bounds, history>>

-----------------------------------------------------------------------------
(* Records.  A lower priority is leased first.  Depth orders fresh URLs    *)
(* among themselves in the code; here every fresh URL has priority Fresh.  *)

Fresh == 0
Known == 1

Entry(pri, n, u) == [pri |-> pri, seq |-> n, url |-> u]

EntryType == [pri : {Fresh, Known}, seq : Nat, url : Urls]
LeaseType == [seq : Nat, url : Urls]
Status    == {"none", "pending", "done", "dead"}

UrlsOf(records) == {r.url : r \in records}

\* A Pebble batch: leases to delete, queue entries and recrawl entries to write,
\* seen-states to write; `links` are the links of the completion being staged
\* that have not been looked up yet.
EmptyBatch ==
  [del |-> {}, put |-> {}, set |-> [u \in Urls |-> "keep"], idx |-> {}, links |-> {}]

BatchType ==
  [del : SUBSET LeaseType, put : SUBSET EntryType, set : [Urls -> Status \union {"keep"}],
   idx : SUBSET Urls, links : SUBSET Urls]

\* The goroutines that push or take: AddSeeds and discovery, Start's sweep, the
\* crawler's three, and one operator's request at a time.
Callers == {"seeds", "start", "scheduler", "collector", "loop", "api"}

\* What is committed and not counted yet.
Outstanding ==
  owed["seeds"] + owed["start"] + owed["scheduler"] + owed["collector"] + owed["loop"]
    + owed["api"]

Owes(c, n) == owed[c] = 0 /\ owed' = [owed EXCEPT ![c] = n]

Todo == UrlsOf(queue) \union UrlsOf(leases)

\* Writing queue entries.  A write replaces the entry with an equal key.  Numbers
\* are fresh until a crash rolls the counter back; after that only the random
\* bytes keep the old entry's key and the new one's apart.
Clashing(es) ==
  IF JitterRepeats
    THEN {q \in queue : \E e \in es : e.pri = q.pri /\ e.seq = q.seq}
    ELSE {}

Puts(es) == {(queue \ lost) \union es : lost \in SUBSET Clashing(es)}

\* The entries for a list of leased items, numbered in key order after seq.
Numbered(ls) ==
  {Entry(Known, seq + Cardinality({m \in ls : m.seq <= l.seq}), l.url) : l \in ls}

-----------------------------------------------------------------------------
Init ==
  /\ seen = [u \in Urls |-> "none"]
  /\ queue = {} /\ leases = {} /\ recrawl = {}
  /\ seq = 0 /\ pending = 0 /\ mSeq = 0 /\ mPending = 0
  /\ owed = [c \in Callers |-> 0]
  /\ running = FALSE
  /\ held = {} /\ enq = EmptyBatch /\ com = EmptyBatch /\ taking = {} /\ due = {}
  /\ rest = "nothing"
  /\ crashes = 0 /\ ops = 0
  /\ dropped = {} /\ unscheduled = {} /\ drifted = FALSE

\* The operator presses one button after the other.
OperatorStep ==
  /\ ops < MaxOps /\ ops' = ops + 1
  /\ rest = "nothing" /\ owed["api"] = 0

-----------------------------------------------------------------------------
(* Committing a batch.                                                     *)

\* Mutated form of Apply: retried items are not counted.
ApplyUncounted(b, c) ==
  /\ leases' = {l \in leases : \A d \in b.del : d.seq # l.seq}
  /\ queue' \in Puts(b.put)
  /\ seen' = [u \in Urls |-> IF b.set[u] = "keep" THEN seen[u] ELSE b.set[u]]
  /\ recrawl' = recrawl \union b.idx
  /\ Owes(c, Cardinality({e \in b.put : e.pri = Fresh}))
  /\ dropped' = dropped \ UrlsOf(b.put)
  /\ unscheduled' = unscheduled \ b.idx

Apply(b, c) ==
  /\ leases' = {l \in leases : \A d \in b.del : d.seq # l.seq}
  /\ queue' \in Puts(b.put)
  /\ seen' = [u \in Urls |-> IF b.set[u] = "keep" THEN seen[u] ELSE b.set[u]]
  /\ recrawl' = recrawl \union b.idx
  /\ Owes(c, Cardinality(b.put))
  /\ dropped' = dropped \ UrlsOf(b.put)
  /\ unscheduled' = unscheduled \ b.idx

\* The call goes on to its pending.Add.
AddOwed(c) ==
  /\ owed[c] # 0
  /\ pending' = pending + owed[c]
  /\ owed' = [owed EXCEPT ![c] = 0]
  /\ UNCHANGED <<store, seq, mSeq, mPending, memory, bounds, history>>

(* Enqueue: only URLs without a u/ record, as committed, are staged.       *)

EnqueueStage(u) ==
  /\ owed["seeds"] = 0
  /\ seen[u] = "none"
  /\ enq.set[u] = "keep"
  /\ seq < MaxSeq
  /\ seq' = seq + 1
  /\ enq' = [enq EXCEPT !.put = @ \union {Entry(Fresh, seq + 1, u)},
                        !.set[u] = "pending"]
  /\ UNCHANGED <<store, pending, owed, mSeq, mPending, running, held, com, taking, due,
                 rest, bounds, history>>

EnqueueApply ==
  /\ enq.put # {}
  /\ Apply(enq, "seeds")
  /\ enq' = EmptyBatch
  /\ UNCHANGED <<seq, pending, mSeq, mPending, running, held, com, taking, due, rest,
                 bounds, drifted>>

(* Complete: the collector stages the outcomes of a batch one by one.      *)

Staging(l) ==
  /\ running /\ owed["collector"] = 0
  /\ l \in held \ com.del
  /\ com.links = {}
  /\ Cardinality(com.del) < MaxBatch

StageOnly == UNCHANGED <<store, pending, owed, mSeq, mPending, running, held, enq, taking,
                         due, rest, bounds, history>>

\* Mutated form of CompleteDone: the recrawl entry is forgotten.
CompleteDoneUnindexed(l, links) ==
  /\ Staging(l)
  /\ com' = [com EXCEPT !.del = @ \union {l}, !.set[l.url] = "done", !.links = links]
  /\ UNCHANGED seq
  /\ StageOnly

CompleteDone(l, links) ==
  /\ Staging(l)
  /\ com' = [com EXCEPT !.del = @ \union {l},
                        !.set[l.url] = "done",
                        !.idx = @ \union {l.url},
                        !.links = links]
  /\ UNCHANGED seq
  /\ StageOnly

CompleteDead(l) ==
  /\ Staging(l)
  /\ com' = [com EXCEPT !.del = @ \union {l}, !.set[l.url] = "dead"]
  /\ UNCHANGED seq
  /\ StageOnly

\* Mutated form of CompleteRetry: the lease is released, the item is not pushed.
CompleteRetryDropped(l) ==
  /\ Staging(l)
  /\ com' = [com EXCEPT !.del = @ \union {l}]
  /\ UNCHANGED seq
  /\ StageOnly

CompleteRetry(l) ==
  /\ Staging(l)
  /\ seq < MaxSeq
  /\ seq' = seq + 1
  /\ com' = [com EXCEPT !.del = @ \union {l},
                        !.put = @ \union {Entry(Known, seq + 1, l.url)}]
  /\ StageOnly

CompleteLink(u) ==
  /\ u \in com.links
  /\ \/ /\ seen[u] # "none"
        /\ com' = [com EXCEPT !.links = @ \ {u}]
        /\ UNCHANGED seq
     \/ /\ seen[u] = "none"
        /\ seq < MaxSeq
        /\ seq' = seq + 1
        /\ com' = [com EXCEPT !.links = @ \ {u},
                              !.put = @ \union {Entry(Fresh, seq + 1, u)},
                              !.set[u] = "pending"]
  /\ StageOnly

CompleteApply ==
  /\ com.del # {}
  /\ com.links = {}
  /\ Apply(com, "collector")
  /\ held' = held \ com.del
  /\ com' = EmptyBatch
  /\ UNCHANGED <<seq, pending, mSeq, mPending, running, enq, taking, due, rest, bounds,
                 drifted>>

-----------------------------------------------------------------------------
(* Lease: the first entry in key order moves from q/ to l/.  The iterator  *)
(* is a snapshot, and the delete of its entry commits whatever became of   *)
(* it since: an entry that ClearQueue has deleted is leased all the same.  *)

LeaseRead(e) ==
  /\ running
  /\ \A c \in {"start", "scheduler"} : owed[c] = 0
  /\ taking = {}
  /\ e \in queue
  /\ \A q \in queue : e.pri <= q.pri
  /\ seq < MaxSeq
  /\ seq' = seq + 1
  /\ taking' = {[entry |-> e, seq |-> seq + 1]}
  /\ UNCHANGED <<store, pending, owed, mSeq, mPending, running, held, enq, com, due, rest,
                 bounds, history>>

LeaseOf(t) == [seq |-> t.seq, url |-> t.entry.url]

\* Mutated form of LeaseApply: the item is handed out without an l/ record.
LeaseUnrecorded(t) ==
  /\ held' = held \union {LeaseOf(t)}
  /\ queue' = queue \ {t.entry}
  /\ Owes("scheduler", -1)
  /\ drifted' = (drifted \/ t.entry \notin queue)
  /\ dropped' = dropped \ {t.entry.url}
  /\ taking' = {}
  /\ UNCHANGED <<seen, leases, recrawl, seq, pending, mSeq, mPending, running, enq, com, due,
                 rest, bounds, unscheduled>>

LeaseApply(t) ==
  /\ leases' = {m \in leases : m.seq # t.seq} \union {LeaseOf(t)}
  /\ held' = held \union {LeaseOf(t)}
  /\ queue' = queue \ {t.entry}
  /\ Owes("scheduler", -1)
  /\ drifted' = (drifted \/ t.entry \notin queue)
  /\ dropped' = dropped \ {t.entry.url}
  /\ taking' = {}
  /\ UNCHANGED <<seen, recrawl, seq, pending, mSeq, mPending, running, enq, com, due, rest,
                 bounds, unscheduled>>

(* Start: every lease found on disk goes back to the queue before a worker *)
(* exists.  The goroutines run once the sweep has counted.                 *)

\* Mutated form of SweepLeases: leases stay where they are.
SweepNothing == UNCHANGED <<queue, leases, seq, owed>>

SweepLeases ==
  /\ seq + Cardinality(leases) <= MaxSeq
  /\ queue' \in Puts(Numbered(leases))
  /\ leases' = {}
  /\ seq' = seq + Cardinality(leases)
  /\ Owes("start", Cardinality(leases))

Start ==
  /\ ~running
  /\ SweepLeases
  /\ running' = TRUE
  /\ UNCHANGED <<seen, recrawl, pending, mSeq, mPending, held, enq, com, taking, due, rest,
                 bounds, history>>

(* Requeue of items the crawler still holds: the leases are not released.  *)
(* Its callers log an error and go on.                                     *)

RequeueFails == UNCHANGED <<store, seq, owed, dropped>>

Requeue(ls) ==
  /\ seq + Cardinality(ls) <= MaxSeq
  /\ queue' \in Puts(Numbered(ls))
  /\ seen' = [u \in Urls |-> IF u \in UrlsOf(ls) THEN "pending" ELSE seen[u]]
  /\ seq' = seq + Cardinality(ls)
  /\ Owes("api", Cardinality(ls))
  /\ dropped' = dropped \ UrlsOf(ls)
  /\ UNCHANGED <<leases, recrawl>>

\* Stop: the goroutines have drained; what was buffered is requeued, what was on
\* its way to or from a worker is forgotten and stays leased.
Stop(buffered) ==
  /\ OperatorStep
  /\ running
  /\ com = EmptyBatch /\ taking = {} /\ due = {}
  /\ \A c \in Callers \ {"seeds"} : owed[c] = 0
  /\ buffered \subseteq held
  /\ Requeue(buffered) \/ RequeueFails
  /\ running' = FALSE
  /\ held' = {}
  /\ rest' = "save"
  /\ UNCHANGED <<pending, mSeq, mPending, enq, com, taking, due, crashes, unscheduled,
                 drifted>>

\* ForgetHosts, FreeMemory and ClearRobots: DropBuffered(true).
DropBuffered(buffered) ==
  /\ OperatorStep
  /\ running
  /\ buffered # {}
  /\ buffered \subseteq held \ com.del
  /\ Requeue(buffered) \/ RequeueFails
  /\ held' = held \ buffered
  /\ UNCHANGED <<pending, mSeq, mPending, running, enq, com, taking, due, rest, crashes,
                 unscheduled, drifted>>

-----------------------------------------------------------------------------
(* Recrawl and reseeding, by the maintenance loop and the API.             *)

\* Any indexed page may be old enough.  A page finished twice has two entries in
\* the code and one here: what the second would cause, a Requeue of a URL in any
\* state, is what Reseed does.
DueForRecrawl(u) ==
  /\ running
  /\ \A c \in {"start", "loop"} : owed[c] = 0
  /\ due = {}
  /\ u \in recrawl
  /\ recrawl' = recrawl \ {u}
  /\ due' = {u}
  /\ UNCHANGED <<seen, queue, leases, counters, running, held, enq, com, taking, rest, bounds,
                 history>>

PushKnown(u, c) ==
  /\ seq < MaxSeq
  /\ seq' = seq + 1
  /\ queue' \in Puts({Entry(Known, seq + 1, u)})
  /\ seen' = [seen EXCEPT ![u] = "pending"]
  /\ Owes(c, 1)
  /\ dropped' = dropped \ {u}
  /\ UNCHANGED <<leases, recrawl, pending, mSeq, mPending, running, held, enq, com, taking,
                 rest, crashes, drifted>>

RequeueDue(u) ==
  /\ u \in due
  /\ PushKnown(u, "loop")
  /\ due' = {}
  /\ UNCHANGED <<ops, unscheduled>>

\* The Requeue fails: the page's index entry is gone, and the error is logged.
RequeueDueFails(u) ==
  /\ u \in due
  /\ due' = {}
  /\ unscheduled' = unscheduled \union {u}
  /\ UNCHANGED <<store, counters, running, held, enq, com, taking, rest, bounds, dropped,
                 drifted>>

Reseed(u) ==
  /\ OperatorStep
  /\ u \in Seeds
  /\ PushKnown(u, "api")
  /\ UNCHANGED <<due, unscheduled>>

-----------------------------------------------------------------------------
(* The maintenance buttons, one commit or one counter update at a time.    *)

\* ClearQueue: the buffers, q/, then l/, then the counter in memory, then the saved
\* counters and once more the buffers.
ClearQueueBegin(buffered) ==
  /\ OperatorStep
  /\ buffered \subseteq held \ com.del
  /\ held' = held \ buffered
  /\ queue' = {}
  /\ dropped' = dropped \union (UrlsOf(queue) \ UrlsOf(leases))
  /\ rest' = "leases"
  /\ UNCHANGED <<seen, leases, recrawl, counters, running, enq, com, taking, due, crashes,
                 unscheduled, drifted>>

ClearQueueLeases ==
  /\ rest = "leases"
  /\ leases' = {}
  /\ dropped' = dropped \union (UrlsOf(leases) \ UrlsOf(queue))
  /\ rest' = "zero"
  /\ UNCHANGED <<seen, queue, recrawl, counters, running, held, enq, com, taking, due, bounds,
                 unscheduled, drifted>>

\* Store(0): right if nothing was pushed since q/ was deleted and nobody has an Add
\* to come.
ClearQueueZero ==
  /\ rest = "zero"
  /\ pending' = 0
  /\ drifted' = (queue # {} \/ \E c \in Callers : owed[c] # 0)
  /\ rest' = "buffers"
  /\ UNCHANGED <<store, seq, owed, mSeq, mPending, running, held, enq, com, taking, due,
                 bounds, dropped, unscheduled>>

\* Mutated form of SaveCounters: a negative count is saved as it is.
SaveUnclamped == mSeq' = seq /\ mPending' = pending

SaveCounters ==
  /\ mSeq' = seq
  /\ mPending' = IF pending < 0 THEN 0 ELSE pending

ClearQueueEnd(buffered) ==
  /\ rest = "buffers"
  /\ SaveCounters
  /\ buffered \subseteq held \ com.del
  /\ held' = held \ buffered
  /\ rest' = "nothing"
  /\ UNCHANGED <<store, seq, pending, owed, running, enq, com, taking, due, bounds, history>>

\* The end of Stop.
StopEnd ==
  /\ rest = "save" /\ owed["api"] = 0
  /\ SaveCounters
  /\ rest' = "nothing"
  /\ UNCHANGED <<store, seq, pending, owed, running, held, enq, com, taking, due, bounds,
                 history>>

ClearSeenBegin ==
  /\ OperatorStep
  /\ seen' = [u \in Urls |-> "none"]
  /\ rest' = "seen"
  /\ UNCHANGED <<queue, leases, recrawl, counters, running, held, enq, com, taking, due,
                 crashes, history>>

ClearSeenEnd ==
  /\ rest = "seen"
  /\ recrawl' = {}
  /\ unscheduled' = unscheduled \union recrawl
  /\ rest' = "nothing"
  /\ UNCHANGED <<seen, queue, leases, counters, running, held, enq, com, taking, due, bounds,
                 dropped, drifted>>

-----------------------------------------------------------------------------
(* Counters, and the end of the process.                        *)

\* The maintenance loop saves every minute.
PersistCounters ==
  /\ SaveCounters
  /\ UNCHANGED <<store, seq, pending, owed, memory, bounds, history>>

\* The process dies and Open reads the saved counters back.
CrashAndOpen ==
  /\ crashes < MaxCrashes
  /\ crashes' = crashes + 1
  /\ seq' = mSeq /\ pending' = mPending
  /\ owed' = [c \in Callers |-> 0]
  /\ running' = FALSE
  /\ held' = {} /\ enq' = EmptyBatch /\ com' = EmptyBatch /\ taking' = {} /\ due' = {}
  /\ rest' = "nothing"
  /\ unscheduled' = unscheduled \union due
  /\ drifted' = (\/ drifted \/ rest \in {"leases", "zero"}
                 \/ mSeq # seq \/ mPending # pending \/ \E c \in Callers : owed[c] # 0)
  /\ UNCHANGED <<store, mSeq, mPending, ops, dropped>>

-----------------------------------------------------------------------------
Next ==
  \/ \E u \in Urls : EnqueueStage(u)
  \/ EnqueueApply
  \/ \E l \in held : \/ \E links \in SUBSET Urls : CompleteDone(l, links)
                     \/ CompleteDead(l)
                     \/ CompleteRetry(l)
  \/ \E u \in Urls : CompleteLink(u)
  \/ CompleteApply
  \/ \E c \in Callers : AddOwed(c)
  \/ \E e \in queue : LeaseRead(e)
  \/ \E t \in taking : LeaseApply(t)
  \/ Start
  \/ \E buffered \in SUBSET held : \/ Stop(buffered)
                                   \/ DropBuffered(buffered)
                                   \/ ClearQueueBegin(buffered)
                                   \/ ClearQueueEnd(buffered)
  \/ \E u \in recrawl : DueForRecrawl(u)
  \/ \E u \in Urls : RequeueDue(u) \/ RequeueDueFails(u) \/ Reseed(u)
  \/ ClearQueueLeases
  \/ ClearQueueZero
  \/ StopEnd
  \/ ClearSeenBegin
  \/ ClearSeenEnd
  \/ PersistCounters
  \/ CrashAndOpen

Spec == Init /\ [][Next]_vars

-----------------------------------------------------------------------------
(* Properties.                                                             *)

\* Every variable holds a value of its kind.
TypeOK ==
  /\ seen \in [Urls -> Status]
  /\ queue \subseteq EntryType /\ leases \subseteq LeaseType /\ recrawl \subseteq Urls
  /\ seq \in Nat /\ mSeq \in Nat /\ pending \in Int /\ mPending \in Nat
  /\ running \in BOOLEAN
  /\ held \subseteq LeaseType
  /\ enq \in BatchType /\ com \in BatchType
  /\ owed \in [Callers -> Int]
  /\ taking \subseteq [entry : EntryType, seq : Nat]
  /\ due \subseteq Urls
  /\ rest \in {"nothing", "leases", "zero", "buffers", "save", "seen"}
  /\ crashes \in Nat /\ ops \in Nat
  /\ dropped \subseteq Urls /\ unscheduled \subseteq Urls
  /\ drifted \in BOOLEAN

\* A URL recorded as pending can still be handed out: it is queued or leased,
\* whatever crashed, stopped or was requeued in between, unless the user threw it
\* away (the purpose of l/ and of the sweep at Start).
NoWorkLost == \A u \in Urls : seen[u] = "pending" => u \in Todo \union dropped

\* No two outstanding leases, on disk or in memory, have one number.
LeaseKeysUnique ==
  \A x, y \in leases \union held : x.seq = y.seq => x = y

\* A lease never overwrites one that is outstanding, and a completion releases its
\* own: numbers are unique, and while the crawl runs the next one drawn is free.  The
\* l/ keys carry no random bytes, so after a crash has rolled the counter back this
\* rests on the sweep that runs before the first Lease.
LeaseKeysSafe ==
  /\ LeaseKeysUnique
  /\ running => \A l \in leases \union held : l.seq <= seq

\* A finished page has an entry in the recrawl index, or is in the maintenance
\* loop's hands, so that it is crawled again ("the frontier refills itself").
\* The three ways it can be lost: a crash between DueForRecrawl and Requeue, a
\* Requeue that fails, and a completion between the two deletes of ClearSeen.
RecrawlScheduled ==
  \A u \in Urls : seen[u] = "done" => u \in recrawl \union due \union unscheduled

\* The counter and the adds still to come make the exact length of the queue, between
\* the calls' commits and their adds too, until one of the named events sets it off:
\* an exit with a counter that is not saved or not updated yet; a push that commits
\* between ClearQueue's delete and its Store(0), or is not counted yet when that
\* comes; a Lease of an entry that ClearQueue has deleted.
PendingExact ==
  ~drifted /\ rest \notin {"leases", "zero"} => pending + Outstanding = Cardinality(queue)

WL == INSTANCE WorkList WITH status <- seen, todo <- Todo, dropped <- dropped

\* The frontier implements the work list: leases, sweeps, restarts and crashes
\* never take a URL off it, and an outcome is recorded in the step that does.
ImplementsWorkList == WL!Spec
=============================================================================
