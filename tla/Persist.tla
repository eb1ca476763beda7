------------------------------ MODULE Persist ------------------------------
(***************************************************************************)
(* The collector's persist (crawl/crawler.go) commits a batch of results   *)
(* to two stores, one after the other: the frontier with the documents for *)
(* the index (kv.go, Complete), then the aggregates and the fingerprints   *)
(* (meta/meta.go, Apply).  Before that it asks for each page whether it is *)
(* a near copy of another one (simhash.go), and publishes it to the live   *)
(* feed (metrics/metrics.go), which the dashboard's stream reads, together *)
(* with totals out of a cache (api/api.go, live and aggregates).           *)
(*                                                                         *)
(* A fingerprint is the set of its bits that are set.  Pages counted stand *)
(* for all the aggregates, which one transaction writes.                   *)
(***************************************************************************)
EXTENDS Integers, Sequences, FiniteSets, FiniteSetsExt

CONSTANTS
  Urls,
  Fingerprints,      \* of the pages' texts; {} is the one of a page without words
  BandWidth, Bands,  \* bits of a band, and how many bands there are
  NearThreshold,
  RowLimit,          \* rows a look-up reads
  RecentLimit,       \* size of the ring of events
  MaxDelta,          \* events a tick sends at most
  None, Closed,      \* no document; no stream
  MaxBatch, MaxPages, \* bounds: pages of a batch, pages fetched
  MaxFaults          \* bound: failed writes and look-ups, crashes, resets

ASSUME SizeAssumption ==
  /\ {BandWidth, Bands, NearThreshold, RowLimit, RecentLimit, MaxDelta, MaxBatch}
       \subseteq Nat \ {0}
  /\ MaxDelta <= RecentLimit
  /\ {MaxPages, MaxFaults} \subseteq Nat
ASSUME FingerprintAssumption ==
  /\ Fingerprints \subseteq SUBSET (0 .. BandWidth * Bands - 1)
  /\ {} \in Fingerprints /\ None \notin Fingerprints

VARIABLES
  batch, at, step,   \* the batch, the page it has come to, and what comes next
  handed,            \* the document each URL last gave to the index
  rows,              \* the table fingerprints, {} for no row
  totals,            \* pages counted
  ring, head, filled, seq,  \* the live feed: its events, numbered, and their counter
  cache,             \* aggVal, and whether it is older than two seconds
  resetting,         \* resetStats has emptied the aggregates and not the cache yet
  stream,            \* the dashboard's stream
  stale,             \* history: rows that do not tell what the index has
  fetched, faults    \* bounds

vars == <<batch, at, step, handed, rows, totals, ring, head, filled, seq, cache, stream,
          resetting, stale, fetched, faults>>
collector == <<batch, at, step>>
stores == <<handed, rows, stale>>
feed == <<ring, head, filled, seq>>
dashboard == <<cache, stream, resetting>>

-----------------------------------------------------------------------------
Result == [url : Urls, doc : BOOLEAN, fp : Fingerprints, deduped : BOOLEAN]
CacheType == [totals : Nat, old : BOOLEAN]
StreamType == [lastSeq : Nat, read : Nat, newest : Nat, totals : Nat,
               sending : BOOLEAN]

\* The bits in which two fingerprints differ, and the part of one in a band.
Distance(a, b) == Cardinality((a \ b) \union (b \ a))
Band(fp, i) == fp \intersect (i * BandWidth .. (i + 1) * BandWidth - 1)

Near(a, b) == a # {} /\ b # {} /\ Distance(a, b) <= NearThreshold

\* Mutated form of Candidates: the page's own row is read too.
CandidatesWithOwn(url, fp) ==
  {v \in Urls : rows[v] # {} /\ \E i \in 0 .. Bands - 1 : Band(rows[v], i) = Band(fp, i)}

\* The rows of other URLs that share a band.
Candidates(url, fp) ==
  {v \in Urls \ {url} :
     rows[v] # {} /\ \E i \in 0 .. Bands - 1 : Band(rows[v], i) = Band(fp, i)}

\* The answers HasNearDuplicate may give, depending on which rows the limit leaves.
NearDuplicate(url, fp) ==
  LET found == Candidates(url, fp) IN
  {\E v \in read : Distance(fp, rows[v]) <= NearThreshold :
     read \in kSubset(Min({RowLimit, Cardinality(found)}), found)}

Init ==
  /\ batch = <<>> /\ at = 1 /\ step = "collect"
  /\ handed = [u \in Urls |-> None]
  /\ rows = [u \in Urls |-> {}]
  /\ totals = 0
  /\ ring = [i \in 0 .. RecentLimit - 1 |-> 0] /\ head = 0 /\ filled = 0 /\ seq = 0
  /\ cache = None /\ stream = Closed /\ resetting = FALSE
  /\ stale = {}
  /\ fetched = 0 /\ faults = 0

Fault == faults < MaxFaults /\ faults' = faults + 1

-----------------------------------------------------------------------------
(* The collector                                                           *)

\* Results of different URLs: a failed fetch has no document.
Collect ==
  /\ step = "collect" /\ fetched < MaxPages
  /\ \E n \in 1 .. MaxBatch : \E b \in [1 .. n -> [url : Urls, doc : {TRUE}, fp : Fingerprints,
                                                  deduped : {FALSE}]
                                          \union [url : Urls, doc : {FALSE}, fp : {{}},
                                                  deduped : {FALSE}]] :
       /\ \A i, j \in 1 .. n : b[i].url = b[j].url => i = j
       /\ fetched + n <= MaxPages
       /\ fetched' = fetched + n
       /\ batch' = b
  /\ at' = 1 /\ step' = "record"
  /\ UNCHANGED <<stores, totals, feed, dashboard, faults>>

\* Near-duplicate suppression drops the document; a failed look-up keeps it.
Suppressed(r) == IF r.doc /\ r.fp # {} THEN NearDuplicate(r.url, r.fp) ELSE {FALSE}

\* Mutated form of Record: the count of events in the ring grows past its size.
RecordOverfills ==
  /\ step = "record"
  /\ \/ /\ \E dup \in Suppressed(batch[at]) : batch' = [batch EXCEPT ![at].deduped = dup]
        /\ UNCHANGED faults
     \/ /\ batch[at].doc /\ batch[at].fp # {}
        /\ Fault
        /\ UNCHANGED batch
  /\ ring' = [ring EXCEPT ![head] = seq + 1]
  /\ head' = (head + 1) % RecentLimit
  /\ filled' = filled + 1
  /\ step' = "count"
  /\ UNCHANGED <<at, stores, totals, seq, dashboard, fetched>>

\* The next page: it is looked up, and its event goes into the ring under the lock; the
\* counter follows after it.
Record ==
  /\ step = "record"
  /\ \/ /\ \E dup \in Suppressed(batch[at]) : batch' = [batch EXCEPT ![at].deduped = dup]
        /\ UNCHANGED faults
     \/ /\ batch[at].doc /\ batch[at].fp # {}
        /\ Fault
        /\ UNCHANGED batch
  /\ ring' = [ring EXCEPT ![head] = seq + 1]
  /\ head' = (head + 1) % RecentLimit
  /\ filled' = Min({filled + 1, RecentLimit})
  /\ step' = "count"
  /\ UNCHANGED <<at, stores, totals, seq, dashboard, fetched>>

Count ==
  /\ step = "count"
  /\ seq' = seq + 1
  /\ at' = at + 1
  /\ step' = IF at < Len(batch) THEN "record" ELSE "complete"
  /\ UNCHANGED <<batch, stores, totals, ring, head, filled, dashboard, fetched, faults>>

\* The results whose documents are handed on, and what is written to the aggregates: a
\* page that was suppressed counts all the same.
Documents == {batch[i] : i \in {j \in DOMAIN batch : batch[j].doc /\ ~batch[j].deduped}}
Delta == [pages        |-> Cardinality({i \in DOMAIN batch : batch[i].doc}),
          fingerprints |-> {r \in Documents : r.fp # {}}]

\* f with the fingerprints of the results in its place.
Updated(f, results) ==
  [u \in Urls |-> IF \E r \in results : r.url = u
                  THEN (CHOOSE r \in results : r.url = u).fp ELSE f[u]]

\* Documents without words leave the row their page had.
Complete ==
  /\ step = "complete"
  /\ handed' = Updated(handed, Documents)
  /\ stale' = stale \union {r.url : r \in Documents}
  /\ step' = "apply"
  /\ UNCHANGED <<batch, at, rows, totals, feed, dashboard, fetched, faults>>

\* The error is logged, and the aggregates are written all the same.
CompleteFails ==
  /\ step = "complete" /\ Fault
  /\ step' = "applyOnly"
  /\ UNCHANGED <<batch, at, stores, totals, feed, dashboard, fetched>>

Apply ==
  /\ step \in {"apply", "applyOnly"}
  /\ rows' = Updated(rows, Delta.fingerprints)
  /\ stale' = IF step = "apply" THEN stale \ {r.url : r \in Delta.fingerprints}
              ELSE stale \union {r.url : r \in Delta.fingerprints}
  /\ totals' = totals + Delta.pages
  /\ batch' = <<>> /\ at' = 1 /\ step' = "collect"
  /\ UNCHANGED <<handed, feed, dashboard, fetched, faults>>

ApplyFails ==
  /\ step \in {"apply", "applyOnly"} /\ Fault
  /\ batch' = <<>> /\ at' = 1 /\ step' = "collect"
  /\ UNCHANGED <<stores, totals, feed, dashboard, fetched>>

-----------------------------------------------------------------------------
(* The dashboard                                                           *)

\* Mutated form of Recent: it starts one event too far back.
RecentSkipsNewest(n) ==
  {ring[(head - 1 - i) % RecentLimit] : i \in 1 .. Min({n, filled}) - 1}

\* Up to n of the most recent events.
Recent(n) == {ring[(head - 1 - i) % RecentLimit] : i \in 0 .. Min({n, filled}) - 1}

\* aggregates: the cached value while it is young, else a new one.
Aggregates ==
  IF cache # None /\ ~cache.old THEN cache ELSE [totals |-> totals, old |-> FALSE]

\* The counter is read first, then a whole snapshot is sent.
OpenStream ==
  /\ stream = Closed
  /\ cache' = Aggregates
  /\ stream' = [lastSeq |-> seq, read |-> seq, sending |-> FALSE,
                newest |-> Max(Recent(RecentLimit) \union {0}), totals |-> Aggregates.totals]
  /\ UNCHANGED <<collector, stores, totals, feed, resetting, fetched, faults>>

Tick ==
  /\ stream # Closed /\ ~stream.sending
  /\ stream.lastSeq # seq \/ stream.totals # Aggregates.totals
  /\ stream' = [stream EXCEPT !.read = seq, !.sending = TRUE]
  /\ UNCHANGED <<collector, stores, totals, feed, resetting, cache, fetched, faults>>

\* As many of the events that are the latest by now as the counter had moved by; and, in
\* every sixth tick, the aggregates.  (The ticks that would have nothing new to send are
\* left out.)
Send ==
  /\ stream # Closed /\ stream.sending
  /\ LET delta == Min({stream.read - stream.lastSeq, MaxDelta}) IN
     stream' = [stream EXCEPT !.newest = Max((IF delta > 0 THEN Recent(delta) ELSE {}) \union {@}),
                              !.lastSeq = stream.read, !.sending = FALSE,
                              !.totals = Aggregates.totals]
  /\ cache' = Aggregates
  /\ UNCHANGED <<collector, stores, totals, feed, resetting, fetched, faults>>

CloseStream ==
  /\ stream # Closed
  /\ stream' = Closed
  /\ UNCHANGED <<collector, stores, totals, feed, resetting, cache, fetched, faults>>

CacheAges ==
  /\ cache # None /\ ~cache.old
  /\ cache' = [cache EXCEPT !.old = TRUE]
  /\ UNCHANGED <<collector, stores, totals, feed, resetting, stream, fetched, faults>>

\* The button empties the aggregates, not the fingerprints, and then the cache.
ResetStats ==
  /\ ~resetting /\ Fault
  /\ totals' = 0
  /\ resetting' = TRUE
  /\ UNCHANGED <<collector, stores, feed, cache, stream, fetched>>

InvalidateAggregates ==
  /\ resetting
  /\ cache' = None
  /\ resetting' = FALSE
  /\ UNCHANGED <<collector, stores, totals, feed, stream, fetched, faults>>

-----------------------------------------------------------------------------
\* The process ends: batch, feed, cache and stream are gone, the stores stay as they are.
Crash ==
  /\ Fault
  /\ batch' = <<>> /\ at' = 1 /\ step' = "collect"
  /\ ring' = [i \in 0 .. RecentLimit - 1 |-> 0] /\ head' = 0 /\ filled' = 0 /\ seq' = 0
  /\ cache' = None /\ stream' = Closed /\ resetting' = FALSE
  /\ UNCHANGED <<stores, totals, fetched>>

CollectorStep ==
  Record \/ Count \/ Complete \/ CompleteFails \/ Apply \/ ApplyFails
StreamStep == Tick \/ Send

Next ==
  \/ Collect \/ CollectorStep
  \/ OpenStream \/ StreamStep \/ CloseStream \/ CacheAges
  \/ ResetStats \/ InvalidateAggregates
  \/ Crash

Spec == Init /\ [][Next]_vars

\* Goroutines run, time passes.
FairSpec == Spec /\ WF_vars(CollectorStep) /\ WF_vars(StreamStep) /\ WF_vars(CacheAges)
                 /\ WF_vars(InvalidateAggregates)

-----------------------------------------------------------------------------
(* Properties                                                              *)

\* Every variable holds a value of its kind.
TypeOK ==
  /\ batch \in Seq(Result) /\ at \in 1 .. MaxBatch + 1
  /\ step \in {"collect", "record", "count", "complete", "apply", "applyOnly"}
  /\ handed \in [Urls -> Fingerprints \union {None}]
  /\ rows \in [Urls -> Fingerprints] /\ stale \subseteq Urls
  /\ totals \in Nat /\ seq \in Nat
  /\ ring \in [0 .. RecentLimit - 1 -> Nat] /\ head \in DOMAIN ring
  /\ filled \in 0 .. RecentLimit
  /\ cache \in CacheType \union {None} /\ resetting \in BOOLEAN
  /\ stream \in StreamType \union {Closed}
  /\ fetched \in Nat /\ faults \in Nat

\* Of a page that is suppressed the index has a near copy, under another URL: one that was
\* handed to it, not one that was suppressed itself or is its own earlier version.  (Rows
\* may be out of step with the index after a fault, and for pages that lost their words.)
SuppressedHasOriginal ==
  \A i \in DOMAIN batch : batch[i].deduped =>
    \E v \in Urls \ {batch[i].url} :
      v \in stale \/ (handed[v] # None /\ Near(handed[v], batch[i].fp))

\* When fetching pauses, a dashboard that stays open comes to show the latest event and
\* the totals of the store, whatever came between its readings and whatever is cached.
DashboardCatchesUp ==
  <>[](stream # Closed) =>
    <>[](stream # Closed /\ stream.totals = totals /\ stream.newest = seq)
=============================================================================
