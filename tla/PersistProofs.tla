---------------------------- MODULE PersistProofs ---------------------------
(***************************************************************************)
(* Proofs about Persist.tla for any URLs, fingerprints, bands and limits,  *)
(* and any number of pages and faults.                                     *)
(*                                                                         *)
(* SuppressedHasOriginal rests on what a row of the table says of the      *)
(* index: outside of the rows a fault has left behind, a row that is there *)
(* is the fingerprint last handed on (RowsTell below).  Between the two    *)
(* stores that holds because what was handed on is what will be written    *)
(* (HandedOn).                                                             *)
(***************************************************************************)
EXTENDS Persist, SequenceTheorems, FiniteSetTheorems, WellFoundedInduction, TLAPS

-----------------------------------------------------------------------------
(* The least and the greatest of some numbers.                             *)

LEMMA Smallest ==
  ASSUME NEW S \in SUBSET Nat, S # {}
  PROVE  \E x \in S : \A y \in S : x <= y
<1> DEFINE R == {ss \in Nat \X Nat : ss[1] < ss[2]}
<1>1. IsWellFoundedOn(R, Nat)
  BY NatLessThanWellFounded DEF OpToRel
<1> HIDE DEF R
<1>2. PICK x \in S : \A y \in S : <<y, x>> \notin R
  BY <1>1, WFMin
<1>3. \A y \in S : y \in Nat /\ x \in Nat /\ ~(y < x)
  BY <1>2 DEF R
<1> QED BY <1>3

\* Numbers with a bound have a greatest one.
LEMMA MaxOf ==
  ASSUME NEW S \in SUBSET Nat, S # {}, NEW b \in Nat, \A x \in S : x <= b
  PROVE  Max(S) \in S /\ \A x \in S : x <= Max(S)
<1> DEFINE T == {b - x : x \in S}
<1>1. \A x \in S : b - x \in Nat
  OBVIOUS
<1>2. T \in SUBSET Nat /\ T # {}
  BY <1>1
<1>3. PICK y \in T : \A z \in T : y <= z
  BY <1>2, Smallest
<1>4. PICK x \in S : y = b - x
  OBVIOUS
<1>5. \A z \in S : x >= z
  <2> TAKE z \in S
  <2>1. b - x <= b - z
    BY <1>3, <1>4
  <2> QED BY <2>1
<1> QED BY <1>4, <1>5 DEF Max

LEMMA MinOf == \A a, b \in Int : Min({a, b}) = IF a <= b THEN a ELSE b
<1> TAKE a, b \in Int
<1>1. \E x \in {a, b} : \A y \in {a, b} : x <= y
  OBVIOUS
<1>2. Min({a, b}) \in {a, b} /\ \A y \in {a, b} : Min({a, b}) <= y
  BY <1>1 DEF Min
<1> QED BY <1>2

-----------------------------------------------------------------------------
(* Types.                                                                  *)

\* The batch is no longer than the limit, and the page it has come to is one of its own.
BatchOK ==
  /\ batch \in Seq(Result) /\ Len(batch) <= MaxBatch
  /\ at \in Nat \ {0} /\ at <= MaxBatch + 1
  /\ step \in {"collect", "record", "count", "complete", "apply", "applyOnly"}
  /\ step \in {"record", "count"} => at <= Len(batch)

StoresOK ==
  /\ handed \in [Urls -> Fingerprints \union {None}]
  /\ rows \in [Urls -> Fingerprints] /\ stale \subseteq Urls
  /\ totals \in Nat

\* An event is numbered before the counter has come to it.
FeedOK ==
  /\ ring \in [0 .. RecentLimit - 1 -> Nat] /\ seq \in Nat
  /\ \A i \in 0 .. RecentLimit - 1 : ring[i] <= seq + 1
  /\ head \in 0 .. RecentLimit - 1 /\ filled \in 0 .. RecentLimit

DashboardOK ==
  /\ cache \in CacheType \union {None} /\ resetting \in BOOLEAN
  /\ stream \in StreamType \union {Closed}

BoundsOK == fetched \in Nat /\ faults \in Nat

TypeInv == BatchOK /\ StoresOK /\ FeedOK /\ DashboardOK /\ BoundsOK

LEMMA Sizes ==
  /\ RecentLimit \in Nat /\ RecentLimit > 0 /\ MaxBatch \in Nat /\ MaxBatch > 0
  /\ MaxDelta \in Nat /\ MaxDelta > 0
  BY SizeAssumption

LEMMA TypeInvImpliesTypeOK == TypeInv => TypeOK
<1> SUFFICES ASSUME TypeInv PROVE TypeOK
  OBVIOUS
<1>1. at \in 1 .. MaxBatch + 1
  BY Sizes DEF TypeInv, BatchOK
<1>2. head \in DOMAIN ring
  BY DEF TypeInv, FeedOK
<1> QED BY <1>1, <1>2 DEF TypeInv, BatchOK, StoresOK, FeedOK, DashboardOK, BoundsOK, TypeOK

LEMMA EmptyFeed ==
  ASSUME ring = [i \in 0 .. RecentLimit - 1 |-> 0], head = 0, filled = 0, seq = 0
  PROVE  FeedOK
  BY Sizes DEF FeedOK

LEMMA EmptyFeedPrimed ==
  ASSUME ring' = [i \in 0 .. RecentLimit - 1 |-> 0], head' = 0, filled' = 0, seq' = 0
  PROVE  FeedOK'
  BY Sizes DEF FeedOK

LEMMA NoBatch ==
  /\ batch = <<>> /\ at = 1 /\ step = "collect" => BatchOK
  /\ batch' = <<>> /\ at' = 1 /\ step' = "collect" => BatchOK'
<1>1. <<>> \in Seq(Result) /\ Len(<<>>) = 0
  OBVIOUS
<1>2. 0 <= MaxBatch /\ 1 \in Nat \ {0} /\ 1 <= MaxBatch + 1
  BY Sizes
<1>3. /\ "collect" \in {"collect", "record", "count", "complete", "apply", "applyOnly"}
      /\ "collect" \notin {"record", "count"}
  OBVIOUS
<1>4. batch = <<>> /\ at = 1 /\ step = "collect" => BatchOK
  BY <1>1, <1>2, <1>3 DEF BatchOK
<1>5. batch' = <<>> /\ at' = 1 /\ step' = "collect" => BatchOK'
  BY <1>1, <1>2, <1>3 DEF BatchOK
<1> QED BY <1>4, <1>5

LEMMA InitTypeInv == Init => TypeInv
<1> SUFFICES ASSUME Init PROVE TypeInv
  OBVIOUS
<1>1. BatchOK
  BY NoBatch DEF Init
<1>2. StoresOK
  BY FingerprintAssumption DEF Init, StoresOK
<1>3. FeedOK
  BY EmptyFeed DEF Init
<1>4. resetting \in BOOLEAN
  BY DEF Init
<1>5. DashboardOK /\ BoundsOK
  BY <1>4 DEF Init, DashboardOK, BoundsOK
<1> QED BY <1>1, <1>2, <1>3, <1>5 DEF TypeInv

\* A result that is a document, or the page of a failed fetch.
LEMMA CollectedType ==
  ASSUME NEW n \in 1 .. MaxBatch,
         NEW b \in [1 .. n -> [url : Urls, doc : {TRUE}, fp : Fingerprints, deduped : {FALSE}]
                              \union [url : Urls, doc : {FALSE}, fp : {{}}, deduped : {FALSE}]]
  PROVE  b \in Seq(Result) /\ Len(b) = n /\ \A i \in DOMAIN b : ~b[i].deduped
<1>1. n \in Nat
  BY Sizes
<1>2. /\ [url : Urls, doc : {TRUE}, fp : Fingerprints, deduped : {FALSE}] \subseteq Result
      /\ [url : Urls, doc : {FALSE}, fp : {{}}, deduped : {FALSE}] \subseteq Result
  <2>1. TRUE \in BOOLEAN /\ FALSE \in BOOLEAN
    OBVIOUS
  <2> QED BY <2>1, FingerprintAssumption DEF Result
<1>3. b \in [1 .. n -> Result]
  BY <1>2
<1>4. \A i \in 1 .. n : ~b[i].deduped
  OBVIOUS
<1> QED BY <1>1, <1>3, <1>4

\* What becomes of the page when it is looked up.
LEMMA Looked ==
  ASSUME BatchOK, step = "record", NEW dup \in Suppressed(batch[at]),
         batch' = [batch EXCEPT ![at].deduped = dup]
  PROVE  /\ batch' \in Seq(Result) /\ Len(batch') = Len(batch) /\ DOMAIN batch' = DOMAIN batch
         /\ at \in DOMAIN batch /\ batch'[at].deduped = dup
         /\ \A i \in DOMAIN batch : /\ batch'[i].url = batch[i].url /\ batch'[i].fp = batch[i].fp
                                    /\ batch'[i].doc = batch[i].doc
                                    /\ i # at => batch'[i] = batch[i]
<1>1. at \in DOMAIN batch /\ batch[at] \in Result
  BY DEF BatchOK
<1>2. dup \in BOOLEAN
  BY DEF Suppressed, NearDuplicate
<1> DEFINE r == [batch[at] EXCEPT !.deduped = dup]
<1>3. /\ r \in Result /\ r.deduped = dup /\ r.url = batch[at].url /\ r.fp = batch[at].fp
      /\ r.doc = batch[at].doc
  BY <1>1, <1>2 DEF Result
<1>4. batch' = [batch EXCEPT ![at] = r]
  BY <1>1
<1> HIDE DEF r
<1>5. batch' \in Seq(Result) /\ Len(batch') = Len(batch) /\ DOMAIN batch' = DOMAIN batch
  BY <1>1, <1>3, <1>4, ExceptSeq DEF BatchOK
<1> QED BY <1>1, <1>3, <1>4, <1>5 DEF BatchOK

-----------------------------------------------------------------------------
(* Types: the steps of the collector.                                      *)

LEMMA CollectType ==
  ASSUME TypeInv, Collect
  PROVE  TypeInv' /\ \A i \in DOMAIN batch' : ~batch'[i].deduped
<1>1. PICK n \in 1 .. MaxBatch :
        \E b \in [1 .. n -> [url : Urls, doc : {TRUE}, fp : Fingerprints, deduped : {FALSE}]
                            \union [url : Urls, doc : {FALSE}, fp : {{}}, deduped : {FALSE}]] :
          batch' = b /\ fetched' = fetched + n
  BY DEF Collect
<1>2. /\ batch' \in Seq(Result) /\ Len(batch') = n /\ n \in Nat /\ n <= MaxBatch /\ n >= 1
      /\ \A i \in DOMAIN batch' : ~batch'[i].deduped
  <2>1. PICK b \in [1 .. n -> [url : Urls, doc : {TRUE}, fp : Fingerprints, deduped : {FALSE}]
                              \union [url : Urls, doc : {FALSE}, fp : {{}}, deduped : {FALSE}]] :
          batch' = b
    BY <1>1
  <2>2. b \in Seq(Result) /\ Len(b) = n /\ \A i \in DOMAIN b : ~b[i].deduped
    BY CollectedType
  <2>3. n \in Nat /\ n <= MaxBatch /\ n >= 1
    BY Sizes
  <2> QED BY <2>1, <2>2, <2>3
<1>3. at' = 1 /\ step' = "record" /\ UNCHANGED <<stores, totals, feed, dashboard, faults>>
  BY DEF Collect
<1>4. BatchOK'
  BY <1>2, <1>3, Sizes DEF BatchOK
<1>5. BoundsOK'
  BY <1>1, <1>2, <1>3 DEF TypeInv, BoundsOK
<1>6. StoresOK' /\ FeedOK' /\ DashboardOK'
  BY <1>3 DEF stores, feed, dashboard, TypeInv, StoresOK, FeedOK, DashboardOK
<1> QED BY <1>2, <1>4, <1>5, <1>6 DEF TypeInv

\* The look-up is answered, or fails and leaves the page as it is.
LEMMA RecordLooks ==
  ASSUME BatchOK, BoundsOK, Record
  PROVE  /\ BatchOK' /\ BoundsOK' /\ DOMAIN batch' = DOMAIN batch /\ at \in DOMAIN batch
         /\ \A i \in DOMAIN batch : /\ batch'[i].url = batch[i].url /\ batch'[i].fp = batch[i].fp
                                    /\ batch'[i].doc = batch[i].doc
                                    /\ i # at => batch'[i] = batch[i]
         /\ batch'[at] = batch[at] \/ batch'[at].deduped \in Suppressed(batch[at])
<1>1. step = "record" /\ step' = "count" /\ at' = at /\ fetched' = fetched
  BY DEF Record
<1>2. at \in DOMAIN batch
  BY <1>1 DEF BatchOK
<1>3. CASE /\ \E dup \in Suppressed(batch[at]) : batch' = [batch EXCEPT ![at].deduped = dup]
           /\ faults' = faults
  <2>1. PICK dup \in Suppressed(batch[at]) : batch' = [batch EXCEPT ![at].deduped = dup]
    BY <1>3
  <2>2. /\ batch' \in Seq(Result) /\ Len(batch') = Len(batch) /\ DOMAIN batch' = DOMAIN batch
        /\ batch'[at].deduped = dup
        /\ \A i \in DOMAIN batch : /\ batch'[i].url = batch[i].url /\ batch'[i].fp = batch[i].fp
                                   /\ batch'[i].doc = batch[i].doc
                                   /\ i # at => batch'[i] = batch[i]
    BY <1>1, <2>1, Looked
  <2>3. BatchOK'
    BY <1>1, <2>2 DEF BatchOK
  <2> QED BY <1>1, <1>2, <1>3, <2>2, <2>3 DEF BoundsOK
<1>4. CASE Fault /\ batch' = batch
  <2>1. BatchOK' /\ BoundsOK'
    BY <1>1, <1>4 DEF BatchOK, BoundsOK, Fault
  <2> QED BY <1>2, <1>4, <2>1
<1> QED BY <1>3, <1>4 DEF Record

LEMMA RecordType ==
  ASSUME TypeInv, Record
  PROVE  TypeInv'
<1>1. /\ ring' = [ring EXCEPT ![head] = seq + 1] /\ head' = (head + 1) % RecentLimit
      /\ filled' = Min({filled + 1, RecentLimit})
      /\ UNCHANGED <<stores, totals, seq, dashboard>>
  BY DEF Record
<1>2. BatchOK' /\ BoundsOK'
  BY RecordLooks DEF TypeInv
<1>3. /\ ring \in [0 .. RecentLimit - 1 -> Nat] /\ seq \in Nat /\ head \in Nat /\ filled \in Nat
      /\ head \in 0 .. RecentLimit - 1 /\ \A i \in 0 .. RecentLimit - 1 : ring[i] <= seq + 1
  BY DEF TypeInv, FeedOK
<1>4. ring' \in [0 .. RecentLimit - 1 -> Nat]
  BY <1>1, <1>3
<1>5. \A i \in 0 .. RecentLimit - 1 : ring'[i] <= seq' + 1
  BY <1>1, <1>3
<1>6. head' \in 0 .. RecentLimit - 1
  BY <1>1, <1>3, Sizes
<1>7. filled' \in 0 .. RecentLimit
  <2>1. filled' = IF filled + 1 <= RecentLimit THEN filled + 1 ELSE RecentLimit
    BY <1>1, <1>3, Sizes, MinOf
  <2> QED BY <1>3, <2>1, Sizes
<1>8. FeedOK'
  BY <1>1, <1>3, <1>4, <1>5, <1>6, <1>7 DEF FeedOK
<1>9. StoresOK' /\ DashboardOK'
  BY <1>1 DEF stores, dashboard, TypeInv, StoresOK, DashboardOK
<1> QED BY <1>2, <1>8, <1>9 DEF TypeInv

LEMMA CountType ==
  ASSUME TypeInv, Count
  PROVE  TypeInv'
<1>1. /\ step = "count" /\ seq' = seq + 1 /\ at' = at + 1
      /\ step' = IF at < Len(batch) THEN "record" ELSE "complete"
      /\ UNCHANGED <<batch, stores, totals, ring, head, filled, dashboard, fetched, faults>>
  BY DEF Count
<1>2. BatchOK'
  <2>1. Len(batch) \in Nat /\ at \in Nat /\ at <= Len(batch) /\ Len(batch) <= MaxBatch
    BY <1>1 DEF TypeInv, BatchOK
  <2>2. at' <= MaxBatch + 1 /\ at' \in Nat \ {0} /\ (step' = "record" => at' <= Len(batch'))
    BY <1>1, <2>1, Sizes
  <2> QED BY <1>1, <2>2 DEF TypeInv, BatchOK
<1>3. FeedOK'
  BY <1>1 DEF TypeInv, FeedOK
<1>4. StoresOK' /\ DashboardOK' /\ BoundsOK'
  BY <1>1 DEF stores, dashboard, TypeInv, StoresOK, DashboardOK, BoundsOK
<1> QED BY <1>2, <1>3, <1>4 DEF TypeInv

\* What Updated chooses is the fingerprint of a result for the URL.
LEMMA UpdatedBy ==
  ASSUME NEW results, NEW f, NEW u \in Urls
  PROVE  /\ (\A r \in results : r.url # u) => Updated(f, results)[u] = f[u]
         /\ (\E r \in results : r.url = u) =>
              \E r \in results : r.url = u /\ Updated(f, results)[u] = r.fp
<1>1. CASE \A r \in results : r.url # u
  BY <1>1 DEF Updated
<1>2. CASE \E r \in results : r.url = u
  <2> DEFINE r == CHOOSE r \in results : r.url = u
  <2>1. r \in results /\ r.url = u
    BY <1>2
  <2>2. Updated(f, results)[u] = r.fp
    BY <1>2 DEF Updated
  <2> QED BY <2>1, <2>2
<1> QED BY <1>1, <1>2

LEMMA DocumentsType ==
  ASSUME BatchOK
  PROVE  /\ Documents \in SUBSET Result /\ Delta.fingerprints \in SUBSET Result
         /\ Delta.fingerprints = {r \in Documents : r.fp # {}}
         /\ Delta.pages \in Nat
<1>1. DOMAIN batch = 1 .. Len(batch) /\ Len(batch) \in Nat /\ \A i \in DOMAIN batch : batch[i] \in Result
  BY DEF BatchOK
<1>2. Documents \in SUBSET Result
  BY <1>1 DEF Documents
<1>3. /\ Delta.pages = Cardinality({i \in DOMAIN batch : batch[i].doc})
      /\ Delta.fingerprints = {r \in Documents : r.fp # {}}
  BY DEF Delta
<1>4. IsFiniteSet(DOMAIN batch)
  BY <1>1, FS_Interval
<1>5. {i \in DOMAIN batch : batch[i].doc} \in SUBSET DOMAIN batch
  OBVIOUS
<1>6. Cardinality({i \in DOMAIN batch : batch[i].doc}) \in Nat
  BY <1>4, <1>5, FS_Subset, FS_CardinalityType
<1> QED BY <1>2, <1>3, <1>6

LEMMA UpdatedType ==
  ASSUME NEW results \in SUBSET Result, NEW T, Fingerprints \subseteq T, NEW f \in [Urls -> T]
  PROVE  Updated(f, results) \in [Urls -> T]
<1>1. \A u \in Urls : Updated(f, results)[u] \in T
  <2> TAKE u \in Urls
  <2>1. \A r \in results : r.fp \in T
    BY DEF Result
  <2> QED BY <2>1, UpdatedBy
<1>2. Updated(f, results) = [u \in Urls |-> Updated(f, results)[u]]
  BY DEF Updated
<1> HIDE DEF Updated
<1> QED BY <1>1, <1>2

LEMMA CommitType ==
  ASSUME TypeInv, Complete \/ CompleteFails \/ Apply \/ ApplyFails
  PROVE  TypeInv'
<1>d. /\ Documents \in SUBSET Result /\ Delta.fingerprints \in SUBSET Result /\ Delta.pages \in Nat
      /\ \A r \in Result : r.url \in Urls
  BY DocumentsType DEF TypeInv, Result
<1>s. StoresOK
  BY DEF TypeInv
<1>1. CASE Complete
  <2>1. handed' \in [Urls -> Fingerprints \union {None}]
    <3>1. handed' = Updated(handed, Documents)
      BY <1>1 DEF Complete
    <3>2. handed \in [Urls -> Fingerprints \union {None}]
      BY <1>s DEF StoresOK
    <3> QED BY <1>d, <3>1, <3>2, UpdatedType
  <2>2. stale' \subseteq Urls
    BY <1>1, <1>d, <1>s DEF Complete, StoresOK
  <2>3. StoresOK'
    BY <1>1, <1>s, <2>1, <2>2 DEF Complete, StoresOK
  <2>4. BatchOK'
    BY <1>1 DEF Complete, TypeInv, BatchOK
  <2> QED BY <1>1, <2>3, <2>4
          DEF Complete, TypeInv, FeedOK, DashboardOK, BoundsOK, feed, dashboard
<1>2. CASE CompleteFails
  <2>1. BatchOK'
    BY <1>2 DEF CompleteFails, TypeInv, BatchOK
  <2>2. BoundsOK'
    BY <1>2 DEF CompleteFails, Fault, TypeInv, BoundsOK
  <2> QED BY <1>2, <2>1, <2>2
          DEF CompleteFails, TypeInv, StoresOK, FeedOK, DashboardOK, stores, feed, dashboard
<1>3. CASE Apply
  <2>1. rows' \in [Urls -> Fingerprints]
    <3>1. rows' = Updated(rows, Delta.fingerprints)
      BY <1>3 DEF Apply
    <3>2. rows \in [Urls -> Fingerprints]
      BY <1>s DEF StoresOK
    <3> QED BY <1>d, <3>1, <3>2, UpdatedType
  <2>2. stale' \subseteq Urls
    <3>1. {r.url : r \in Delta.fingerprints} \subseteq Urls
      BY <1>d
    <3> HIDE DEF Delta
    <3> QED BY <1>3, <1>s, <3>1 DEF Apply, StoresOK
  <2>3. totals' \in Nat
    BY <1>3, <1>d, <1>s DEF Apply, StoresOK
  <2>4. StoresOK'
    BY <1>3, <1>s, <2>1, <2>2, <2>3 DEF Apply, StoresOK
  <2>5. BatchOK'
    BY <1>3, NoBatch DEF Apply
  <2> QED BY <1>3, <2>4, <2>5
          DEF Apply, TypeInv, FeedOK, DashboardOK, BoundsOK, feed, dashboard
<1>4. CASE ApplyFails
  <2>1. BatchOK'
    BY <1>4, NoBatch DEF ApplyFails
  <2>2. BoundsOK'
    BY <1>4 DEF ApplyFails, Fault, TypeInv, BoundsOK
  <2> QED BY <1>4, <2>1, <2>2
          DEF ApplyFails, TypeInv, StoresOK, FeedOK, DashboardOK, stores, feed, dashboard
<1> QED BY <1>1, <1>2, <1>3, <1>4

-----------------------------------------------------------------------------
(* Types: the dashboard.                                                   *)

\* The latest of any number of recent events is one of the ring's.
LEMMA RecentType ==
  ASSUME FeedOK, NEW n \in Int, NEW least \in Nat
  PROVE  Max(Recent(n) \union {least}) \in Nat
<1>1. filled \in Int /\ head \in Int /\ RecentLimit \in Nat /\ RecentLimit > 0
  BY Sizes DEF FeedOK
<1>2. Min({n, filled}) \in Int
  BY <1>1, MinOf
<1>3. \A i \in 0 .. Min({n, filled}) - 1 : (head - 1 - i) % RecentLimit \in 0 .. RecentLimit - 1
  BY <1>1, <1>2
<1>4. \A x \in Recent(n) : x \in Nat /\ x <= seq + 1
  BY <1>3 DEF Recent, FeedOK
<1>5. PICK b \in Nat : seq + 1 <= b /\ least <= b
  <2>1. seq \in Nat /\ seq + 1 <= seq + 1 + least /\ least <= seq + 1 + least /\ seq + 1 + least \in Nat
    BY DEF FeedOK
  <2> QED BY <2>1
<1>6. \A x \in Recent(n) \union {least} : x <= b
  BY <1>4, <1>5 DEF FeedOK
<1>7. Recent(n) \union {least} \in SUBSET Nat /\ Recent(n) \union {least} # {}
  BY <1>4
<1> QED BY <1>6, <1>7, MaxOf

LEMMA AggregatesType ==
  ASSUME StoresOK, DashboardOK
  PROVE  Aggregates \in CacheType /\ Aggregates.totals \in Nat
<1>1. cache # None => cache \in CacheType
  BY DEF DashboardOK
<1>2. [totals |-> totals, old |-> FALSE] \in CacheType
  <2>1. FALSE \in BOOLEAN
    OBVIOUS
  <2> QED BY <2>1 DEF StoresOK, CacheType
<1>3. Aggregates \in CacheType
  BY <1>1, <1>2 DEF Aggregates
<1> QED BY <1>3 DEF CacheType

LEMMA DashboardType ==
  ASSUME TypeInv,
         \/ OpenStream \/ StreamStep \/ CloseStream \/ CacheAges
         \/ ResetStats \/ InvalidateAggregates
  PROVE  TypeInv'
<1>t. StoresOK /\ FeedOK /\ DashboardOK /\ seq \in Nat /\ resetting \in BOOLEAN
  BY DEF TypeInv, FeedOK, DashboardOK
<1>a. Aggregates \in CacheType /\ Aggregates.totals \in Nat
  BY <1>t, AggregatesType
<1>s. stream # Closed => stream \in StreamType
  BY <1>t DEF DashboardOK
<1>b. TRUE \in BOOLEAN /\ FALSE \in BOOLEAN
  OBVIOUS
<1>1. CASE OpenStream
  <2>1. Max(Recent(RecentLimit) \union {0}) \in Nat
    BY <1>t, Sizes, RecentType
  <2>2. stream' \in StreamType
    BY <1>1, <1>a, <1>b, <1>t, <2>1 DEF OpenStream, StreamType
  <2>3. DashboardOK'
    BY <1>1, <1>a, <1>t, <2>2 DEF OpenStream, DashboardOK
  <2> QED BY <1>1, <2>3
          DEF OpenStream, TypeInv, BatchOK, StoresOK, FeedOK, BoundsOK, collector, stores, feed
<1>2. CASE Tick
  <2>1. stream \in StreamType /\ stream' = [stream EXCEPT !.read = seq, !.sending = TRUE]
    BY <1>2, <1>s DEF Tick
  <2>2. stream' \in StreamType
    BY <1>b, <1>t, <2>1 DEF StreamType
  <2>3. DashboardOK'
    BY <1>2, <1>t, <2>2 DEF Tick, DashboardOK
  <2> QED BY <1>2, <2>3
          DEF Tick, TypeInv, BatchOK, StoresOK, FeedOK, BoundsOK, collector, stores, feed
<1>3. CASE Send
  <2> DEFINE delta == Min({stream.read - stream.lastSeq, MaxDelta})
             newest == Max((IF delta > 0 THEN Recent(delta) ELSE {}) \union {stream.newest})
  <2>1. stream \in StreamType /\ stream.read \in Nat /\ stream.lastSeq \in Nat /\ stream.newest \in Nat
    BY <1>3, <1>s DEF Send, StreamType
  <2>2. delta \in Int
    BY <2>1, MinOf, Sizes
  <2>3. newest \in Nat
    <3> HIDE DEF delta
    <3>1. CASE delta > 0
      BY <1>t, <2>1, <2>2, <3>1, RecentType
    <3>2. CASE ~(delta > 0)
      <4>1. newest = Max({stream.newest})
        BY <3>2
      <4>2. {stream.newest} \in SUBSET Nat /\ {stream.newest} # {} /\ \A x \in {stream.newest} : x <= stream.newest
        BY <2>1
      <4>3. Max({stream.newest}) \in {stream.newest}
        BY <2>1, <4>2, MaxOf
      <4> QED BY <2>1, <4>1, <4>3
    <3> QED BY <3>1, <3>2
  <2>4. stream' = [stream EXCEPT !.newest = newest, !.lastSeq = stream.read, !.sending = FALSE,
                                 !.totals = Aggregates.totals]
    BY <1>3, <2>1 DEF Send, StreamType
  <2> HIDE DEF newest
  <2>5. stream' \in StreamType
    BY <1>a, <1>b, <2>1, <2>3, <2>4 DEF StreamType
  <2>6. DashboardOK'
    BY <1>3, <1>a, <1>t, <2>5 DEF Send, DashboardOK
  <2> QED BY <1>3, <2>6
          DEF Send, TypeInv, BatchOK, StoresOK, FeedOK, BoundsOK, collector, stores, feed
<1>4. CASE CloseStream
  <2>1. DashboardOK'
    BY <1>4, <1>t DEF CloseStream, DashboardOK
  <2> QED BY <1>4, <2>1
          DEF CloseStream, TypeInv, BatchOK, StoresOK, FeedOK, BoundsOK, collector, stores, feed
<1>5. CASE CacheAges
  <2>1. cache \in CacheType /\ cache' = [cache EXCEPT !.old = TRUE]
    BY <1>5, <1>t DEF CacheAges, DashboardOK
  <2>2. cache' \in CacheType
    BY <1>b, <2>1 DEF CacheType
  <2>3. DashboardOK'
    BY <1>5, <1>t, <2>2 DEF CacheAges, DashboardOK
  <2> QED BY <1>5, <2>3
          DEF CacheAges, TypeInv, BatchOK, StoresOK, FeedOK, BoundsOK, collector, stores, feed
<1>6. CASE ResetStats
  <2>1. DashboardOK'
    BY <1>6, <1>b, <1>t DEF ResetStats, DashboardOK
  <2>2. StoresOK' /\ BoundsOK'
    BY <1>6, <1>t DEF ResetStats, Fault, TypeInv, StoresOK, BoundsOK, stores
  <2> QED BY <1>6, <2>1, <2>2 DEF ResetStats, TypeInv, BatchOK, FeedOK, collector, feed
<1>7. CASE InvalidateAggregates
  <2>1. DashboardOK'
    BY <1>7, <1>b, <1>t DEF InvalidateAggregates, DashboardOK
  <2> QED BY <1>7, <2>1
          DEF InvalidateAggregates, TypeInv, BatchOK, StoresOK, FeedOK, BoundsOK, collector, stores, feed
<1> QED BY <1>1, <1>2, <1>3, <1>4, <1>5, <1>6, <1>7 DEF StreamStep

LEMMA CrashType ==
  ASSUME TypeInv, Crash
  PROVE  TypeInv'
<1>1. BatchOK'
  BY NoBatch DEF Crash
<1>2. FeedOK'
  BY EmptyFeedPrimed DEF Crash
<1>3. resetting' \in BOOLEAN
  BY DEF Crash
<1>4. DashboardOK'
  BY <1>3 DEF Crash, DashboardOK
<1>5. StoresOK' /\ BoundsOK'
  BY DEF Crash, Fault, TypeInv, StoresOK, BoundsOK, stores
<1> QED BY <1>1, <1>2, <1>4, <1>5 DEF TypeInv

LEMMA NextTypeInv == TypeInv /\ [Next]_vars => TypeInv'
<1>1. ASSUME TypeInv, UNCHANGED vars PROVE TypeInv'
  BY <1>1
  DEF vars, collector, stores, feed, dashboard, TypeInv, BatchOK, StoresOK, FeedOK, DashboardOK, BoundsOK
<1> QED
  BY <1>1, CollectType, RecordType, CountType, CommitType, DashboardType, CrashType
  DEF Next, CollectorStep

LEMMA TypeInvHolds == Spec => []TypeInv
  BY InitTypeInv, NextTypeInv, PTL DEF Spec

\* TypeOK: the page in hand is one of the batch, and the ring of events is never overrun.
THEOREM TypeCorrect == Spec => []TypeOK
  BY TypeInvHolds, TypeInvImpliesTypeOK, PTL

-----------------------------------------------------------------------------
(* SuppressedHasOriginal.                                                  *)

\* A row that is there tells what the index has, unless a fault or a page without words
\* has set them apart.
RowsTell == \A v \in Urls : rows[v] # {} => v \in stale \/ handed[v] = rows[v]

\* A batch has each URL once, so between the stores what was handed on is what will be
\* written.
OncePerBatch == \A i, j \in DOMAIN batch : batch[i].url = batch[j].url => i = j
HandedOn == step = "apply" => \A r \in Documents : handed[r.url] = r.fp

OriginalInv == RowsTell /\ OncePerBatch /\ HandedOn /\ SuppressedHasOriginal

LEMMA OneDocument ==
  ASSUME BatchOK, OncePerBatch
  PROVE  \A r, q \in Documents : r.url = q.url => r = q
  BY DEF Documents, OncePerBatch

\* What a look-up finds is near the page, and is not its own row.
LEMMA FoundIsNear ==
  ASSUME TypeInv, RowsTell, NEW r \in Result, TRUE \in Suppressed(r)
  PROVE  \E v \in Urls \ {r.url} :
           v \in stale \/ (handed[v] # None /\ Near(handed[v], r.fp))
<1>1. r.doc /\ r.fp # {} /\ TRUE \in NearDuplicate(r.url, r.fp)
  BY DEF Suppressed
<1>2. PICK read : /\ read \in kSubset(Min({RowLimit, Cardinality(Candidates(r.url, r.fp))}), Candidates(r.url, r.fp))
                  /\ \E v \in read : Distance(r.fp, rows[v]) <= NearThreshold
  BY <1>1 DEF NearDuplicate
<1>3. PICK v \in Candidates(r.url, r.fp) : Distance(r.fp, rows[v]) <= NearThreshold
  BY <1>2 DEF kSubset
<1>4. v \in Urls \ {r.url} /\ rows[v] # {}
  BY DEF Candidates
<1>5. Distance(rows[v], r.fp) <= NearThreshold
  <2>1. (r.fp \ rows[v]) \union (rows[v] \ r.fp) = (rows[v] \ r.fp) \union (r.fp \ rows[v])
    OBVIOUS
  <2> QED BY <1>3, <2>1 DEF Distance
<1>6. Near(rows[v], r.fp)
  BY <1>1, <1>4, <1>5 DEF Near
<1>7. rows[v] # None
  BY <1>4, FingerprintAssumption DEF TypeInv, StoresOK
<1> QED BY <1>4, <1>6, <1>7 DEF RowsTell

LEMMA InitOriginal == Init => OriginalInv
<1> SUFFICES ASSUME Init PROVE OriginalInv
  OBVIOUS
<1>1. DOMAIN batch = {}
  BY DEF Init
<1>2. step # "apply" /\ \A v \in Urls : rows[v] = {}
  BY DEF Init
<1> QED BY <1>1, <1>2 DEF OriginalInv, RowsTell, OncePerBatch, HandedOn, SuppressedHasOriginal

\* The batch is gone, the stores are in step or a fault has come between.
LEMMA EmptyOriginal ==
  ASSUME RowsTell', batch' = <<>>, step' = "collect"
  PROVE  OriginalInv'
<1>1. DOMAIN batch' = {}
  OBVIOUS
<1> QED BY <1>1 DEF OriginalInv, OncePerBatch, HandedOn, SuppressedHasOriginal

LEMMA NextOriginal == TypeInv /\ OriginalInv /\ [Next]_vars => OriginalInv'
<1> SUFFICES ASSUME TypeInv, OriginalInv, [Next]_vars PROVE OriginalInv'
  OBVIOUS
<1>t. BatchOK /\ StoresOK /\ BoundsOK /\ RowsTell /\ OncePerBatch /\ HandedOn /\ SuppressedHasOriginal
  BY DEF TypeInv, OriginalInv
<1>d. /\ Documents \in SUBSET Result /\ Delta.fingerprints \in SUBSET Result
      /\ Delta.fingerprints = {r \in Documents : r.fp # {}}
      /\ \A r \in Result : r.url \in Urls /\ r.fp \in Fingerprints
  BY <1>t, DocumentsType DEF Result
<1>1. CASE Collect
  <2>1. UNCHANGED <<handed, rows, stale>> /\ step' = "record"
    BY <1>1 DEF Collect, stores
  <2>2. \A i \in DOMAIN batch' : ~batch'[i].deduped
    BY <1>1, CollectType
  <2>3. OncePerBatch'
    <3>1. PICK n \in 1 .. MaxBatch :
            \E b \in [1 .. n -> [url : Urls, doc : {TRUE}, fp : Fingerprints, deduped : {FALSE}]
                                \union [url : Urls, doc : {FALSE}, fp : {{}}, deduped : {FALSE}]] :
              batch' = b /\ \A i, j \in 1 .. n : b[i].url = b[j].url => i = j
      BY <1>1 DEF Collect
    <3> QED BY <3>1 DEF OncePerBatch
  <2> QED BY <1>t, <2>1, <2>2, <2>3 DEF OriginalInv, RowsTell, HandedOn, SuppressedHasOriginal
<1>2. CASE Record
  <2>1. UNCHANGED <<handed, rows, stale>> /\ step' = "count"
    BY <1>2 DEF Record, stores
  <2>2. /\ DOMAIN batch' = DOMAIN batch /\ at \in DOMAIN batch
        /\ \A i \in DOMAIN batch : /\ batch'[i].url = batch[i].url /\ batch'[i].fp = batch[i].fp
                                   /\ i # at => batch'[i] = batch[i]
        /\ batch'[at] = batch[at] \/ batch'[at].deduped \in Suppressed(batch[at])
    BY <1>2, <1>t, RecordLooks
  <2>3. OncePerBatch'
    BY <1>t, <2>2 DEF OncePerBatch
  <2>4. ASSUME NEW i \in DOMAIN batch', batch'[i].deduped
        PROVE  \E v \in Urls \ {batch[i].url} :
                 v \in stale \/ (handed[v] # None /\ Near(handed[v], batch[i].fp))
    <3>1. CASE batch'[i] = batch[i]
      BY <1>t, <2>2, <2>4, <3>1 DEF SuppressedHasOriginal
    <3>2. CASE batch'[i] # batch[i]
      <4>1. i = at /\ batch'[i].deduped \in Suppressed(batch[i])
        BY <2>2, <3>2
      <4>2. batch'[i].deduped \in BOOLEAN
        BY <4>1 DEF Suppressed, NearDuplicate
      <4>3. TRUE \in Suppressed(batch[i])
        BY <2>4, <4>1, <4>2
      <4>4. batch[i] \in Result
        BY <1>t, <2>2 DEF BatchOK
      <4> QED BY <1>t, <4>3, <4>4, FoundIsNear
    <3> QED BY <3>1, <3>2
  <2>5. SuppressedHasOriginal'
    BY <2>1, <2>2, <2>4 DEF SuppressedHasOriginal
  <2> QED BY <1>t, <2>1, <2>3, <2>5 DEF OriginalInv, RowsTell, HandedOn
<1>3. CASE Complete
  <2>1. /\ handed' = Updated(handed, Documents) /\ stale' = stale \union {r.url : r \in Documents}
        /\ UNCHANGED <<batch, rows>>
    BY <1>3 DEF Complete
  <2>2. \A v \in Urls : v \in stale' \/ handed'[v] = handed[v]
    BY <1>d, <2>1, UpdatedBy
  <2>3. stale \subseteq stale'
    BY <2>1
  <2>4. RowsTell'
    BY <1>t, <2>1, <2>2, <2>3 DEF RowsTell
  <2>5. HandedOn'
    <3>1. \A r \in Documents : handed'[r.url] = r.fp
      <4> TAKE r \in Documents
      <4>1. r.url \in Urls
        BY <1>d
      <4>2. PICK q \in Documents : q.url = r.url /\ handed'[r.url] = q.fp
        BY <2>1, <4>1, UpdatedBy
      <4> QED BY <1>t, <4>2, OneDocument
    <3>2. Documents' = Documents
      BY <2>1 DEF Documents
    <3> QED BY <3>1, <3>2 DEF HandedOn
  <2>6. SuppressedHasOriginal'
    BY <1>t, <2>1, <2>2, <2>3 DEF SuppressedHasOriginal
  <2> QED BY <1>t, <2>1, <2>4, <2>5, <2>6 DEF OriginalInv, OncePerBatch
<1>4. CASE Apply
  <2>1. /\ rows' = Updated(rows, Delta.fingerprints) /\ handed' = handed
        /\ stale' = IF step = "apply" THEN stale \ {r.url : r \in Delta.fingerprints}
                    ELSE stale \union {r.url : r \in Delta.fingerprints}
        /\ batch' = <<>> /\ step' = "collect" /\ step \in {"apply", "applyOnly"}
    BY <1>4 DEF Apply
  <2>2. ASSUME NEW v \in Urls, rows'[v] # {} PROVE v \in stale' \/ handed'[v] = rows'[v]
    <3>1. CASE /\ \A r \in Delta.fingerprints : r.url # v
               /\ rows'[v] = rows[v]
      <4>1. v \in stale => v \in stale'
        <5> HIDE DEF Delta
        <5> QED BY <2>1, <3>1
      <4> QED BY <1>t, <2>1, <2>2, <3>1, <4>1 DEF RowsTell
    <3>2. CASE \E r \in Delta.fingerprints : r.url = v /\ rows'[v] = r.fp
      <4>1. PICK r \in Delta.fingerprints : r.url = v /\ rows'[v] = r.fp
        BY <3>2
      <4>2. r \in Documents
        BY <1>d, <4>1
      <4>3. CASE step = "apply"
        BY <1>t, <2>1, <4>1, <4>2, <4>3 DEF HandedOn
      <4>4. CASE step # "apply"
        BY <2>1, <4>1, <4>4
      <4> QED BY <4>3, <4>4
    <3> HIDE DEF Delta
    <3> QED BY <2>1, <3>1, <3>2, UpdatedBy
  <2>3. RowsTell'
    BY <2>2 DEF RowsTell
  <2> QED BY <2>1, <2>3, EmptyOriginal
<1>5. CASE ApplyFails \/ Crash
  <2>1. UNCHANGED <<handed, rows, stale>> /\ batch' = <<>> /\ step' = "collect"
    BY <1>5 DEF ApplyFails, Crash, stores
  <2>2. RowsTell'
    BY <1>t, <2>1 DEF RowsTell
  <2> QED BY <2>1, <2>2, EmptyOriginal
<1>6. ASSUME UNCHANGED <<batch, handed, rows, stale>>, step' = step \/ step' # "apply"
      PROVE  OriginalInv'
  BY <1>t, <1>6 DEF OriginalInv, RowsTell, OncePerBatch, HandedOn, Documents, SuppressedHasOriginal
<1>7. CASE Count
  BY <1>6, <1>7 DEF Count, stores
<1>8. CASE CompleteFails
  BY <1>6, <1>8 DEF CompleteFails, stores
<1>9. CASE \/ OpenStream \/ StreamStep \/ CloseStream \/ CacheAges
           \/ ResetStats \/ InvalidateAggregates \/ UNCHANGED vars
  BY <1>6, <1>9
  DEF OpenStream, StreamStep, Tick, Send, CloseStream, CacheAges, ResetStats,
      InvalidateAggregates, vars, collector, stores
<1> QED BY <1>1, <1>2, <1>3, <1>4, <1>5, <1>7, <1>8, <1>9 DEF Next, CollectorStep

\* SuppressedHasOriginal: of a page that is suppressed the index has a near copy under
\* another URL, whatever batches, crashes and failed writes have come before; only a URL
\* whose row a fault has set apart from the index may stand in for one.
THEOREM SuppressionKeepsOne == Spec => []SuppressedHasOriginal
<1>1. OriginalInv => SuppressedHasOriginal
  BY DEF OriginalInv
<1> QED BY <1>1, TypeInvHolds, InitOriginal, NextOriginal, PTL DEF Spec
=============================================================================
