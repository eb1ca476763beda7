--------------------------- MODULE FrontierProofs ---------------------------
(***************************************************************************)
(* Proofs about Frontier.tla for every set of URLs and every bound.        *)
(*                                                                         *)
(* Type correctness needs the sets whose cardinality is added to a counter *)
(* to be finite.  NoWorkLost needs two strengthenings: a lease number is   *)
(* never outstanding twice (so that a completion releases its own lease),  *)
(* and a batch under construction never takes a URL's last record away     *)
(* without putting one back or settling the URL.                           *)
(***************************************************************************)
EXTENDS Frontier, FiniteSetTheorems, TLAPS

\* The sets the counters are computed from are finite.
FiniteOK ==
  /\ IsFiniteSet(leases)
  /\ IsFiniteSet(held)
  /\ IsFiniteSet(enq.put)
  /\ IsFiniteSet(com.put)

TypeInv == TypeOK /\ FiniteOK

-----------------------------------------------------------------------------
(* The helpers of the model.                                               *)

\* Writing entries keeps the queue a set of entries, and every entry written is there.
LEMMA PutsType ==
  ASSUME NEW es \in SUBSET EntryType, queue \subseteq EntryType,
         NEW q \in Puts(es)
  PROVE  q \subseteq EntryType /\ es \subseteq q
  BY DEF Puts

\* When the random bytes never repeat, writing entries removes none.
LEMMA PutsKeeps ==
  ASSUME ~JitterRepeats, NEW es, NEW q \in Puts(es)
  PROVE  q = queue \union es
  BY DEF Puts, Clashing

\* The entries written for a list of leases are well-formed and name the same URLs.
LEMMA NumberedType ==
  ASSUME NEW ls \in SUBSET LeaseType, IsFiniteSet(ls), seq \in Nat
  PROVE  /\ Numbered(ls) \in SUBSET EntryType
         /\ UrlsOf(Numbered(ls)) = UrlsOf(ls)
<1>1. ASSUME NEW l \in ls
      PROVE  Cardinality({m \in ls : m.seq <= l.seq}) \in Nat
  <2>1. IsFiniteSet({m \in ls : m.seq <= l.seq})
    BY FS_Subset
  <2> QED BY <2>1, FS_CardinalityType
<1>2. \A l \in ls : Entry(Known, seq + Cardinality({m \in ls : m.seq <= l.seq}), l.url)
                      \in EntryType
  BY <1>1 DEF Entry, EntryType, LeaseType, Known
<1>3. \A l \in ls : Entry(Known, seq + Cardinality({m \in ls : m.seq <= l.seq}), l.url).url
                      = l.url
  BY DEF Entry
<1> QED BY <1>2, <1>3 DEF Numbered, UrlsOf

LEMMA EmptyBatchType == EmptyBatch \in BatchType /\ EmptyBatch.put = {} /\ EmptyBatch.del = {}
  BY DEF EmptyBatch, BatchType

LEMMA EntryInType ==
  ASSUME NEW n \in Nat, NEW u \in Urls
  PROVE  /\ Entry(Fresh, n, u) \in EntryType /\ Entry(Fresh, n, u).url = u
         /\ Entry(Known, n, u) \in EntryType /\ Entry(Known, n, u).url = u
  BY DEF Entry, EntryType, Fresh, Known

LEMMA OwesType ==
  ASSUME TypeInv, NEW c \in Callers, NEW n \in Int, Owes(c, n)
  PROVE  owed' \in [Callers -> Int]
  BY DEF Owes, TypeInv, TypeOK

\* Committing a well-formed batch keeps the store well-formed.
LEMMA ApplyType ==
  ASSUME TypeInv, NEW b \in BatchType, IsFiniteSet(b.put), NEW c \in Callers, Apply(b, c)
  PROVE  /\ leases' \subseteq leases
         /\ IsFiniteSet(leases')
         /\ queue' \subseteq EntryType
         /\ seen' \in [Urls -> Status]
         /\ recrawl' \subseteq Urls
         /\ owed' \in [Callers -> Int]
         /\ dropped' \subseteq Urls
         /\ unscheduled' \subseteq Urls
<1>1. leases' \subseteq leases
  BY DEF Apply
<1>2. IsFiniteSet(leases')
  BY <1>1, FS_Subset DEF TypeInv, FiniteOK
<1>3. queue' \subseteq EntryType
  BY PutsType DEF Apply, TypeInv, TypeOK, BatchType
<1>4. seen' \in [Urls -> Status]
  BY DEF Apply, TypeInv, TypeOK, BatchType
<1>5. owed' \in [Callers -> Int]
  BY FS_CardinalityType, OwesType DEF Apply
<1>6. recrawl' \subseteq Urls /\ dropped' \subseteq Urls /\ unscheduled' \subseteq Urls
  BY DEF Apply, TypeInv, TypeOK, BatchType
<1> QED BY <1>1, <1>2, <1>3, <1>4, <1>5, <1>6

\* Requeueing keeps the store well-formed.
LEMMA RequeueType ==
  ASSUME TypeInv, NEW ls \in SUBSET held, Requeue(ls)
  PROVE  /\ queue' \subseteq EntryType
         /\ seen' \in [Urls -> Status]
         /\ seq' \in Nat
         /\ owed' \in [Callers -> Int]
         /\ dropped' \subseteq Urls
<1>1. ls \in SUBSET LeaseType /\ IsFiniteSet(ls) /\ Cardinality(ls) \in Nat
  BY FS_Subset, FS_CardinalityType DEF TypeInv, TypeOK, FiniteOK
<1>2. Numbered(ls) \in SUBSET EntryType
  BY <1>1, NumberedType DEF TypeInv, TypeOK
<1>3. queue' \subseteq EntryType
  BY <1>2, PutsType DEF Requeue, TypeInv, TypeOK
<1>4. seen' \in [Urls -> Status]
  BY DEF Requeue, TypeInv, TypeOK, Status
<1>5. seq' \in Nat /\ owed' \in [Callers -> Int]
  BY <1>1, OwesType DEF Requeue, TypeInv, TypeOK, Callers
<1>6. dropped' \subseteq Urls
  BY DEF Requeue, TypeInv, TypeOK
<1> QED BY <1>3, <1>4, <1>5, <1>6

-----------------------------------------------------------------------------
(* Type correctness.                                                       *)

LEMMA InitTypeInv == Init => TypeInv
<1> SUFFICES ASSUME Init PROVE TypeInv
  OBVIOUS
<1>1. IsFiniteSet({})
  BY FS_EmptySet
<1>2. FiniteOK
  BY <1>1, EmptyBatchType DEF Init, FiniteOK
<1>3. seen \in [Urls -> Status]
  BY DEF Init, Status
<1>4. running \in BOOLEAN /\ drifted \in BOOLEAN
  BY Zenon DEF Init
<1>5. TypeOK
  BY <1>3, <1>4, EmptyBatchType DEF Init, TypeOK, Callers
<1> QED BY <1>2, <1>5 DEF TypeInv

LEMMA NextTypeInv == TypeInv /\ [Next]_vars => TypeInv'
<1> SUFFICES ASSUME TypeInv, [Next]_vars PROVE TypeInv'
  OBVIOUS
<1> USE BoundsAssumption, SeedsAssumption
<1>1. ASSUME NEW u \in Urls, EnqueueStage(u) PROVE TypeInv'
  <2>1. Entry(Fresh, seq + 1, u) \in EntryType
    BY EntryInType DEF TypeInv, TypeOK
  <2>2. enq' \in BatchType
    BY <1>1, <2>1 DEF EnqueueStage, TypeInv, TypeOK, BatchType, Status
  <2>3. enq'.put = enq.put \union {Entry(Fresh, seq + 1, u)}
    BY <1>1 DEF EnqueueStage, TypeInv, TypeOK, BatchType
  <2>4. IsFiniteSet(enq'.put)
    BY <2>3, FS_AddElement DEF TypeInv, FiniteOK
  <2>5. FiniteOK'
    BY <1>1, <2>4 DEF EnqueueStage, TypeInv, FiniteOK, store
  <2>6. TypeOK'
    BY <1>1, <2>2 DEF EnqueueStage, TypeInv, TypeOK, store, bounds, history
  <2> QED BY <2>5, <2>6 DEF TypeInv
<1>2. CASE EnqueueApply
  <2>1. enq \in BatchType /\ IsFiniteSet(enq.put) /\ Apply(enq, "seeds") /\ "seeds" \in Callers
    BY <1>2 DEF EnqueueApply, TypeInv, TypeOK, FiniteOK, Callers
  <2>2. FiniteOK'
    BY <1>2, <2>1, ApplyType, EmptyBatchType, FS_EmptySet
    DEF EnqueueApply, TypeInv, FiniteOK
  <2>3. TypeOK'
    BY <1>2, <2>1, ApplyType, EmptyBatchType DEF EnqueueApply, TypeInv, TypeOK, bounds
  <2> QED BY <2>2, <2>3 DEF TypeInv
<1>3. ASSUME NEW l \in held, NEW links \in SUBSET Urls, CompleteDone(l, links)
      PROVE  TypeInv'
  <2>1. l \in LeaseType /\ l.url \in Urls
    BY DEF TypeInv, TypeOK, LeaseType
  <2>2. com' \in BatchType /\ com'.put = com.put
    BY <1>3, <2>1 DEF CompleteDone, TypeInv, TypeOK, BatchType, Status
  <2>3. FiniteOK'
    BY <1>3, <2>2 DEF CompleteDone, StageOnly, TypeInv, FiniteOK, store
  <2>4. TypeOK'
    BY <1>3, <2>2 DEF CompleteDone, StageOnly, TypeInv, TypeOK, store, bounds, history
  <2> QED BY <2>3, <2>4 DEF TypeInv
<1>4. ASSUME NEW l \in held, CompleteDead(l) PROVE TypeInv'
  <2>1. l \in LeaseType /\ l.url \in Urls
    BY DEF TypeInv, TypeOK, LeaseType
  <2>2. com' \in BatchType /\ com'.put = com.put
    BY <1>4, <2>1 DEF CompleteDead, TypeInv, TypeOK, BatchType, Status
  <2>3. FiniteOK'
    BY <1>4, <2>2 DEF CompleteDead, StageOnly, TypeInv, FiniteOK, store
  <2>4. TypeOK'
    BY <1>4, <2>2 DEF CompleteDead, StageOnly, TypeInv, TypeOK, store, bounds, history
  <2> QED BY <2>3, <2>4 DEF TypeInv
<1>5. ASSUME NEW l \in held, CompleteRetry(l) PROVE TypeInv'
  <2>1. l \in LeaseType /\ l.url \in Urls
    BY DEF TypeInv, TypeOK, LeaseType
  <2>2. Entry(Known, seq + 1, l.url) \in EntryType
    BY <2>1, EntryInType DEF TypeInv, TypeOK
  <2>3. com' \in BatchType /\ com'.put = com.put \union {Entry(Known, seq + 1, l.url)}
    BY <1>5, <2>1, <2>2 DEF CompleteRetry, TypeInv, TypeOK, BatchType
  <2>4. IsFiniteSet(com'.put)
    BY <2>3, FS_AddElement DEF TypeInv, FiniteOK
  <2>5. FiniteOK'
    BY <1>5, <2>4 DEF CompleteRetry, StageOnly, TypeInv, FiniteOK, store
  <2>6. TypeOK'
    BY <1>5, <2>3 DEF CompleteRetry, StageOnly, TypeInv, TypeOK, store, bounds, history
  <2> QED BY <2>5, <2>6 DEF TypeInv
<1>6. ASSUME NEW u \in Urls, CompleteLink(u) PROVE TypeInv'
  <2>1. Entry(Fresh, seq + 1, u) \in EntryType
    BY EntryInType DEF TypeInv, TypeOK
  <2> DEFINE e == Entry(Fresh, seq + 1, u)
  <2>2. /\ com' \in BatchType /\ seq' \in Nat
        /\ com'.put = com.put \/ com'.put = com.put \union {e}
    <3>1. com \in BatchType /\ seq \in Nat /\ e \in EntryType
      BY <2>1 DEF TypeInv, TypeOK
    <3>2. CASE com' = [com EXCEPT !.links = @ \ {u}] /\ UNCHANGED seq
      BY <3>1, <3>2 DEF BatchType
    <3>3. CASE /\ com' = [com EXCEPT !.links = @ \ {u}, !.put = @ \union {e},
                                     !.set[u] = "pending"]
               /\ seq' = seq + 1
      <4> HIDE DEF e
      <4>1. com'.put = com.put \union {e} /\ seq' \in Nat
        BY <3>1, <3>3 DEF BatchType
      <4>2. com'.set = [com.set EXCEPT ![u] = "pending"] /\ com'.links = com.links \ {u}
        BY <3>1, <3>3 DEF BatchType
      <4>3. com' = [del |-> com.del, put |-> com'.put, set |-> com'.set,
                    idx |-> com.idx, links |-> com'.links]
        BY <3>1, <3>3 DEF BatchType
      <4>4. com'.set \in [Urls -> Status \union {"keep"}]
        BY <3>1, <4>2 DEF BatchType, Status
      <4>5. com'.put \in SUBSET EntryType /\ com'.links \in SUBSET Urls
        BY <3>1, <4>1, <4>2 DEF BatchType
      <4>6. com' \in BatchType
        BY <3>1, <4>3, <4>4, <4>5 DEF BatchType
      <4> QED BY <4>1, <4>6
    <3> QED BY <1>6, <3>2, <3>3 DEF CompleteLink
  <2>3. IsFiniteSet(com'.put)
    BY <2>2, FS_AddElement DEF TypeInv, FiniteOK
  <2>4. FiniteOK'
    BY <1>6, <2>3 DEF CompleteLink, StageOnly, TypeInv, FiniteOK, store
  <2>5. TypeOK'
    BY <1>6, <2>2 DEF CompleteLink, StageOnly, TypeInv, TypeOK, store, bounds, history
  <2> QED BY <2>4, <2>5 DEF TypeInv
<1>7. CASE CompleteApply
  <2>1. /\ com \in BatchType /\ IsFiniteSet(com.put) /\ Apply(com, "collector")
        /\ "collector" \in Callers
    BY <1>7 DEF CompleteApply, TypeInv, TypeOK, FiniteOK, Callers
  <2>2. held' \subseteq held /\ IsFiniteSet(held')
    BY <1>7, FS_Subset DEF CompleteApply, TypeInv, FiniteOK
  <2>3. FiniteOK'
    BY <1>7, <2>1, <2>2, ApplyType, EmptyBatchType, FS_EmptySet
    DEF CompleteApply, TypeInv, FiniteOK
  <2>4. TypeOK'
    BY <1>7, <2>1, <2>2, ApplyType, EmptyBatchType
    DEF CompleteApply, TypeInv, TypeOK, bounds
  <2> QED BY <2>3, <2>4 DEF TypeInv
<1>8. ASSUME NEW t \in taking, LeaseApply(t) PROVE TypeInv'
  <2> DEFINE kept == {m \in leases : m.seq # t.seq}
  <2>1. LeaseOf(t) \in LeaseType
    BY DEF TypeInv, TypeOK, EntryType, LeaseType, LeaseOf
  <2>2. /\ leases' = kept \union {LeaseOf(t)} /\ held' = held \union {LeaseOf(t)}
        /\ queue' \subseteq queue
    BY <1>8 DEF LeaseApply
  <2>3. IsFiniteSet(kept)
    BY FS_Subset DEF TypeInv, FiniteOK
  <2>4. IsFiniteSet(leases') /\ IsFiniteSet(held')
    <3> HIDE DEF kept
    <3> QED BY <2>2, <2>3, FS_AddElement DEF TypeInv, FiniteOK
  <2>5. FiniteOK'
    BY <1>8, <2>4 DEF LeaseApply, TypeInv, FiniteOK
  <2>6. owed' \in [Callers -> Int]
    BY <1>8, OwesType DEF LeaseApply, Callers
  <2>7. drifted' \in BOOLEAN
    BY <1>8, Zenon DEF LeaseApply
  <2>8. TypeOK'
    BY <1>8, <2>1, <2>2, <2>6, <2>7 DEF LeaseApply, TypeInv, TypeOK, bounds
  <2> QED BY <2>5, <2>8 DEF TypeInv
<1>24. ASSUME NEW e \in queue, LeaseRead(e) PROVE TypeInv'
  BY <1>24 DEF LeaseRead, TypeInv, TypeOK, FiniteOK, store, bounds, history
<1>25. ASSUME NEW c \in Callers, AddOwed(c) PROVE TypeInv'
  BY <1>25 DEF AddOwed, TypeInv, TypeOK, FiniteOK, store, memory, bounds, history
<1>9. CASE Start
  <2>1. Numbered(leases) \in SUBSET EntryType /\ Cardinality(leases) \in Nat
    BY NumberedType, FS_CardinalityType DEF TypeInv, TypeOK, FiniteOK
  <2>2. queue' \subseteq EntryType
    BY <1>9, <2>1, PutsType DEF Start, SweepLeases, TypeInv, TypeOK
  <2>3. leases' = {} /\ seq' \in Nat /\ owed' \in [Callers -> Int]
    BY <1>9, <2>1, OwesType DEF Start, SweepLeases, TypeInv, TypeOK, Callers
  <2>4. FiniteOK'
    BY <1>9, <2>3, FS_EmptySet DEF Start, TypeInv, FiniteOK
  <2>5. TypeOK'
    BY <1>9, <2>2, <2>3 DEF Start, TypeInv, TypeOK, bounds, history
  <2> QED BY <2>4, <2>5 DEF TypeInv
<1>26. ASSUME NEW buffered \in SUBSET held, Requeue(buffered) \/ RequeueFails
       PROVE  /\ queue' \subseteq EntryType /\ seen' \in [Urls -> Status] /\ seq' \in Nat
              /\ owed' \in [Callers -> Int] /\ dropped' \subseteq Urls
              /\ leases' = leases /\ recrawl' = recrawl
  <2>1. CASE Requeue(buffered)
    BY <2>1, RequeueType DEF Requeue
  <2>2. CASE RequeueFails
    BY <2>2 DEF RequeueFails, store, TypeInv, TypeOK
  <2> QED BY <1>26, <2>1, <2>2
<1>10. ASSUME NEW buffered \in SUBSET held, Stop(buffered) PROVE TypeInv'
  <2>1. Requeue(buffered) \/ RequeueFails
    BY <1>10 DEF Stop
  <2>2. leases' = leases
    BY <1>26, <2>1
  <2>3. FiniteOK'
    BY <1>10, <2>2, FS_EmptySet DEF Stop, TypeInv, FiniteOK
  <2>4. ops' \in Nat
    BY <1>10 DEF Stop, OperatorStep, TypeInv, TypeOK
  <2>5. TypeOK'
    BY <1>10, <1>26, <2>1, <2>4 DEF Stop, TypeInv, TypeOK
  <2> QED BY <2>3, <2>5 DEF TypeInv
<1>11. ASSUME NEW buffered \in SUBSET held, DropBuffered(buffered) PROVE TypeInv'
  <2>1. Requeue(buffered) \/ RequeueFails
    BY <1>11 DEF DropBuffered
  <2>2. held' \subseteq held /\ IsFiniteSet(held')
    BY <1>11, FS_Subset DEF DropBuffered, TypeInv, FiniteOK
  <2>3. FiniteOK'
    BY <1>11, <1>26, <2>1, <2>2 DEF DropBuffered, TypeInv, FiniteOK
  <2>4. ops' \in Nat
    BY <1>11 DEF DropBuffered, OperatorStep, TypeInv, TypeOK
  <2>5. TypeOK'
    BY <1>11, <1>26, <2>1, <2>2, <2>4 DEF DropBuffered, TypeInv, TypeOK
  <2> QED BY <2>3, <2>5 DEF TypeInv
<1>12. ASSUME NEW buffered \in SUBSET held, ClearQueueBegin(buffered) PROVE TypeInv'
  <2>1. held' \subseteq held /\ IsFiniteSet(held')
    BY <1>12, FS_Subset DEF ClearQueueBegin, TypeInv, FiniteOK
  <2>2. FiniteOK'
    BY <1>12, <2>1 DEF ClearQueueBegin, TypeInv, FiniteOK
  <2>3. ops' \in Nat
    BY <1>12 DEF ClearQueueBegin, OperatorStep, TypeInv, TypeOK
  <2>4. UrlsOf(queue) \subseteq Urls
    BY DEF TypeInv, TypeOK, UrlsOf, EntryType
  <2>5. TypeOK'
    BY <1>12, <2>1, <2>3, <2>4 DEF ClearQueueBegin, TypeInv, TypeOK, counters
  <2> QED BY <2>2, <2>5 DEF TypeInv
<1>13. ASSUME NEW buffered \in SUBSET held, ClearQueueEnd(buffered) PROVE TypeInv'
  <2>1. held' \subseteq held /\ IsFiniteSet(held')
    BY <1>13, FS_Subset DEF ClearQueueEnd, TypeInv, FiniteOK
  <2>2. FiniteOK'
    BY <1>13, <2>1 DEF ClearQueueEnd, TypeInv, FiniteOK, store
  <2>3. TypeOK'
    BY <1>13, <2>1 DEF ClearQueueEnd, SaveCounters, TypeInv, TypeOK, store, bounds, history
  <2> QED BY <2>2, <2>3 DEF TypeInv
<1>27. CASE ClearQueueLeases
  <2>1. UrlsOf(leases) \subseteq Urls
    BY DEF TypeInv, TypeOK, UrlsOf, LeaseType
  <2>2. FiniteOK'
    BY <1>27, FS_EmptySet DEF ClearQueueLeases, TypeInv, FiniteOK
  <2>3. TypeOK'
    BY <1>27, <2>1 DEF ClearQueueLeases, TypeInv, TypeOK, counters, bounds
  <2> QED BY <2>2, <2>3 DEF TypeInv
<1>28. CASE ClearQueueZero
  <2>1. drifted' \in BOOLEAN
    BY <1>28, Zenon DEF ClearQueueZero
  <2> QED BY <1>28, <2>1 DEF ClearQueueZero, TypeInv, TypeOK, FiniteOK, store, bounds
<1>29. CASE StopEnd
  BY <1>29 DEF StopEnd, SaveCounters, TypeInv, TypeOK, FiniteOK, store, bounds, history
<1>14. ASSUME NEW u \in Urls, DueForRecrawl(u) PROVE TypeInv'
  BY <1>14 DEF DueForRecrawl, TypeInv, TypeOK, FiniteOK, counters, bounds, history
<1>15. ASSUME NEW u \in Urls, NEW c \in Callers, PushKnown(u, c), due' \subseteq Urls,
              ops' \in Nat, unscheduled' \subseteq Urls
       PROVE  TypeInv'
  <2>1. {Entry(Known, seq + 1, u)} \in SUBSET EntryType
    BY EntryInType DEF TypeInv, TypeOK
  <2>2. queue' \subseteq EntryType
    BY <1>15, <2>1, PutsType DEF PushKnown, TypeInv, TypeOK
  <2>3. seen' \in [Urls -> Status] /\ seq' \in Nat /\ owed' \in [Callers -> Int]
    BY <1>15, OwesType DEF PushKnown, TypeInv, TypeOK, Status
  <2>4. FiniteOK'
    BY <1>15 DEF PushKnown, TypeInv, FiniteOK
  <2>5. TypeOK'
    BY <1>15, <2>2, <2>3 DEF PushKnown, TypeInv, TypeOK
  <2> QED BY <2>4, <2>5 DEF TypeInv
<1>16. ASSUME NEW u \in Urls, RequeueDue(u) PROVE TypeInv'
  BY <1>15, <1>16 DEF RequeueDue, TypeInv, TypeOK, Callers
<1>30. ASSUME NEW u \in Urls, RequeueDueFails(u) PROVE TypeInv'
  BY <1>30 DEF RequeueDueFails, TypeInv, TypeOK, FiniteOK, store, counters, bounds
<1>17. ASSUME NEW u \in Urls, Reseed(u) PROVE TypeInv'
  BY <1>15, <1>17 DEF Reseed, OperatorStep, TypeInv, TypeOK, Callers
<1>18. CASE ClearSeenBegin
  BY <1>18 DEF ClearSeenBegin, OperatorStep, TypeInv, TypeOK, FiniteOK, Status, counters,
               history
<1>19. CASE ClearSeenEnd
  BY <1>19 DEF ClearSeenEnd, TypeInv, TypeOK, FiniteOK, counters, bounds
<1>20. CASE PersistCounters
  BY <1>20 DEF PersistCounters, SaveCounters, TypeInv, TypeOK, FiniteOK, store, memory, bounds, history
<1>21. CASE CrashAndOpen
  <2>1. FiniteOK'
    BY <1>21, EmptyBatchType, FS_EmptySet DEF CrashAndOpen, TypeInv, FiniteOK, store
  <2>2. drifted' \in BOOLEAN /\ running' \in BOOLEAN
    BY <1>21, Zenon DEF CrashAndOpen
  <2>3. unscheduled' \subseteq Urls
    BY <1>21 DEF CrashAndOpen, TypeInv, TypeOK
  <2>4. TypeOK'
    BY <1>21, <2>2, <2>3, EmptyBatchType DEF CrashAndOpen, TypeInv, TypeOK, store, Callers
  <2> QED BY <2>1, <2>4 DEF TypeInv
<1>22. CASE UNCHANGED vars
  BY <1>22 DEF vars, store, counters, memory, bounds, history, TypeInv, TypeOK, FiniteOK
<1>23. recrawl \subseteq Urls
  BY DEF TypeInv, TypeOK
<1> QED
  BY <1>1, <1>2, <1>3, <1>4, <1>5, <1>6, <1>7, <1>8, <1>9, <1>10, <1>11, <1>12, <1>13,
     <1>14, <1>16, <1>17, <1>18, <1>19, <1>20, <1>21, <1>22, <1>23, <1>24, <1>25, <1>27,
     <1>28, <1>29, <1>30 DEF Next

\* Every variable of the frontier keeps its type, whatever the bounds.
THEOREM TypeCorrect == Spec => []TypeOK
<1>1. Spec => []TypeInv
  BY InitTypeInv, NextTypeInv, PTL DEF Spec
<1>2. TypeInv => TypeOK
  BY DEF TypeInv
<1> QED BY <1>1, <1>2, PTL

-----------------------------------------------------------------------------
(* Lease numbers.                                                          *)

LeaseInv ==
  /\ LeaseKeysUnique
  /\ running => \A x \in leases \union held : x.seq <= seq
  /\ ~running => held = {}
  /\ \A t \in taking :
       /\ running /\ t.seq <= seq
       /\ \A x \in leases \union held : x.seq # t.seq
  /\ com.del \subseteq held
  /\ enq.del = {}

\* While the crawl runs, a step that hands out no lease, keeps the counter from
\* going down and keeps the staged leases in memory preserves LeaseInv.
LEMMA LeaseInvShrinks ==
  ASSUME TypeInv, LeaseInv, seq' \in Nat, seq <= seq',
         leases' \subseteq leases, held' \subseteq held,
         running' => running, ~running' => held' = {},
         com'.del \subseteq held', enq'.del = {},
         taking' \subseteq taking, taking' # {} => running'
  PROVE  LeaseInv'
<1>1. LeaseKeysUnique'
  BY DEF LeaseInv, LeaseKeysUnique
<1>2. ASSUME running', NEW x \in leases' \union held' PROVE x.seq <= seq'
  <2>1. x.seq <= seq
    BY <1>2 DEF LeaseInv
  <2>2. x.seq \in Nat /\ seq \in Nat
    BY <1>2 DEF TypeInv, TypeOK, LeaseType
  <2> QED BY <2>1, <2>2
<1>3. ASSUME NEW t \in taking'
      PROVE  running' /\ t.seq <= seq' /\ \A x \in leases' \union held' : x.seq # t.seq
  <2>1. t.seq \in Nat /\ seq \in Nat /\ t.seq <= seq
    BY DEF LeaseInv, TypeInv, TypeOK
  <2> QED BY <2>1 DEF LeaseInv
<1> QED BY <1>1, <1>2, <1>3 DEF LeaseInv

\* Looking a link up either leaves the batch's writes alone or adds one fresh entry.
LEMMA LinkStep ==
  ASSUME TypeInv, NEW u \in Urls, CompleteLink(u)
  PROVE  /\ com'.del = com.del /\ com'.idx = com.idx
         /\ \/ /\ com'.put = com.put /\ com'.set = com.set
               /\ seq' = seq
            \/ /\ com'.put = com.put \union {Entry(Fresh, seq + 1, u)}
               /\ com'.set = [com.set EXCEPT ![u] = "pending"]
               /\ seq' = seq + 1
<1> DEFINE e == Entry(Fresh, seq + 1, u)
<1>1. com \in BatchType
  BY DEF TypeInv, TypeOK
<1>2. CASE com' = [com EXCEPT !.links = @ \ {u}] /\ UNCHANGED seq
  BY <1>1, <1>2 DEF BatchType
<1>3. CASE /\ com' = [com EXCEPT !.links = @ \ {u}, !.put = @ \union {e},
                                 !.set[u] = "pending"]
           /\ seq' = seq + 1
  <2> HIDE DEF e
  <2>1. com'.del = com.del /\ com'.idx = com.idx
    BY <1>1, <1>3 DEF BatchType
  <2>2. com'.put = com.put \union {e}
    BY <1>1, <1>3 DEF BatchType
  <2>3. com'.set = [com.set EXCEPT ![u] = "pending"]
    BY <1>1, <1>3 DEF BatchType
  <2> QED BY <1>3, <2>1, <2>2, <2>3 DEF e
<1> QED BY <1>2, <1>3 DEF CompleteLink

LEMMA InitLeaseInv == Init => LeaseInv
  BY EmptyBatchType DEF Init, LeaseInv, LeaseKeysUnique

LEMMA NextLeaseInv == TypeInv /\ TypeInv' /\ LeaseInv /\ [Next]_vars => LeaseInv'
<1> SUFFICES ASSUME TypeInv, TypeInv', LeaseInv, [Next]_vars PROVE LeaseInv'
  OBVIOUS
<1> USE LeaseInvShrinks
<1>0. seq \in Nat /\ seq' \in Nat /\ (running \/ ~running) /\ com.del \subseteq held
      /\ enq.del = {} /\ (~running => held = {}) /\ (taking # {} => running)
  BY DEF TypeInv, TypeOK, LeaseInv
<1>1. ASSUME NEW u \in Urls, EnqueueStage(u) PROVE LeaseInv'
  <2>1. enq'.del = {} /\ seq <= seq'
    BY <1>0, <1>1 DEF EnqueueStage, TypeInv, TypeOK, BatchType
  <2> QED BY <1>0, <1>1, <2>1 DEF EnqueueStage, store
<1>2. CASE EnqueueApply
  <2>1. leases' \subseteq leases
    BY <1>2 DEF EnqueueApply, Apply
  <2> QED BY <1>0, <1>2, <2>1, EmptyBatchType DEF EnqueueApply
<1>3. ASSUME NEW l \in held, com'.del = com.del \union {l}, StageOnly, seq <= seq'
      PROVE  LeaseInv'
  BY <1>0, <1>3 DEF StageOnly, store
<1>4. ASSUME NEW l \in held, NEW links \in SUBSET Urls, CompleteDone(l, links)
      PROVE  LeaseInv'
  <2>1. com'.del = com.del \union {l}
    BY <1>4 DEF CompleteDone, TypeInv, TypeOK, BatchType
  <2> QED BY <1>0, <1>3, <1>4, <2>1 DEF CompleteDone
<1>5. ASSUME NEW l \in held, CompleteDead(l) PROVE LeaseInv'
  <2>1. com'.del = com.del \union {l}
    BY <1>5 DEF CompleteDead, TypeInv, TypeOK, BatchType
  <2> QED BY <1>0, <1>3, <1>5, <2>1 DEF CompleteDead
<1>6. ASSUME NEW l \in held, CompleteRetry(l) PROVE LeaseInv'
  <2>1. com'.del = com.del \union {l} /\ seq <= seq'
    BY <1>0, <1>6 DEF CompleteRetry, TypeInv, TypeOK, BatchType
  <2> QED BY <1>3, <1>6, <2>1 DEF CompleteRetry
<1>7. ASSUME NEW u \in Urls, CompleteLink(u) PROVE LeaseInv'
  <2>0. com'.del = com.del /\ (seq' = seq \/ seq' = seq + 1)
    BY <1>7, LinkStep, Zenon
  <2>1. com'.del = com.del /\ seq <= seq'
    BY <1>0, <2>0
  <2> QED BY <1>0, <1>7, <2>1 DEF CompleteLink, StageOnly, store
<1>8. CASE CompleteApply
  <2>1. leases' \subseteq leases /\ held' \subseteq held
    BY <1>8 DEF CompleteApply, Apply
  <2> QED BY <1>0, <1>8, <2>1, EmptyBatchType DEF CompleteApply
<1>9. ASSUME NEW t \in taking, LeaseApply(t) PROVE LeaseInv'
  <2> DEFINE l == LeaseOf(t)
  <2>1. /\ running /\ running' /\ seq' = seq
        /\ leases' \subseteq leases \union {l} /\ held' = held \union {l}
        /\ com' = com /\ enq' = enq /\ taking' = {}
    BY <1>9 DEF LeaseApply, LeaseInv
  <2>2. \A x \in leases \union held : x.seq <= seq /\ x.seq # l.seq
    BY <2>1 DEF LeaseInv, LeaseOf
  <2>3. l.seq <= seq
    BY DEF LeaseInv, LeaseOf
  <2> HIDE DEF l
  <2>4. \A x \in leases' \union held' : x.seq <= seq'
    BY <2>1, <2>2, <2>3
  <2>5. ASSUME NEW x \in leases' \union held', NEW y \in leases' \union held', x.seq = y.seq
        PROVE  x = y
    <3>1. CASE x = l \/ y = l
      BY <2>1, <2>2, <2>5, <3>1
    <3>2. CASE x # l /\ y # l
      <4>1. x \in leases \union held /\ y \in leases \union held
        BY <2>1, <3>2
      <4> QED BY <2>5, <4>1 DEF LeaseInv, LeaseKeysUnique
    <3> QED BY <3>1, <3>2
  <2> QED BY <1>0, <2>1, <2>4, <2>5 DEF LeaseInv, LeaseKeysUnique
<1>24. ASSUME NEW e \in queue, LeaseRead(e) PROVE LeaseInv'
  <2>1. /\ running /\ running' = running /\ seq' = seq + 1
        /\ UNCHANGED <<leases, held, com, enq>>
        /\ taking' = {[entry |-> e, seq |-> seq + 1]}
    BY <1>24 DEF LeaseRead, store
  <2>2. \A x \in leases \union held : x.seq <= seq /\ x.seq \in Nat
    BY <2>1 DEF LeaseInv, TypeInv, TypeOK, LeaseType
  <2> QED BY <1>0, <2>1, <2>2 DEF LeaseInv, LeaseKeysUnique
<1>25. ASSUME NEW c \in Callers, AddOwed(c) PROVE LeaseInv'
  BY <1>0, <1>25 DEF AddOwed, store, memory
<1>10. CASE Start
  <2>1. leases' = {} /\ held' = {} /\ held' = held /\ com' = com /\ enq' = enq /\ taking' = {}
    BY <1>0, <1>10 DEF Start, SweepLeases
  <2>2. running'
    BY <1>10 DEF Start
  <2> QED BY <1>0, <2>1, <2>2 DEF LeaseInv, LeaseKeysUnique
<1>11. ASSUME NEW ls \in SUBSET held, Requeue(ls) \/ RequeueFails
       PROVE  seq <= seq' /\ leases' = leases
  <2>1. Cardinality(ls) \in Nat
    BY FS_Subset, FS_CardinalityType DEF TypeInv, FiniteOK
  <2> QED BY <1>0, <1>11, <2>1 DEF Requeue, RequeueFails, store
<1>12. ASSUME NEW buffered \in SUBSET held, Stop(buffered) PROVE LeaseInv'
  BY <1>0, <1>11, <1>12, EmptyBatchType DEF Stop
<1>13. ASSUME NEW buffered \in SUBSET held, DropBuffered(buffered) PROVE LeaseInv'
  BY <1>0, <1>11, <1>13 DEF DropBuffered
<1>14. ASSUME NEW buffered \in SUBSET held, ClearQueueBegin(buffered) PROVE LeaseInv'
  BY <1>0, <1>14 DEF ClearQueueBegin, counters
<1>15. ASSUME NEW buffered \in SUBSET held, ClearQueueEnd(buffered) PROVE LeaseInv'
  BY <1>0, <1>15 DEF ClearQueueEnd, store
<1>26. CASE ClearQueueLeases
  BY <1>0, <1>26 DEF ClearQueueLeases, counters
<1>27. CASE ClearQueueZero
  BY <1>0, <1>27 DEF ClearQueueZero, store
<1>28. CASE StopEnd
  BY <1>0, <1>28 DEF StopEnd, store
<1>29. ASSUME NEW u \in Urls, RequeueDueFails(u) PROVE LeaseInv'
  BY <1>0, <1>29 DEF RequeueDueFails, store, counters
<1>16. ASSUME NEW u \in Urls, DueForRecrawl(u) PROVE LeaseInv'
  BY <1>0, <1>16 DEF DueForRecrawl, counters
<1>17. ASSUME NEW u \in Urls, NEW c \in Callers, PushKnown(u, c) PROVE LeaseInv'
  BY <1>0, <1>17 DEF PushKnown
<1>18. CASE ClearSeenBegin
  BY <1>0, <1>18 DEF ClearSeenBegin, counters
<1>19. CASE ClearSeenEnd
  BY <1>0, <1>19 DEF ClearSeenEnd, counters
<1>20. CASE PersistCounters
  BY <1>0, <1>20 DEF PersistCounters, store, memory
<1>21. CASE CrashAndOpen
  BY <1>21, EmptyBatchType DEF CrashAndOpen, store, LeaseInv, LeaseKeysUnique
<1>22. CASE UNCHANGED vars
  BY <1>22 DEF vars, store, counters, memory, LeaseInv, LeaseKeysUnique
<1>23. recrawl \subseteq Urls
  BY DEF TypeInv, TypeOK
<1> QED
  BY <1>1, <1>2, <1>4, <1>5, <1>6, <1>7, <1>8, <1>9, <1>10, <1>12, <1>13, <1>14, <1>15,
     <1>16, <1>17, <1>18, <1>19, <1>20, <1>21, <1>22, <1>23, <1>24, <1>25, <1>26, <1>27,
     <1>28, <1>29
  DEF Next, RequeueDue, Reseed, Callers

\* Two outstanding leases never share a key and the next lease overwrites none, in any
\* number of crashes and restarts, although a crash rolls the key counter back.
THEOREM LeaseKeysStayUnique == Spec => []LeaseKeysSafe
<1>1. Init => TypeInv /\ LeaseInv
  BY InitTypeInv, InitLeaseInv
<1>2. TypeInv /\ LeaseInv /\ [Next]_vars => (TypeInv /\ LeaseInv)'
  BY NextTypeInv, NextLeaseInv
<1>3. TypeInv /\ LeaseInv => LeaseKeysSafe
  BY DEF LeaseInv, LeaseKeysSafe
<1> QED BY <1>1, <1>2, <1>3, PTL DEF Spec

-----------------------------------------------------------------------------
(* Batches under construction.                                             *)

\* What a batch takes away it accounts for: a URL set to pending is pushed, a URL
\* whose lease is released is pushed or settled, and a finished one is indexed.
BatchInv(b) ==
  /\ \A u \in Urls : b.set[u] # "none"
  /\ \A u \in Urls : b.set[u] = "pending" => u \in UrlsOf(b.put)
  /\ \A u \in Urls : b.set[u] = "done" => u \in b.idx
  /\ \A d \in b.del : b.set[d.url] # "keep" \/ d.url \in UrlsOf(b.put)

BatchesInv == BatchInv(enq) /\ BatchInv(com)

LEMMA EmptyBatchInv == BatchInv(EmptyBatch)
  BY DEF BatchInv, EmptyBatch

LEMMA UrlsOfUnion ==
  ASSUME NEW S, NEW T
  PROVE  UrlsOf(S \union T) = UrlsOf(S) \union UrlsOf(T)
  BY DEF UrlsOf

\* One more push keeps a batch accounted for.
LEMMA PushInv ==
  ASSUME NEW b \in BatchType, NEW c \in BatchType, BatchInv(b), NEW e \in EntryType,
         c.del = b.del, c.idx = b.idx, c.put = b.put \union {e},
         c.set = [b.set EXCEPT ![e.url] = "pending"]
  PROVE  BatchInv(c)
<1>1. UrlsOf(c.put) = UrlsOf(b.put) \union {e.url}
  BY UrlsOfUnion DEF UrlsOf
<1>2. e.url \in Urls /\ b.set \in [Urls -> Status \union {"keep"}]
  BY DEF EntryType, BatchType
<1>3. \A d \in b.del : d.url \in Urls
  BY DEF BatchType, LeaseType
<1> QED BY <1>1, <1>2, <1>3 DEF BatchInv

\* One more completion keeps a batch accounted for.
LEMMA ReleaseInv ==
  ASSUME NEW b \in BatchType, NEW c \in BatchType, BatchInv(b), NEW l \in LeaseType,
         c.del = b.del \union {l},
         \/ /\ c.put = b.put
            /\ \/ c.set = [b.set EXCEPT ![l.url] = "done"] /\ c.idx = b.idx \union {l.url}
               \/ c.set = [b.set EXCEPT ![l.url] = "dead"] /\ c.idx = b.idx
         \/ /\ c.set = b.set /\ c.idx = b.idx
            /\ \E e \in EntryType : e.url = l.url /\ c.put = b.put \union {e}
  PROVE  BatchInv(c)
<1>1. l.url \in Urls /\ b.set \in [Urls -> Status \union {"keep"}]
      /\ \A d \in b.del : d.url \in Urls
  BY DEF LeaseType, BatchType
<1>2. CASE /\ c.put = b.put
           /\ c.set = [b.set EXCEPT ![l.url] = "done"] /\ c.idx = b.idx \union {l.url}
  BY <1>1, <1>2 DEF BatchInv
<1>3. CASE /\ c.put = b.put
           /\ c.set = [b.set EXCEPT ![l.url] = "dead"] /\ c.idx = b.idx
  BY <1>1, <1>3 DEF BatchInv
<1>4. CASE /\ c.set = b.set /\ c.idx = b.idx
           /\ \E e \in EntryType : e.url = l.url /\ c.put = b.put \union {e}
  <2>1. UrlsOf(c.put) = UrlsOf(b.put) \union {l.url}
    BY <1>4, UrlsOfUnion DEF UrlsOf
  <2> QED BY <1>1, <1>4, <2>1 DEF BatchInv
<1> QED BY <1>2, <1>3, <1>4

LEMMA NextBatchesInv == TypeInv /\ TypeInv' /\ BatchesInv /\ [Next]_vars => BatchesInv'
<1> SUFFICES ASSUME TypeInv, TypeInv', BatchesInv, [Next]_vars PROVE BatchesInv'
  OBVIOUS
<1>0. /\ enq \in BatchType /\ enq' \in BatchType /\ com \in BatchType /\ com' \in BatchType
      /\ seq \in Nat
      /\ \A l \in held : l \in LeaseType /\ l.url \in Urls
  BY DEF TypeInv, TypeOK, LeaseType
<1>1. ASSUME enq' = enq, com' = com PROVE BatchesInv'
  BY <1>1 DEF BatchesInv, BatchInv
<1>2. ASSUME NEW u \in Urls, EnqueueStage(u) PROVE BatchesInv'
  <2> DEFINE e == Entry(Fresh, seq + 1, u)
  <2>1. e \in EntryType /\ e.url = u
    BY <1>0, EntryInType
  <2>2. com' = com
    BY <1>2 DEF EnqueueStage
  <2>3. /\ enq'.del = enq.del /\ enq'.idx = enq.idx /\ enq'.put = enq.put \union {e}
        /\ enq'.set = [enq.set EXCEPT ![u] = "pending"]
    <3> HIDE DEF e
    <3>1. enq' = [enq EXCEPT !.put = @ \union {e}, !.set[u] = "pending"]
      BY <1>2 DEF EnqueueStage, e
    <3> QED BY <1>0, <3>1 DEF BatchType
  <2>4. BatchInv(enq')
    <3> HIDE DEF e
    <3> QED BY <1>0, <2>1, <2>3, PushInv DEF BatchesInv
  <2> QED BY <2>2, <2>4 DEF BatchesInv, BatchInv
<1>3. CASE EnqueueApply
  BY <1>3, EmptyBatchInv DEF EnqueueApply, BatchesInv, BatchInv
<1>4. ASSUME NEW l \in held, NEW links \in SUBSET Urls, CompleteDone(l, links)
      PROVE  BatchesInv'
  <2>1. /\ com'.del = com.del \union {l} /\ com'.put = com.put
        /\ com'.set = [com.set EXCEPT ![l.url] = "done"] /\ com'.idx = com.idx \union {l.url}
    BY <1>0, <1>4 DEF CompleteDone, BatchType
  <2>2. BatchInv(com')
    BY <1>0, <2>1, ReleaseInv DEF BatchesInv
  <2>3. enq' = enq
    BY <1>4 DEF CompleteDone, StageOnly
  <2> QED BY <2>2, <2>3 DEF BatchesInv, BatchInv
<1>5. ASSUME NEW l \in held, CompleteDead(l) PROVE BatchesInv'
  <2>1. /\ com'.del = com.del \union {l} /\ com'.put = com.put
        /\ com'.set = [com.set EXCEPT ![l.url] = "dead"] /\ com'.idx = com.idx
    BY <1>0, <1>5 DEF CompleteDead, BatchType
  <2>2. BatchInv(com')
    BY <1>0, <2>1, ReleaseInv DEF BatchesInv
  <2>3. enq' = enq
    BY <1>5 DEF CompleteDead, StageOnly
  <2> QED BY <2>2, <2>3 DEF BatchesInv, BatchInv
<1>6. ASSUME NEW l \in held, CompleteRetry(l) PROVE BatchesInv'
  <2> DEFINE e == Entry(Known, seq + 1, l.url)
  <2>0. l.url \in Urls /\ seq + 1 \in Nat
    BY <1>0
  <2>1. e \in EntryType /\ e.url = l.url
    BY <2>0, EntryInType
  <2>2. /\ com'.del = com.del \union {l} /\ com'.put = com.put \union {e}
        /\ com'.set = com.set /\ com'.idx = com.idx
    <3> HIDE DEF e
    <3>1. com' = [com EXCEPT !.del = @ \union {l}, !.put = @ \union {e}]
      BY <1>6 DEF CompleteRetry, e
    <3> QED BY <1>0, <3>1 DEF BatchType
  <2>3. BatchInv(com')
    <3> HIDE DEF e
    <3> QED BY <1>0, <2>1, <2>2, ReleaseInv DEF BatchesInv
  <2>4. enq' = enq
    BY <1>6 DEF CompleteRetry, StageOnly
  <2> QED BY <2>3, <2>4 DEF BatchesInv, BatchInv
<1>7. ASSUME NEW u \in Urls, CompleteLink(u) PROVE BatchesInv'
  <2> DEFINE e == Entry(Fresh, seq + 1, u)
  <2>1. e \in EntryType /\ e.url = u
    BY <1>0, EntryInType
  <2>2. enq' = enq
    BY <1>7 DEF CompleteLink, StageOnly
  <2>3. CASE /\ com'.del = com.del /\ com'.idx = com.idx
             /\ com'.put = com.put /\ com'.set = com.set
    BY <2>2, <2>3 DEF BatchesInv, BatchInv
  <2>4. CASE /\ com'.del = com.del /\ com'.idx = com.idx
             /\ com'.put = com.put \union {e} /\ com'.set = [com.set EXCEPT ![u] = "pending"]
    <3>1. BatchInv(com')
      <4> HIDE DEF e
      <4> QED BY <1>0, <2>1, <2>4, PushInv DEF BatchesInv
    <3> QED BY <2>2, <3>1 DEF BatchesInv, BatchInv
  <2>5. com'.del = com.del /\ com'.idx = com.idx
    BY <1>7, LinkStep, Zenon
  <2>6. \/ com'.put = com.put /\ com'.set = com.set
        \/ com'.put = com.put \union {e} /\ com'.set = [com.set EXCEPT ![u] = "pending"]
    BY <1>7, LinkStep, Zenon
  <2> HIDE DEF e
  <2> QED BY <2>3, <2>4, <2>5, <2>6, Zenon
<1>8. CASE CompleteApply
  BY <1>8, EmptyBatchInv DEF CompleteApply, BatchesInv, BatchInv
<1>9. CASE CrashAndOpen
  BY <1>9, EmptyBatchInv DEF CrashAndOpen, BatchesInv, BatchInv
<1>10. ASSUME \/ \E e \in queue : LeaseRead(e)
              \/ \E t \in taking : LeaseApply(t)
              \/ \E c \in Callers : AddOwed(c)
       PROVE  BatchesInv'
  BY <1>1, <1>10 DEF LeaseRead, LeaseApply, AddOwed, memory
<1>11. CASE Start
  BY <1>1, <1>11 DEF Start
<1>12. ASSUME NEW buffered \in SUBSET held,
              \/ Stop(buffered) \/ DropBuffered(buffered)
              \/ ClearQueueBegin(buffered) \/ ClearQueueEnd(buffered)
       PROVE  BatchesInv'
  BY <1>1, <1>12 DEF Stop, DropBuffered, ClearQueueBegin, ClearQueueEnd
<1>13. ASSUME NEW u \in Urls,
              DueForRecrawl(u) \/ RequeueDue(u) \/ RequeueDueFails(u) \/ Reseed(u)
       PROVE  BatchesInv'
  BY <1>1, <1>13 DEF DueForRecrawl, RequeueDue, RequeueDueFails, Reseed, PushKnown
<1>14. CASE \/ ClearQueueLeases \/ ClearQueueZero \/ StopEnd
            \/ ClearSeenBegin \/ ClearSeenEnd \/ PersistCounters \/ UNCHANGED vars
  BY <1>1, <1>14
  DEF ClearQueueLeases, ClearQueueZero, StopEnd, ClearSeenBegin, ClearSeenEnd,
      PersistCounters, memory, vars
<1>15. recrawl \subseteq Urls
  BY DEF TypeInv, TypeOK
<1> QED
  BY <1>2, <1>3, <1>4, <1>5, <1>6, <1>7, <1>8, <1>9, <1>10, <1>11, <1>12, <1>13, <1>14,
     <1>15 DEF Next

Inv == TypeInv /\ LeaseInv /\ BatchesInv

LEMMA InitInv == Init => Inv
<1>1. Init => BatchesInv
  BY EmptyBatchInv DEF Init, BatchesInv
<1> QED BY <1>1, InitTypeInv, InitLeaseInv DEF Inv

LEMMA NextInv == Inv /\ [Next]_vars => Inv'
  BY NextTypeInv, NextLeaseInv, NextBatchesInv DEF Inv

LEMMA SpecInv == Spec => []Inv
  BY InitInv, NextInv, PTL DEF Spec

-----------------------------------------------------------------------------
(* No accepted URL is lost, if random key bytes do not repeat: committing  *)
(* a batch, requeueing and sweeping are the steps that matter.             *)

LEMMA TodoUrls ==
  ASSUME TypeInv
  PROVE  UrlsOf(queue) \subseteq Urls /\ UrlsOf(leases) \subseteq Urls /\ Todo \subseteq Urls
  BY DEF TypeInv, TypeOK, UrlsOf, EntryType, LeaseType, Todo

\* A commit takes a URL off the to-do list only by settling it.
LEMMA ApplyTodo ==
  ASSUME ~JitterRepeats, TypeInv, LeaseInv, NEW b \in BatchType, BatchInv(b),
         b.del \subseteq held, NEW c \in Callers, Apply(b, c)
  PROVE  /\ UrlsOf(b.put) \subseteq Todo'
         /\ Todo' \subseteq Todo \union UrlsOf(b.put)
         /\ \A u \in Todo \ Todo' : b.set[u] \in {"done", "dead"}
<1>1. queue' = queue \union b.put
  BY PutsKeeps DEF Apply
<1>2. UrlsOf(queue') = UrlsOf(queue) \union UrlsOf(b.put)
  BY <1>1, UrlsOfUnion
<1>3. UrlsOf(leases') \subseteq UrlsOf(leases)
  BY DEF Apply, UrlsOf
<1>4. ASSUME NEW u \in Todo \ Todo' PROVE b.set[u] \in {"done", "dead"}
  <2>1. u \notin UrlsOf(queue) /\ u \notin UrlsOf(b.put) /\ u \notin UrlsOf(leases')
    BY <1>2, <1>4 DEF Todo
  <2>2. PICK x \in leases : x.url = u
    BY <1>4, <2>1 DEF Todo, UrlsOf
  <2>3. x \notin leases'
    BY <2>1, <2>2 DEF UrlsOf
  <2>4. PICK d \in b.del : d.seq = x.seq
    BY <2>3 DEF Apply
  <2>5. d = x
    BY <2>4 DEF LeaseInv, LeaseKeysUnique
  <2>6. u \in Urls
    BY <1>4, TodoUrls
  <2>7. b.set[u] # "keep" /\ b.set[u] # "none" /\ b.set[u] # "pending"
    BY <2>1, <2>2, <2>5, <2>6 DEF BatchInv
  <2>8. b.set[u] \in Status \union {"keep"}
    BY <2>6 DEF BatchType
  <2> QED BY <2>7, <2>8 DEF Status
<1> QED BY <1>2, <1>3, <1>4 DEF Todo

LEMMA RequeueTodo ==
  ASSUME ~JitterRepeats, TypeInv, NEW ls \in SUBSET held, Requeue(ls)
  PROVE  Todo' = Todo \union UrlsOf(ls) /\ UrlsOf(ls) \subseteq Urls
<1>1. ls \in SUBSET LeaseType /\ IsFiniteSet(ls) /\ seq \in Nat
  BY FS_Subset DEF TypeInv, TypeOK, FiniteOK
<1>2. UrlsOf(queue') = UrlsOf(queue) \union UrlsOf(ls)
  BY <1>1, NumberedType, PutsKeeps, UrlsOfUnion DEF Requeue
<1>3. leases' = leases
  BY DEF Requeue
<1>4. UrlsOf(ls) \subseteq Urls
  BY <1>1 DEF UrlsOf, LeaseType
<1> QED BY <1>2, <1>3, <1>4 DEF Todo

LEMMA SweepTodo ==
  ASSUME ~JitterRepeats, TypeInv, SweepLeases
  PROVE  Todo' = Todo
<1>1. UrlsOf(queue') = UrlsOf(queue) \union UrlsOf(leases)
  BY NumberedType, PutsKeeps, UrlsOfUnion DEF SweepLeases, TypeInv, TypeOK, FiniteOK
<1>2. UrlsOf(leases') = {}
  BY DEF SweepLeases, UrlsOf
<1> QED BY <1>1, <1>2 DEF Todo

LEMMA PushTodo ==
  ASSUME ~JitterRepeats, NEW u \in Urls, NEW c \in Callers, PushKnown(u, c)
  PROVE  Todo' = Todo \union {u}
<1>1. UrlsOf({Entry(Known, seq + 1, u)}) = {u}
  BY DEF UrlsOf, Entry
<1>2. UrlsOf(queue') = UrlsOf(queue) \union {u}
  BY <1>1, PutsKeeps, UrlsOfUnion DEF PushKnown
<1> QED BY <1>2 DEF Todo, PushKnown

LEMMA LeaseTodo ==
  ASSUME LeaseInv, NEW t \in taking, LeaseApply(t)
  PROVE  Todo' = Todo \union {t.entry.url}
<1> DEFINE l == LeaseOf(t)
<1>1. \A m \in leases : m.seq # t.seq
  BY DEF LeaseInv
<1>2. leases' = leases \union {l}
  BY <1>1 DEF LeaseApply
<1>3. UrlsOf(leases') = UrlsOf(leases) \union {t.entry.url}
  <2>1. l.url = t.entry.url
    BY DEF LeaseOf
  <2> HIDE DEF l
  <2>2. UrlsOf({l}) = {t.entry.url}
    BY <2>1 DEF UrlsOf
  <2> QED BY <1>2, <2>2, UrlsOfUnion
<1>4. /\ UrlsOf(queue') \subseteq UrlsOf(queue)
      /\ UrlsOf(queue) \subseteq UrlsOf(queue') \union {t.entry.url}
  BY DEF LeaseApply, UrlsOf
<1> QED BY <1>3, <1>4 DEF Todo

-----------------------------------------------------------------------------
(* The frontier implements the work list.                                  *)

LEMMA ApplySettles ==
  ASSUME ~JitterRepeats, TypeInv, TypeInv', LeaseInv, NEW b \in BatchType, BatchInv(b),
         b.del \subseteq held, NEW c \in Callers, Apply(b, c)
  PROVE  \E added, finished \in SUBSET Urls : WL!Settle(added, finished)
<1> DEFINE finished == {u \in Urls : b.set[u] \in {"done", "dead"}}
           added == UrlsOf(b.put)
<1>1. added \in SUBSET Urls
  BY DEF UrlsOf, BatchType, EntryType
<1>2. Todo \subseteq Urls
  BY TodoUrls
<1>3. /\ Todo' \subseteq Todo \union added /\ added \subseteq Todo'
      /\ Todo \ Todo' \subseteq finished
  BY <1>2, ApplyTodo
<1>4. seen' \in [Urls -> Status]
  BY DEF TypeInv, TypeOK
<1>5. ASSUME NEW u \in Urls
      PROVE  \/ u \in finished /\ seen'[u] \in {"done", "dead"}
             \/ u \in added /\ seen'[u] = "pending"
             \/ seen'[u] = seen[u] /\ (u \in finished => u \in added)
  <2>1. b.set[u] \in Status \union {"keep"} /\ b.set[u] # "none"
        /\ (b.set[u] = "pending" => u \in added)
    BY DEF BatchType, BatchInv
  <2>2. seen'[u] = IF b.set[u] = "keep" THEN seen[u] ELSE b.set[u]
    BY DEF Apply
  <2> QED BY <2>1, <2>2 DEF Status
<1>6. dropped' = dropped \ added
  BY DEF Apply
<1>7. WL!Settle(added, finished)
  <2> HIDE DEF added, finished
  <2> QED BY <1>3, <1>4, <1>5, <1>6 DEF WL!Settle, WL!Status, WL!Settled, Status
<1> QED BY <1>1, <1>7

\* Putting URLs on the list, with the seen-state set to pending.
LEMMA PushSettles ==
  ASSUME TypeInv', NEW S \in SUBSET Urls, Todo' = Todo \union S,
         seen' = [u \in Urls |-> IF u \in S THEN "pending" ELSE seen[u]],
         dropped' = dropped \ S
  PROVE  \E added, finished \in SUBSET Urls : WL!Settle(added, finished)
<1>1. seen' \in [Urls -> Status]
  BY DEF TypeInv, TypeOK
<1>2. WL!Settle(S, {})
  BY <1>1 DEF WL!Settle, WL!Status, WL!Settled, Status
<1> QED BY <1>2

LEMMA StepImplements ==
  ASSUME ~JitterRepeats, Inv, Inv', [Next]_vars
  PROVE  [WL!Next]_(WL!vars)
<1>0. TypeInv /\ TypeInv' /\ LeaseInv /\ BatchInv(enq) /\ BatchInv(com) /\ recrawl \subseteq Urls
      /\ enq \in BatchType /\ com \in BatchType /\ enq.del \subseteq held /\ com.del \subseteq held
  BY DEF Inv, BatchesInv, LeaseInv, TypeInv, TypeOK
<1>1. ASSUME seen' = seen, Todo' = Todo, dropped' = dropped PROVE UNCHANGED WL!vars
  BY <1>1 DEF WL!vars
<1>2. ASSUME seen' = seen, queue' = queue, leases' = leases, dropped' = dropped
      PROVE  UNCHANGED WL!vars
  BY <1>2 DEF WL!vars, Todo
<1>3. ASSUME NEW u \in Urls, EnqueueStage(u) \/ CompleteLink(u) \/ DueForRecrawl(u)
      PROVE  UNCHANGED WL!vars
  BY <1>2, <1>3 DEF EnqueueStage, CompleteLink, StageOnly, DueForRecrawl, store, history
<1>4. CASE EnqueueApply \/ CompleteApply
  BY <1>0, <1>4, ApplySettles DEF EnqueueApply, CompleteApply, WL!Next, Callers
<1>5. ASSUME NEW l \in held,
             \/ \E links \in SUBSET Urls : CompleteDone(l, links)
             \/ CompleteDead(l) \/ CompleteRetry(l)
      PROVE  UNCHANGED WL!vars
  BY <1>2, <1>5 DEF CompleteDone, CompleteDead, CompleteRetry, StageOnly, store, history
<1>6. ASSUME NEW t \in taking, LeaseApply(t) PROVE WL!Next
  <2>1. Todo' = Todo \union {t.entry.url} /\ t.entry.url \in Urls
    BY <1>0, <1>6, LeaseTodo DEF TypeInv, TypeOK, EntryType
  <2>2. WL!Return(t.entry.url)
    BY <1>6, <2>1 DEF LeaseApply, WL!Return
  <2> QED BY <2>1, <2>2 DEF WL!Next
<1>14. ASSUME \/ \E e \in queue : LeaseRead(e)
              \/ \E c \in Callers : AddOwed(c)
              \/ \E u \in Urls : RequeueDueFails(u)
              \/ ClearQueueZero \/ StopEnd \/ \E ls \in SUBSET held : ClearQueueEnd(ls)
       PROVE  UNCHANGED WL!vars
  BY <1>2, <1>14
  DEF LeaseRead, AddOwed, RequeueDueFails, ClearQueueZero, StopEnd, ClearQueueEnd, store,
      history
<1>7. CASE Start
  <2>1. Todo' = Todo
    BY <1>0, <1>7, SweepTodo DEF Start
  <2>2. UNCHANGED WL!vars
    BY <1>1, <1>7, <2>1 DEF Start, history
  <2> QED BY <2>2
<1>8. ASSUME NEW ls \in SUBSET held, Requeue(ls) PROVE WL!Next
  <2>1. Requeue(ls)
    BY <1>8
  <2>2. Todo' = Todo \union UrlsOf(ls) /\ UrlsOf(ls) \in SUBSET Urls
    BY <1>0, <2>1, RequeueTodo
  <2>3. seen' = [u \in Urls |-> IF u \in UrlsOf(ls) THEN "pending" ELSE seen[u]]
        /\ dropped' = dropped \ UrlsOf(ls)
    BY <2>1 DEF Requeue
  <2> QED BY <1>0, <2>2, <2>3, PushSettles DEF WL!Next
<1>9. ASSUME NEW ls \in SUBSET held, ClearQueueBegin(ls) PROVE WL!Next
  <2>1. Todo' = UrlsOf(leases)
    BY <1>9 DEF ClearQueueBegin, Todo, UrlsOf
  <2>2. dropped' = dropped \union (Todo \ Todo') /\ seen' = seen /\ Todo' \subseteq Todo
    BY <1>9, <2>1 DEF ClearQueueBegin, Todo
  <2> QED BY <2>2 DEF WL!Clear, WL!Next
<1>15. ASSUME NEW ls \in SUBSET held, Stop(ls) \/ DropBuffered(ls)
       PROVE  WL!Next \/ UNCHANGED WL!vars
  <2>1. CASE Requeue(ls)
    BY <1>8, <2>1
  <2>2. CASE RequeueFails
    BY <1>2, <2>2 DEF RequeueFails, store
  <2> QED BY <1>15, <2>1, <2>2 DEF Stop, DropBuffered
<1>10. CASE ClearQueueLeases
  <2>1. Todo' = UrlsOf(queue)
    BY <1>10 DEF ClearQueueLeases, Todo, UrlsOf
  <2>2. dropped' = dropped \union (Todo \ Todo') /\ seen' = seen /\ Todo' \subseteq Todo
    BY <1>10, <2>1 DEF ClearQueueLeases, Todo
  <2> QED BY <2>2 DEF WL!Clear, WL!Next
<1>11. ASSUME NEW u \in Urls, RequeueDue(u) \/ Reseed(u) PROVE WL!Next
  <2>1. PICK c \in Callers : PushKnown(u, c)
    BY <1>11 DEF RequeueDue, Reseed, Callers
  <2>2. Todo' = Todo \union {u}
    BY <2>1, PushTodo
  <2>3. seen' = [v \in Urls |-> IF v \in {u} THEN "pending" ELSE seen[v]]
        /\ dropped' = dropped \ {u}
    BY <1>0, <2>1 DEF PushKnown, TypeInv, TypeOK
  <2> QED BY <1>0, <2>2, <2>3, PushSettles DEF WL!Next
<1>12. CASE ClearSeenBegin
  <2>1. WL!Forget
    BY <1>12 DEF ClearSeenBegin, WL!Forget, Todo, history
  <2> QED BY <2>1 DEF WL!Next
<1>13. CASE ClearSeenEnd \/ PersistCounters \/ CrashAndOpen \/ UNCHANGED vars
  <2>1. UNCHANGED WL!vars
    BY <1>2, <1>13
    DEF ClearSeenEnd, PersistCounters, CrashAndOpen, vars, store, history
  <2> QED BY <2>1
<1> QED
  BY <1>0, <1>3, <1>4, <1>5, <1>6, <1>7, <1>9, <1>10, <1>11, <1>12, <1>13, <1>14, <1>15
  DEF Next

\* The crawl store implements the work list, for every instance, if random key
\* bytes do not repeat for a reused number: no lease, sweep, stop, requeue, crash or
\* restart takes a URL off the list, and what does take one off records why.
THEOREM ImplementsList ==
  ASSUME ~JitterRepeats
  PROVE  Spec => ImplementsWorkList
<1>1. Init => WL!Init
  BY DEF Init, WL!Init, Todo, UrlsOf
<1>2. Inv /\ Inv' /\ [Next]_vars => [WL!Next]_(WL!vars)
  BY StepImplements
<1> QED BY <1>1, <1>2, SpecInv, PTL DEF Spec, WL!Spec, ImplementsWorkList
LEMMA ListKeepsWork ==
  ASSUME TypeInv, NoWorkLost, [WL!Next]_(WL!vars), TypeInv'
  PROVE  NoWorkLost'
<1>1. ASSUME NEW added \in SUBSET Urls, NEW finished \in SUBSET Urls,
             WL!Settle(added, finished), NEW u \in Urls, seen'[u] = "pending"
      PROVE  u \in Todo' \union dropped'
  BY <1>1 DEF WL!Settle, WL!Settled, NoWorkLost
<1>2. CASE WL!Clear
  BY <1>2 DEF WL!Clear, NoWorkLost
<1>5. CASE \E u \in Urls : WL!Return(u)
  BY <1>5 DEF WL!Return, NoWorkLost
<1>3. CASE WL!Forget
  BY <1>3 DEF WL!Forget, NoWorkLost
<1>4. CASE UNCHANGED WL!vars
  BY <1>4 DEF WL!vars, NoWorkLost
<1> QED BY <1>1, <1>2, <1>3, <1>4, <1>5 DEF WL!Next, NoWorkLost

\* A URL recorded as pending is queued, leased or was thrown away by the user, for
\* every instance, if random key bytes do not repeat for a reused number.
THEOREM NoWorkIsLost ==
  ASSUME ~JitterRepeats
  PROVE  Spec => []NoWorkLost
<1>1. Init => Inv /\ NoWorkLost
  BY InitInv DEF Init, NoWorkLost
<1>2. Inv /\ NoWorkLost /\ [Next]_vars => (Inv /\ NoWorkLost)'
  BY NextInv, StepImplements, ListKeepsWork DEF Inv
<1> QED BY <1>1, <1>2, PTL DEF Spec

-----------------------------------------------------------------------------
(* The recrawl index.                                                      *)

\* The maintenance loop has at most one page in its hands (of the modelled item by
\* item loop), so requeueing it leaves none behind.
RecrawlInv == RecrawlScheduled /\ \A x, y \in due : x = y

LEMMA NextRecrawlInv ==
  ASSUME TypeInv, TypeInv', BatchesInv, RecrawlInv, [Next]_vars
  PROVE  RecrawlInv'
<1>0. /\ enq \in BatchType /\ com \in BatchType
      /\ seen \in [Urls -> Status] /\ BatchInv(enq) /\ BatchInv(com)
      /\ recrawl \subseteq Urls
  BY DEF TypeInv, TypeOK, BatchesInv
<1>1. ASSUME seen' = seen, recrawl' = recrawl, due' = due, unscheduled' = unscheduled
      PROVE  RecrawlInv'
  BY <1>1 DEF RecrawlInv, RecrawlScheduled
<1>2. ASSUME NEW b \in BatchType, BatchInv(b), NEW c \in Callers, Apply(b, c), due' = due
      PROVE  RecrawlInv'
  <2>1. ASSUME NEW u \in Urls, seen'[u] = "done"
        PROVE  u \in recrawl' \union due' \union unscheduled'
    <3>1. b.set[u] = "done" \/ seen[u] = "done"
      BY <1>2, <2>1 DEF Apply
    <3>2. u \in b.idx \/ u \in recrawl \union due \union unscheduled
      BY <1>2, <3>1 DEF BatchInv, RecrawlInv, RecrawlScheduled
    <3> QED BY <1>2, <3>2 DEF Apply
  <2> QED BY <1>2, <2>1 DEF RecrawlInv, RecrawlScheduled
<1>3. CASE EnqueueApply \/ CompleteApply
  BY <1>0, <1>2, <1>3 DEF EnqueueApply, CompleteApply, Callers
<1>4. ASSUME NEW u \in Urls, EnqueueStage(u) \/ CompleteLink(u) PROVE RecrawlInv'
  BY <1>1, <1>4 DEF EnqueueStage, CompleteLink, StageOnly, store, history
<1>5. ASSUME NEW l \in held,
             \/ \E links \in SUBSET Urls : CompleteDone(l, links)
             \/ CompleteDead(l) \/ CompleteRetry(l)
      PROVE  RecrawlInv'
  BY <1>1, <1>5 DEF CompleteDone, CompleteDead, CompleteRetry, StageOnly, store, history
<1>6. ASSUME \/ \E e \in queue : LeaseRead(e)
             \/ \E t \in taking : LeaseApply(t)
             \/ \E c \in Callers : AddOwed(c)
      PROVE  RecrawlInv'
  BY <1>1, <1>6 DEF LeaseRead, LeaseApply, AddOwed, store, memory, history
<1>7. CASE Start
  BY <1>1, <1>7 DEF Start, history
<1>8. ASSUME NEW ls \in SUBSET held, Stop(ls) \/ DropBuffered(ls) PROVE RecrawlInv'
  <2>1. /\ recrawl' = recrawl /\ due' = due /\ unscheduled' = unscheduled
        /\ \/ seen' = seen
           \/ seen' = [u \in Urls |-> IF u \in UrlsOf(ls) THEN "pending" ELSE seen[u]]
    BY <1>8 DEF Stop, DropBuffered, Requeue, RequeueFails, store
  <2> QED BY <2>1 DEF RecrawlInv, RecrawlScheduled
<1>9. ASSUME \/ \E ls \in SUBSET held : ClearQueueBegin(ls) \/ ClearQueueEnd(ls)
             \/ ClearQueueLeases \/ ClearQueueZero \/ StopEnd
      PROVE  RecrawlInv'
  BY <1>1, <1>9
  DEF ClearQueueBegin, ClearQueueEnd, ClearQueueLeases, ClearQueueZero, StopEnd, store, history
<1>10. ASSUME NEW u \in Urls, DueForRecrawl(u) PROVE RecrawlInv'
  BY <1>10 DEF DueForRecrawl, RecrawlInv, RecrawlScheduled, history
<1>16. ASSUME NEW u \in Urls, RequeueDueFails(u) PROVE RecrawlInv'
  BY <1>16 DEF RequeueDueFails, RecrawlInv, RecrawlScheduled, store
<1>11. ASSUME NEW u \in Urls, RequeueDue(u) \/ Reseed(u) PROVE RecrawlInv'
  <2>1. /\ seen' = [seen EXCEPT ![u] = "pending"]
        /\ recrawl' = recrawl /\ unscheduled' = unscheduled
        /\ due' = due \/ (u \in due /\ due' = {})
    BY <1>11 DEF RequeueDue, Reseed, PushKnown
  <2> QED BY <1>0, <2>1 DEF RecrawlInv, RecrawlScheduled
<1>12. CASE ClearSeenBegin
  BY <1>12 DEF ClearSeenBegin, RecrawlInv, RecrawlScheduled
<1>13. CASE ClearSeenEnd
  BY <1>13 DEF ClearSeenEnd, RecrawlInv, RecrawlScheduled
<1>14. CASE PersistCounters \/ UNCHANGED vars
  BY <1>1, <1>14 DEF PersistCounters, vars, store, memory, history
<1>15. CASE CrashAndOpen
  BY <1>15 DEF CrashAndOpen, RecrawlInv, RecrawlScheduled, store
<1> QED
  BY <1>0, <1>3, <1>4, <1>5, <1>6, <1>7, <1>8, <1>9, <1>10, <1>11, <1>12, <1>13, <1>14,
     <1>15, <1>16 DEF Next

\* A finished page always comes up for recrawl again, unless its entry is lost in one
\* of the three ways that `unscheduled` records; reused queue keys do not matter.
THEOREM RecrawlStaysScheduled == Spec => []RecrawlScheduled
<1>1. Init => Inv /\ RecrawlInv
  BY InitInv DEF Init, RecrawlInv, RecrawlScheduled
<1>2. Inv /\ RecrawlInv /\ [Next]_vars => (Inv /\ RecrawlInv)'
  BY NextInv, NextRecrawlInv DEF Inv
<1>3. RecrawlInv => RecrawlScheduled
  BY DEF RecrawlInv
<1> QED BY <1>1, <1>2, <1>3, PTL DEF Spec

-----------------------------------------------------------------------------
(* The length of the queue.                                                *)

\* What a batch will push is numbered by now, and no number is in two batches.
FreshBatches ==
  /\ \A e \in enq.put \union com.put : e.seq <= seq
  /\ \A e \in enq.put, f \in com.put : e.seq # f.seq

\* Until an exit rolls the counter back, the numbers in the queue have been drawn, and
\* none is drawn again or waits in a batch: a push overwrites no entry, whether or not
\* the random bits repeat.
OwnKeys ==
  ~drifted => \A e \in queue : /\ e.seq <= seq
                               /\ \A f \in enq.put \union com.put : f.seq # e.seq

QueueInv == IsFiniteSet(queue) /\ FreshBatches /\ OwnKeys /\ PendingExact

\* Writing entries whose numbers are not in the queue makes it longer by all of them.
LEMMA PutsGrow ==
  ASSUME IsFiniteSet(queue), NEW es, IsFiniteSet(es), NEW q \in Puts(es)
  PROVE  /\ IsFiniteSet(q)
         /\ q \subseteq queue \union es
         /\ (\A e \in es, f \in queue : e.seq # f.seq) =>
              q = queue \union es /\ Cardinality(q) = Cardinality(queue) + Cardinality(es)
<1>1. q \subseteq queue \union es
  BY DEF Puts
<1>2. IsFiniteSet(queue \union es)
  BY FS_Union
<1>3. ASSUME \A e \in es, f \in queue : e.seq # f.seq
      PROVE  q = queue \union es /\ Cardinality(q) = Cardinality(queue) + Cardinality(es)
  <2>1. Clashing(es) = {}
    BY <1>3 DEF Clashing
  <2>2. q = queue \union es
    BY <2>1 DEF Puts
  <2>3. queue \intersect es = {}
    BY <1>3
  <2>4. Cardinality(queue \union es) = Cardinality(queue) + Cardinality(es) - Cardinality({})
    BY <2>3, FS_Union
  <2>5. Cardinality({}) = 0 /\ Cardinality(queue) \in Nat /\ Cardinality(es) \in Nat
    BY FS_EmptySet, FS_CardinalityType
  <2> QED BY <2>2, <2>4, <2>5
<1> QED BY <1>1, <1>2, <1>3, FS_Subset

\* The entries for leases that have a number each have one too, above the counter.
LEMMA NumberedCount ==
  ASSUME NEW ls \in SUBSET LeaseType, IsFiniteSet(ls), seq \in Nat,
         \A x, y \in ls : x.seq = y.seq => x = y
  PROVE  /\ IsFiniteSet(Numbered(ls))
         /\ Cardinality(Numbered(ls)) = Cardinality(ls)
         /\ \A e \in Numbered(ls) : seq < e.seq /\ e.seq <= seq + Cardinality(ls)
<1> DEFINE upto(l) == {m \in ls : m.seq <= l.seq}
           f == [l \in ls |-> Entry(Known, seq + Cardinality(upto(l)), l.url)]
<1>1. ASSUME NEW l \in ls
      PROVE  /\ IsFiniteSet(upto(l)) /\ Cardinality(upto(l)) \in Nat
             /\ 1 <= Cardinality(upto(l)) /\ Cardinality(upto(l)) <= Cardinality(ls)
  <2>1. IsFiniteSet(upto(l)) /\ Cardinality(upto(l)) <= Cardinality(ls)
    BY FS_Subset
  <2>2. Cardinality(upto(l)) \in Nat
    BY <2>1, FS_CardinalityType
  <2>3. l \in upto(l)
    BY DEF LeaseType
  <2>4. Cardinality(upto(l)) # 0
    BY <2>1, <2>3, FS_EmptySet
  <2> QED BY <2>1, <2>2, <2>4
<1>2. ASSUME NEW x \in ls, NEW y \in ls, Cardinality(upto(x)) = Cardinality(upto(y))
      PROVE  x = y
  <2>1. x.seq \in Nat /\ y.seq \in Nat /\ \A m \in ls : m.seq \in Nat
    BY DEF LeaseType
  <2>2. CASE x.seq <= y.seq
    <3>1. upto(x) \in SUBSET upto(y)
      BY <2>1, <2>2
    <3>2. upto(y) = upto(x)
      BY <1>1, <1>2, <3>1, FS_Subset
    <3>3. y \in upto(y)
      BY <2>1
    <3> QED BY <2>1, <2>2, <3>2, <3>3
  <2>3. CASE y.seq <= x.seq
    <3>1. upto(y) \in SUBSET upto(x)
      BY <2>1, <2>3
    <3>2. upto(x) = upto(y)
      BY <1>1, <1>2, <3>1, FS_Subset
    <3>3. x \in upto(x)
      BY <2>1
    <3> QED BY <2>1, <2>3, <3>2, <3>3
  <2> QED BY <2>1, <2>2, <2>3
<1>3. \A l \in ls : f[l].seq = seq + Cardinality(upto(l))
  BY DEF Entry
<1>4. Numbered(ls) = {f[l] : l \in ls}
  BY DEF Numbered
<1> HIDE DEF f
<1>5. \A x, y \in ls : f[x] = f[y] => x = y
  <2> TAKE x, y \in ls
  <2> HAVE f[x] = f[y]
  <2>1. seq + Cardinality(upto(x)) = seq + Cardinality(upto(y))
    BY <1>3
  <2>2. Cardinality(upto(x)) = Cardinality(upto(y))
    <3>1. Cardinality(upto(x)) \in Nat /\ Cardinality(upto(y)) \in Nat
      BY <1>1
    <3> HIDE DEF upto
    <3> QED BY <2>1, <3>1
  <2> QED BY <1>2, <2>2
<1>6. f \in Bijection(ls, Numbered(ls))
  <2>1. f \in [ls -> Numbered(ls)]
    <3>1. DOMAIN f = ls /\ f = [l \in ls |-> f[l]]
      BY DEF f
    <3> QED BY <1>4, <3>1
  <2> QED BY <1>4, <1>5, <2>1 DEF Bijection, Injection, Surjection, IsInjective
<1>7. IsFiniteSet(Numbered(ls)) /\ Cardinality(Numbered(ls)) = Cardinality(ls)
  BY <1>6, FS_Bijection DEF ExistsBijection
<1>8. ASSUME NEW e \in Numbered(ls)
      PROVE  seq < e.seq /\ e.seq <= seq + Cardinality(ls)
  <2>1. PICK l \in ls : e = f[l]
    BY <1>4
  <2>2. e.seq = seq + Cardinality(upto(l)) /\ Cardinality(ls) \in Nat
    BY <1>3, <2>1, FS_CardinalityType
  <2>3. /\ Cardinality(upto(l)) \in Nat /\ 1 <= Cardinality(upto(l))
        /\ Cardinality(upto(l)) <= Cardinality(ls)
    BY <1>1
  <2> HIDE DEF upto
  <2> QED BY <2>2, <2>3
<1> QED BY <1>7, <1>8

\* A commit that will add n raises what is outstanding by n.
LEMMA OwesSum ==
  ASSUME TypeInv, NEW c \in Callers, NEW n \in Int, Owes(c, n)
  PROVE  Outstanding' = Outstanding + n
<1>1. owed \in [Callers -> Int] /\ owed' = [owed EXCEPT ![c] = n] /\ owed[c] = 0
  BY DEF TypeInv, TypeOK, Owes
<1>2. \A d \in Callers : owed[d] \in Int /\ owed'[d] = IF d = c THEN n ELSE owed[d]
  BY <1>1
<1> QED BY <1>1, <1>2 DEF Outstanding, Callers

LEMMA OutstandingType ==
  ASSUME owed \in [Callers -> Int]
  PROVE  Outstanding \in Int
  BY DEF Outstanding, Callers

\* A push of entries with numbers of their own keeps the count.
LEMMA PushCounts ==
  ASSUME TypeInv, QueueInv, NEW es \in SUBSET EntryType, IsFiniteSet(es),
         queue' \in Puts(es), pending' = pending,
         NEW c \in Callers, Owes(c, Cardinality(es)),
         seq' \in Nat, seq <= seq',
         enq'.put \subseteq enq.put, com'.put \subseteq com.put,
         drifted' = drifted, rest' = rest \/ rest \notin {"leases", "zero"},
         \A e \in es : e.seq <= seq',
         ~drifted => \A e \in es, f \in queue : e.seq # f.seq,
         \A e \in es, f \in enq'.put \union com'.put : e.seq # f.seq
  PROVE  QueueInv'
<1>0. /\ seq \in Nat /\ pending \in Int /\ drifted \in BOOLEAN
      /\ \A e \in queue \union enq.put \union com.put \union es : e.seq \in Nat
  BY DEF TypeInv, TypeOK, EntryType, BatchType
<1>1. IsFiniteSet(queue') /\ queue' \subseteq queue \union es
  BY PutsGrow DEF QueueInv
<1>2. FreshBatches'
  BY <1>0 DEF QueueInv, FreshBatches
<1>3. OwnKeys'
  BY <1>0, <1>1 DEF QueueInv, OwnKeys
<1>4. PendingExact'
  <2>1. SUFFICES ASSUME ~drifted, rest \notin {"leases", "zero"}
                 PROVE  pending' + Outstanding' = Cardinality(queue')
    BY DEF PendingExact
  <2>2. Cardinality(queue') = Cardinality(queue) + Cardinality(es)
    BY <2>1, PutsGrow DEF QueueInv
  <2>3. Outstanding' = Outstanding + Cardinality(es) /\ Cardinality(es) \in Int
        /\ Outstanding \in Int
    BY OwesSum, OutstandingType, FS_CardinalityType DEF TypeInv, TypeOK
  <2>4. pending + Outstanding = Cardinality(queue)
    BY <2>1 DEF QueueInv, PendingExact
  <2> QED BY <1>0, <2>2, <2>3, <2>4
<1> QED BY <1>1, <1>2, <1>3, <1>4 DEF QueueInv

\* So does a push of entries that are numbered by it.
LEMMA FreshPushCounts ==
  ASSUME TypeInv, QueueInv, NEW es \in SUBSET EntryType, IsFiniteSet(es),
         queue' \in Puts(es), pending' = pending,
         NEW c \in Callers, Owes(c, Cardinality(es)),
         seq' \in Nat, seq <= seq',
         enq' = enq, com'.put \subseteq com.put,
         drifted' = drifted, rest' = rest \/ rest \notin {"leases", "zero"},
         \A e \in es : seq < e.seq /\ e.seq <= seq'
  PROVE  QueueInv'
<1>0. /\ seq \in Nat
      /\ \A e \in queue \union enq.put \union com.put \union es : e.seq \in Nat
  BY DEF TypeInv, TypeOK, EntryType, BatchType
<1>1. ~drifted => \A e \in es, f \in queue : e.seq # f.seq
  BY <1>0 DEF QueueInv, OwnKeys
<1>2. \A e \in es, f \in enq'.put \union com'.put : e.seq # f.seq
  BY <1>0 DEF QueueInv, FreshBatches
<1> QED BY <1>1, <1>2, PushCounts

LEMMA RequeueCounts ==
  ASSUME TypeInv, TypeInv', LeaseInv, QueueInv, NEW ls \in SUBSET held, Requeue(ls),
         enq' = enq, com'.put \subseteq com.put, pending' = pending, drifted' = drifted,
         rest' = rest \/ rest \notin {"leases", "zero"}
  PROVE  QueueInv'
<1>1. /\ ls \in SUBSET LeaseType /\ IsFiniteSet(ls) /\ seq \in Nat /\ seq' \in Nat
      /\ \A x, y \in ls : x.seq = y.seq => x = y
  BY FS_Subset DEF TypeInv, TypeOK, FiniteOK, LeaseInv, LeaseKeysUnique
<1>2. /\ Numbered(ls) \in SUBSET EntryType /\ IsFiniteSet(Numbered(ls))
      /\ Cardinality(Numbered(ls)) = Cardinality(ls) /\ Cardinality(ls) \in Nat
      /\ \A e \in Numbered(ls) : seq < e.seq /\ e.seq <= seq + Cardinality(ls)
  BY <1>1, NumberedType, NumberedCount, FS_CardinalityType
<1>3. /\ queue' \in Puts(Numbered(ls)) /\ Owes("api", Cardinality(Numbered(ls)))
      /\ seq' = seq + Cardinality(ls) /\ "api" \in Callers
  BY <1>2 DEF Requeue, Callers
<1> QED BY <1>1, <1>2, <1>3, FreshPushCounts

\* A step that numbers one entry for a batch, or none, keeps the count.
LEMMA StagedCounts ==
  ASSUME TypeInv, QueueInv, UNCHANGED <<queue, pending, owed, drifted, rest>>, seq' \in Nat,
         \/ enq'.put = enq.put /\ com'.put = com.put /\ seq <= seq'
         \/ /\ seq' = seq + 1
            /\ \E e \in EntryType :
                 /\ e.seq = seq'
                 /\ \/ enq'.put = enq.put \union {e} /\ com'.put = com.put
                    \/ enq'.put = enq.put /\ com'.put = com.put \union {e}
  PROVE  QueueInv'
<1>0. /\ seq \in Nat
      /\ \A e \in queue \union enq.put \union com.put : e.seq \in Nat
  BY DEF TypeInv, TypeOK, EntryType, BatchType
<1>1. CASE enq'.put = enq.put /\ com'.put = com.put /\ seq <= seq'
  BY <1>0, <1>1 DEF QueueInv, FreshBatches, OwnKeys, PendingExact, Outstanding
<1>2. ASSUME seq' = seq + 1, NEW e \in EntryType, e.seq = seq',
             \/ enq'.put = enq.put \union {e} /\ com'.put = com.put
             \/ enq'.put = enq.put /\ com'.put = com.put \union {e}
      PROVE  QueueInv'
  BY <1>0, <1>2 DEF QueueInv, FreshBatches, OwnKeys, PendingExact, Outstanding
<1> QED BY <1>1, <1>2

LEMMA InitQueueInv == Init => QueueInv
<1> SUFFICES ASSUME Init PROVE QueueInv
  OBVIOUS
<1>1. Outstanding = 0
  BY DEF Init, Outstanding, Callers
<1> QED
  BY <1>1, EmptyBatchType, FS_EmptySet DEF Init, QueueInv, FreshBatches, OwnKeys, PendingExact

LEMMA NextQueueInv ==
  TypeInv /\ TypeInv' /\ LeaseInv /\ QueueInv /\ [Next]_vars => QueueInv'
<1> SUFFICES ASSUME TypeInv, TypeInv', LeaseInv, QueueInv, [Next]_vars PROVE QueueInv'
  OBVIOUS
<1>0. /\ seq \in Nat /\ seq' \in Nat /\ enq \in BatchType /\ com \in BatchType
      /\ IsFiniteSet(enq.put) /\ IsFiniteSet(com.put)
      /\ enq.put \in SUBSET EntryType /\ com.put \in SUBSET EntryType
      /\ \A e \in EntryType : e.seq \in Nat
  BY DEF TypeInv, TypeOK, FiniteOK, BatchType, EntryType
<1>n. seq + 1 \in Nat
  BY <1>0
<1>e. ASSUME NEW u \in Urls, NEW p \in {Fresh, Known}
       PROVE  Entry(p, seq + 1, u) \in EntryType /\ Entry(p, seq + 1, u).seq = seq + 1
  BY <1>n DEF Entry, EntryType
<1>1. ASSUME NEW u \in Urls, EnqueueStage(u) PROVE QueueInv'
  <2> DEFINE e == Entry(Fresh, seq + 1, u)
  <2>1. e \in EntryType /\ e.seq = seq + 1
    BY <1>n, <1>e
  <2>2. enq'.put = enq.put \union {e} /\ com' = com /\ seq' = seq + 1
    BY <1>0, <1>1 DEF EnqueueStage, BatchType
  <2>3. UNCHANGED <<queue, pending, owed, drifted, rest>>
    BY <1>1 DEF EnqueueStage, store, history
  <2> HIDE DEF e
  <2> QED BY <1>0, <2>1, <2>2, <2>3, StagedCounts
<1>2. CASE EnqueueApply
  <2>1. /\ queue' \in Puts(enq.put) /\ pending' = pending
        /\ Owes("seeds", Cardinality(enq.put)) /\ "seeds" \in Callers
        /\ enq'.put = {} /\ com' = com /\ seq' = seq
        /\ drifted' = drifted /\ rest' = rest
    BY <1>2, EmptyBatchType DEF EnqueueApply, Apply, Callers
  <2>2. /\ \A e \in enq.put : e.seq <= seq'
        /\ ~drifted => \A e \in enq.put, f \in queue : e.seq # f.seq
        /\ \A e \in enq.put, f \in enq'.put \union com'.put : e.seq # f.seq
    BY <2>1 DEF QueueInv, FreshBatches, OwnKeys
  <2> QED BY <1>0, <2>1, <2>2, PushCounts
<1>3. ASSUME NEW l \in held, NEW links \in SUBSET Urls, CompleteDone(l, links)
      PROVE  QueueInv'
  <2>1. com'.put = com.put /\ seq' = seq
    BY <1>0, <1>3 DEF CompleteDone, BatchType
  <2> QED BY <1>0, <1>3, <2>1, StagedCounts DEF CompleteDone, StageOnly, store, history
<1>4. ASSUME NEW l \in held, CompleteDead(l) PROVE QueueInv'
  <2>1. com'.put = com.put /\ seq' = seq
    BY <1>0, <1>4 DEF CompleteDead, BatchType
  <2> QED BY <1>0, <1>4, <2>1, StagedCounts DEF CompleteDead, StageOnly, store, history
<1>5. ASSUME NEW l \in held, CompleteRetry(l) PROVE QueueInv'
  <2> DEFINE e == Entry(Known, seq + 1, l.url)
  <2>1. e \in EntryType /\ e.seq = seq + 1
    BY <1>n, <1>e DEF TypeInv, TypeOK, LeaseType
  <2>2. com'.put = com.put \union {e} /\ enq' = enq /\ seq' = seq + 1
    BY <1>0, <1>5 DEF CompleteRetry, StageOnly, BatchType
  <2>3. UNCHANGED <<queue, pending, owed, drifted, rest>>
    BY <1>5 DEF CompleteRetry, StageOnly, store, history
  <2> HIDE DEF e
  <2> QED BY <1>0, <2>1, <2>2, <2>3, StagedCounts
<1>6. ASSUME NEW u \in Urls, CompleteLink(u) PROVE QueueInv'
  <2> DEFINE e == Entry(Fresh, seq + 1, u)
  <2>1. e \in EntryType /\ e.seq = seq + 1
    BY <1>n, <1>e
  <2>2. UNCHANGED <<queue, pending, owed, drifted, rest, enq>>
    BY <1>6 DEF CompleteLink, StageOnly, store, history
  <2>3. \/ com'.put = com.put /\ seq' = seq
        \/ com'.put = com.put \union {e} /\ seq' = seq + 1
    BY <1>6, LinkStep, Zenon
  <2> HIDE DEF e
  <2> QED BY <1>0, <2>1, <2>2, <2>3, StagedCounts
<1>7. CASE CompleteApply
  <2>1. /\ queue' \in Puts(com.put) /\ pending' = pending
        /\ Owes("collector", Cardinality(com.put)) /\ "collector" \in Callers
        /\ com'.put = {} /\ enq' = enq /\ seq' = seq
        /\ drifted' = drifted /\ rest' = rest
    BY <1>7, EmptyBatchType DEF CompleteApply, Apply, Callers
  <2>2. /\ \A e \in com.put : e.seq <= seq'
        /\ ~drifted => \A e \in com.put, f \in queue : e.seq # f.seq
        /\ \A e \in com.put, f \in enq'.put \union com'.put : e.seq # f.seq
    BY <2>1 DEF QueueInv, FreshBatches, OwnKeys
  <2> QED BY <1>0, <2>1, <2>2, PushCounts
<1>8. ASSUME NEW t \in taking, LeaseApply(t) PROVE QueueInv'
  <2>1. /\ queue' = queue \ {t.entry} /\ pending' = pending /\ seq' = seq
        /\ Owes("scheduler", -1) /\ "scheduler" \in Callers
        /\ drifted' = (drifted \/ t.entry \notin queue)
        /\ UNCHANGED <<enq, com, rest>>
    BY <1>8 DEF LeaseApply, Callers
  <2>2. IsFiniteSet(queue')
    BY <2>1, FS_Subset DEF QueueInv
  <2>3. FreshBatches'
    BY <2>1 DEF QueueInv, FreshBatches
  <2>4. OwnKeys'
    BY <2>1 DEF QueueInv, OwnKeys
  <2>5. PendingExact'
    <3>1. SUFFICES ASSUME ~drifted, t.entry \in queue, rest \notin {"leases", "zero"}
                   PROVE  pending + Outstanding' = Cardinality(queue')
      BY <2>1 DEF PendingExact
    <3>2. Cardinality(queue') = Cardinality(queue) - 1
      BY <2>1, <3>1, FS_RemoveElement DEF QueueInv
    <3>3. Outstanding' = Outstanding + -1 /\ Outstanding \in Int /\ pending \in Int
      BY <2>1, OwesSum, OutstandingType DEF TypeInv, TypeOK
    <3>4. pending + Outstanding = Cardinality(queue) /\ Cardinality(queue) \in Nat
      BY <3>1, FS_CardinalityType DEF QueueInv, PendingExact
    <3> QED BY <3>2, <3>3, <3>4
  <2> QED BY <2>2, <2>3, <2>4, <2>5 DEF QueueInv
<1>19. ASSUME NEW e \in queue, LeaseRead(e) PROVE QueueInv'
  <2>1. /\ seq' = seq + 1 /\ enq' = enq /\ com' = com
        /\ UNCHANGED <<queue, pending, owed, drifted, rest>>
    BY <1>19 DEF LeaseRead, store, history
  <2> QED BY <1>0, <2>1, StagedCounts
<1>20. ASSUME NEW c \in Callers, AddOwed(c) PROVE QueueInv'
  <2>1. /\ UNCHANGED <<queue, seq, drifted, rest, enq, com>>
        /\ pending' = pending + owed[c] /\ owed' = [owed EXCEPT ![c] = 0]
    BY <1>20 DEF AddOwed, store, memory, history
  <2>2. /\ owed \in [Callers -> Int] /\ pending \in Int
        /\ \A d \in Callers : owed[d] \in Int /\ owed'[d] = IF d = c THEN 0 ELSE owed[d]
    BY <2>1 DEF TypeInv, TypeOK
  <2>3. pending' + Outstanding' = pending + Outstanding
    BY <2>1, <2>2 DEF Outstanding, Callers
  <2> QED BY <2>1, <2>3 DEF QueueInv, FreshBatches, OwnKeys, PendingExact
<1>9. CASE Start
  <2>1. /\ leases \in SUBSET LeaseType /\ IsFiniteSet(leases)
        /\ \A x, y \in leases : x.seq = y.seq => x = y
    BY DEF TypeInv, TypeOK, FiniteOK, LeaseInv, LeaseKeysUnique
  <2>2. /\ Numbered(leases) \in SUBSET EntryType /\ IsFiniteSet(Numbered(leases))
        /\ Cardinality(Numbered(leases)) = Cardinality(leases) /\ Cardinality(leases) \in Nat
        /\ \A e \in Numbered(leases) : seq < e.seq /\ e.seq <= seq + Cardinality(leases)
    BY <1>0, <2>1, NumberedType, NumberedCount, FS_CardinalityType
  <2>3. /\ queue' \in Puts(Numbered(leases)) /\ Owes("start", Cardinality(Numbered(leases)))
        /\ seq' = seq + Cardinality(leases) /\ "start" \in Callers
        /\ UNCHANGED <<enq, com, rest, pending, drifted>>
    BY <1>9, <2>2 DEF Start, SweepLeases, history, Callers
  <2> QED BY <1>0, <2>2, <2>3, FreshPushCounts
<1>10. ASSUME NEW buffered \in SUBSET held, Stop(buffered) \/ DropBuffered(buffered)
       PROVE  QueueInv'
  <2>1. /\ Requeue(buffered) \/ RequeueFails
        /\ enq' = enq /\ com' = com /\ pending' = pending /\ drifted' = drifted
        /\ rest \notin {"leases", "zero"}
    BY <1>10 DEF Stop, DropBuffered, OperatorStep
  <2>2. CASE Requeue(buffered)
    BY <2>1, <2>2, RequeueCounts
  <2>3. CASE RequeueFails
    BY <2>1, <2>3
    DEF RequeueFails, store, QueueInv, FreshBatches, OwnKeys, PendingExact, Outstanding
  <2> QED BY <2>1, <2>2, <2>3
<1>11. ASSUME NEW buffered \in SUBSET held, ClearQueueBegin(buffered) PROVE QueueInv'
  BY <1>11, FS_EmptySet
  DEF ClearQueueBegin, counters, QueueInv, FreshBatches, OwnKeys, PendingExact
<1>12. CASE ClearQueueZero
  <2>1. UNCHANGED <<queue, seq, owed, enq, com>> /\ pending' = 0
        /\ drifted' = (queue # {} \/ \E c \in Callers : owed[c] # 0)
    BY <1>12 DEF ClearQueueZero, store
  <2>4. ~drifted' => queue = {} /\ \A c \in Callers : owed[c] = 0
    BY <2>1, Zenon
  <2>2. ~drifted' => Outstanding = 0 /\ queue = {}
    BY <2>4 DEF Outstanding, Callers
  <2>3. Outstanding' = Outstanding
    BY <2>1 DEF Outstanding
  <2>5. PendingExact' /\ OwnKeys'
    <3>1. SUFFICES ASSUME ~drifted' PROVE PendingExact' /\ OwnKeys'
      BY DEF PendingExact, OwnKeys
    <3> QED BY <2>1, <2>2, <2>3, <3>1, FS_EmptySet DEF OwnKeys, PendingExact
  <2>6. IsFiniteSet(queue)' /\ FreshBatches'
    BY <1>12 DEF ClearQueueZero, store, QueueInv, FreshBatches
  <2> QED BY <2>5, <2>6 DEF QueueInv
<1>13. ASSUME NEW u \in Urls, NEW c \in Callers, PushKnown(u, c), com' = com, enq' = enq
       PROVE  QueueInv'
  <2> DEFINE e == Entry(Known, seq + 1, u)
  <2>1. {e} \in SUBSET EntryType /\ e.seq = seq + 1
    BY <1>n, <1>e
  <2>2. /\ queue' \in Puts({e}) /\ Owes(c, 1) /\ pending' = pending /\ seq' = seq + 1
        /\ drifted' = drifted /\ rest' = rest
    BY <1>13 DEF PushKnown
  <2> HIDE DEF e
  <2>3. IsFiniteSet({e}) /\ Cardinality({e}) = 1
    BY FS_Singleton
  <2> QED BY <1>0, <1>13, <2>1, <2>2, <2>3, FreshPushCounts
<1>14. ASSUME NEW u \in Urls, RequeueDue(u) \/ Reseed(u) PROVE QueueInv'
  BY <1>13, <1>14 DEF RequeueDue, Reseed, PushKnown, Callers
<1>15. CASE CrashAndOpen
  <2>1. /\ queue' = queue /\ enq'.put = {} /\ com'.put = {}
        /\ seq' = mSeq /\ pending' = mPending /\ owed' = [c \in Callers |-> 0]
        /\ ~drifted' => /\ ~drifted /\ rest \notin {"leases", "zero"}
                        /\ seq' = seq /\ pending' = pending
                        /\ \A c \in Callers : owed[c] = 0
    BY <1>15, EmptyBatchType DEF CrashAndOpen, store
  <2>2. ~drifted' => Outstanding' = Outstanding
    BY <2>1 DEF Outstanding, Callers
  <2> QED BY <2>1, <2>2 DEF QueueInv, FreshBatches, OwnKeys, PendingExact
<1>16. ASSUME UNCHANGED <<queue, seq, pending, owed, enq, com, drifted>>,
              rest' = rest \/ (rest \notin {"leases", "zero"})
                \/ (rest = "leases" /\ rest' = "zero")
       PROVE  QueueInv'
  BY <1>16 DEF QueueInv, FreshBatches, OwnKeys, PendingExact, Outstanding
<1>17. CASE \/ ClearSeenBegin \/ ClearSeenEnd \/ ClearQueueLeases \/ StopEnd
            \/ \E ls \in SUBSET held : ClearQueueEnd(ls)
  BY <1>16, <1>17
  DEF ClearSeenBegin, ClearSeenEnd, ClearQueueLeases, StopEnd, ClearQueueEnd, OperatorStep,
      store, counters, history
<1>18. CASE \/ PersistCounters \/ UNCHANGED vars \/ \E u \in recrawl : DueForRecrawl(u)
            \/ \E u \in Urls : RequeueDueFails(u)
  BY <1>16, <1>18
  DEF PersistCounters, DueForRecrawl, RequeueDueFails, vars, store, counters, memory, history
<1> QED
  BY <1>1, <1>2, <1>3, <1>4, <1>5, <1>6, <1>7, <1>8, <1>9, <1>10, <1>11, <1>12, <1>14, <1>15,
     <1>17, <1>18, <1>19, <1>20 DEF Next

\* PendingExact: the counter and the adds still to come are the length of the queue through
\* batches, sweeps, requeues, leases, crashes with saved counters and clean exits, between a
\* commit and its add too, for any bounds and whether or not the random bits repeat, until
\* one of the events that `drifted` records.
THEOREM PendingStaysExact == Spec => []PendingExact
<1>1. Init => TypeInv /\ LeaseInv /\ QueueInv
  BY InitTypeInv, InitLeaseInv, InitQueueInv
<1>2. TypeInv /\ LeaseInv /\ QueueInv /\ [Next]_vars => (TypeInv /\ LeaseInv /\ QueueInv)'
  BY NextTypeInv, NextLeaseInv, NextQueueInv
<1>3. QueueInv => PendingExact
  BY DEF QueueInv
<1> QED BY <1>1, <1>2, <1>3, PTL DEF Spec
=============================================================================
