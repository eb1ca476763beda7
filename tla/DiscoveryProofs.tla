-------------------------- MODULE DiscoveryProofs ---------------------------
(***************************************************************************)
(* Proofs about Discovery.tla for lists, limits and cut bodies of any size *)
(* and any number of days and crashes.                                     *)
(*                                                                         *)
(* The arithmetic of the walk is in RowsBounded: a piece of the list has   *)
(* no more domains than rows, so a rank that moves on by the domains found *)
(* stays within the rows that were read.                                   *)
(***************************************************************************)
EXTENDS Discovery, FiniteSetTheorems, TLAPS

-----------------------------------------------------------------------------
(* The helpers of the model.                                               *)

LEMMA MinOfTwo ==
  ASSUME NEW a \in Int, NEW b \in Int
  PROVE  Min({a, b}) \in {a, b} /\ Min({a, b}) <= a /\ Min({a, b}) <= b
<1>1. \E x \in {a, b} : \A y \in {a, b} : x <= y
  <2>1. CASE a <= b
    BY <2>1
  <2>2. CASE ~(a <= b)
    BY <2>2
  <2> QED BY <2>1, <2>2
<1> QED BY <1>1 DEF Min

LEMMA RowsType ==
  ASSUME NEW id \in Days, NEW lo \in 0 .. Top, NEW hi \in Int, hi <= Top
  PROVE  Rows(id, lo, hi) \subseteq Domains
<1>1. \A r \in lo + 1 .. hi : r \in 1 .. Top
  BY LimitAssumption, ListAssumption
<1>2. Lists[id] \in [1 .. Top -> Domains \union {Junk}]
  BY ListAssumption DEF Days
<1> QED BY <1>1, <1>2 DEF Rows

\* A piece of a list has at most as many domains as rows.
LEMMA RowsBounded ==
  ASSUME NEW id \in Days, NEW lo \in 0 .. Top, NEW hi \in Int, hi <= Top
  PROVE  /\ IsFiniteSet(Rows(id, lo, hi))
         /\ Cardinality(Rows(id, lo, hi)) \in Nat
         /\ Cardinality(Rows(id, lo, hi)) <= IF lo <= hi THEN hi - lo ELSE 0
<1> DEFINE I == lo + 1 .. hi
           T == {Lists[id][r] : r \in I}
           f == [r \in I |-> Lists[id][r]]
<1>1. IsFiniteSet(I) /\ Cardinality(I) = IF lo <= hi THEN hi - lo ELSE 0
  <2>1. lo + 1 \in Int /\ hi \in Int
    BY ListAssumption
  <2> HIDE DEF I
  <2>2. IsFiniteSet(I) /\ Cardinality(I) = IF lo + 1 > hi THEN 0 ELSE hi - (lo + 1) + 1
    BY <2>1, FS_Interval DEF I
  <2> QED BY <2>1, <2>2
<1>2. f \in Surjection(I, T)
  BY DEF Surjection
<1> HIDE DEF f, I, T
<1>3. IsFiniteSet(T) /\ Cardinality(T) <= Cardinality(I)
  BY <1>1, <1>2, FS_Surjection
<1>4. Rows(id, lo, hi) \in SUBSET T
  BY DEF Rows, T, I
<1>5. /\ IsFiniteSet(Rows(id, lo, hi))
      /\ Cardinality(Rows(id, lo, hi)) <= Cardinality(T)
  BY <1>3, <1>4, FS_Subset
<1>6. Cardinality(Rows(id, lo, hi)) \in Nat /\ Cardinality(T) \in Nat
  BY <1>3, <1>5, FS_CardinalityType
<1> QED BY <1>1, <1>3, <1>5, <1>6
-----------------------------------------------------------------------------
(* Type correctness, and what a cycle knows of the cursor it works from:   *)
(* between FetchMeta and FetchList the cycle's list is the saved one, and  *)
(* the rank it starts from is the saved rank, once that is written.  The   *)
(* first source finds nothing in hand, and so replaces nothing.            *)

Walk ==
  /\ At("hackernews") => run.items = {}
  /\ saved.rank < Top
  /\ At("list") \/ At("reset") => run.id \in Days /\ run.id = saved.id
  /\ At("list") => run.rank = saved.rank
  /\ At("reset") => run.rank = 0

TypeInv == TypeOK /\ Walk

LEMMA RunningType ==
  ASSUME TypeOK, run # Idle
  PROVE  /\ run \in RunType /\ IsFiniteSet(run.items)
         /\ Cardinality(run.items) \in Nat /\ Limit(run.items) \in Int
<1>1. run \in RunType
  BY DEF TypeOK
<1>2. IsFiniteSet(run.items)
  BY <1>1, DomainsAssumption, FS_Subset DEF RunType
<1>3. Cardinality(run.items) \in Nat
  BY <1>2, FS_CardinalityType
<1> QED BY <1>1, <1>2, <1>3, LimitAssumption DEF Limit

\* Where a request for the list leaves the walk: fit and Last bound what is read.
LEMMA LastType ==
  ASSUME TypeOK, run # Idle, NEW fit \in 0 .. Fits
  PROVE  /\ Last \in Int /\ Last <= Top /\ Last <= run.rank + Limit(run.items)
         /\ Min({Last, fit}) \in Int /\ Min({Last, fit}) <= Last /\ Min({Last, fit}) <= fit
         /\ Min({Last, fit}) \in {Last, fit}
<1>1. run.rank \in Int /\ Limit(run.items) \in Int
  BY RunningType DEF RunType
<1>2. run.rank + Limit(run.items) \in Int /\ Top \in Int
  BY <1>1, ListAssumption
<1>3. Last \in Int /\ Last <= Top /\ Last <= run.rank + Limit(run.items)
  BY <1>2, MinOfTwo, ListAssumption DEF Last
<1>4. fit \in Int
  BY LimitAssumption
<1> QED BY <1>3, <1>4, MinOfTwo

\* The two parts of FetchList's answer, whole rows and a cut one.
Found(fit) == Rows(run.id, run.rank, Min({Last, fit}))
Part(fit, cut) ==
  IF cut /\ fit < Last /\ run.rank <= fit THEN {Lists[run.id][fit + 1]} \ {Junk} ELSE {}

LEMMA FetchListParts ==
  ASSUME NEW fit, NEW cut, FetchList(fit, cut)
  PROVE  LET rank  == run.rank + Cardinality(Found(fit)) + Cardinality(Part(fit, cut))
             items == run.items \union Found(fit)
         IN /\ saved' = [saved EXCEPT !.rank = IF rank >= Top THEN 0 ELSE rank]
            /\ run' = [run EXCEPT !.items = items,
                                  !.pc = After(items \union Part(fit, cut), "feeds")]
            /\ excused' = excused \union Part(fit, cut)
  BY DEF FetchList, Found, Part

\* The rows found are few enough for the rank to stay within the rows read, and the cut
\* row is the one after them.
LEMMA PartsType ==
  ASSUME TypeInv, At("list"), NEW fit \in 0 .. Fits, NEW cut \in BOOLEAN
  PROVE  /\ Found(fit) \subseteq Domains /\ IsFiniteSet(Found(fit))
         /\ Part(fit, cut) \subseteq Domains
         /\ Cardinality(Found(fit)) \in Nat
         /\ Cardinality(Found(fit)) <=
              IF run.rank <= Min({Last, fit}) THEN Min({Last, fit}) - run.rank ELSE 0
         /\ Cardinality(Part(fit, cut)) \in {0, 1}
         /\ Part(fit, cut) = {} => Cardinality(Part(fit, cut)) = 0
<1>1. run # Idle /\ run.id \in Days
  BY DEF At, TypeInv, Walk
<1>2. run.rank \in 0 .. Top
  BY <1>1, RunningType DEF TypeInv, RunType
<1>3. Min({Last, fit}) \in Int /\ Min({Last, fit}) <= Top /\ Last \in Int /\ Last <= Top
  BY <1>1, LastType, ListAssumption DEF TypeInv
<1>4. /\ Found(fit) \subseteq Domains /\ IsFiniteSet(Found(fit))
      /\ Cardinality(Found(fit)) \in Nat
      /\ Cardinality(Found(fit)) <=
           IF run.rank <= Min({Last, fit}) THEN Min({Last, fit}) - run.rank ELSE 0
  BY <1>1, <1>2, <1>3, RowsType, RowsBounded DEF Found
<1>5. Part(fit, cut) \subseteq Domains
  <2>1. Lists[run.id] \in [1 .. Top -> Domains \union {Junk}]
    BY <1>1, ListAssumption DEF Days
  <2>2. fit < Last => fit + 1 \in 1 .. Top
    BY <1>3, ListAssumption, LimitAssumption
  <2> QED BY <2>1, <2>2 DEF Part
<1>6. /\ Cardinality(Part(fit, cut)) \in {0, 1}
      /\ Part(fit, cut) = {} => Cardinality(Part(fit, cut)) = 0
  <2>1. Part(fit, cut) = {} \/ Part(fit, cut) = {Lists[run.id][fit + 1]}
    BY DEF Part
  <2> QED BY <2>1, FS_EmptySet, FS_Singleton
<1> QED BY <1>4, <1>5, <1>6

LEMMA AfterType ==
  ASSUME NEW items
  PROVE  /\ After(items, "meta") \in {"meta", "enqueue"}
         /\ After(items, "feeds") \in {"feeds", "enqueue"}
  BY DEF After

\* Within a list that stays the walk goes on at the saved rank.
LEMMA FetchMetaType ==
  ASSUME TypeInv, FetchMeta
  PROVE  run' \in RunType /\ saved.rank % Top = saved.rank
<1>1. Top \in Nat /\ Top > 0
  BY ListAssumption
<1>2. saved.rank \in 0 .. Top /\ saved.rank < Top /\ today \in Days
  BY DEF TypeInv, TypeOK, Walk, Cursor
<1>3. run \in RunType
  BY DEF FetchMeta, At, TypeInv, TypeOK
<1>4. saved.rank % Top = saved.rank
  BY <1>1, <1>2
<1>5. (IF saved.id = today THEN saved.rank % Top ELSE 0) \in 0 .. Top
  BY <1>1, <1>2, <1>4
<1>6. (IF saved.id = today THEN "list" ELSE "reset") \in {"list", "reset"}
  OBVIOUS
<1> QED BY <1>2, <1>3, <1>4, <1>5, <1>6 DEF FetchMeta, RunType

LEMMA InitTypeInv == Init => TypeInv
  BY ListAssumption, LimitAssumption
  DEF Init, TypeInv, Walk, TypeOK, Days, Cursor, At

LEMMA NextTypeInv == TypeInv /\ [Next]_vars => TypeInv'
<1> SUFFICES ASSUME TypeInv, [Next]_vars PROVE TypeInv'
  OBVIOUS
<1>z. Top \in Nat /\ Top > 0 /\ 0 \in 0 .. Top
  BY ListAssumption
<1> USE <1>z
<1>r. run # Idle => run \in RunType
  BY DEF TypeInv, TypeOK
<1>t. /\ today \in Days /\ saved \in Cursor /\ offered \subseteq Domains
      /\ excused \subseteq Domains /\ crashes \in Nat
  BY DEF TypeInv, TypeOK
<1>w. Walk
  BY DEF TypeInv
<1>1. CASE Run
  <2>1. run' \in RunType
    BY <1>1 DEF Run, RunType
  <2>2. TypeOK'
    BY <1>1, <2>1, <1>t DEF Run, TypeOK
  <2> QED BY <1>1, <1>w, <2>2 DEF Run, TypeInv, Walk, At
<1>2. CASE HackerNews
  <2>1. PICK urls \in SUBSET Domains :
          run' = [run EXCEPT !.items = urls, !.pc = After(urls, "meta")]
    BY <1>2 DEF HackerNews
  <2>2. run' \in RunType /\ run'.pc \notin {"hackernews", "list", "reset"}
    BY <1>2, <1>r, <2>1, AfterType DEF HackerNews, At, RunType
  <2>3. TypeOK'
    BY <1>2, <2>2, <1>t DEF HackerNews, TypeOK
  <2> QED BY <1>2, <1>w, <2>2, <2>3 DEF HackerNews, TypeInv, Walk, At
<1>3. CASE FetchMeta
  <2>1. saved.rank % Top = saved.rank
    BY <1>3, FetchMetaType
  <2>2. run' \in RunType
    BY <1>3, FetchMetaType
  <2>3. saved' \in Cursor
    BY <1>3, <1>t DEF FetchMeta, Cursor
  <2>4. TypeOK'
    BY <1>3, <2>2, <2>3, <1>t DEF FetchMeta, TypeOK
  <2>5. Walk'
    BY <1>3, <1>r, <1>t, <1>w, <2>1 DEF FetchMeta, Walk, At, RunType, Cursor
  <2> QED BY <2>4, <2>5 DEF TypeInv
<1>4. CASE ResetRank
  <2>1. run' \in RunType
    BY <1>4, <1>r DEF ResetRank, At, RunType
  <2>2. saved' \in Cursor
    BY <1>4, <1>t DEF ResetRank, Cursor
  <2>3. TypeOK'
    BY <1>4, <2>1, <2>2, <1>t DEF ResetRank, TypeOK
  <2>4. Walk'
    BY <1>4, <1>r, <1>t, <1>w DEF ResetRank, Walk, At, RunType, Cursor
  <2> QED BY <2>3, <2>4 DEF TypeInv
<1>5. ASSUME NEW fit \in 0 .. Fits, NEW cut \in BOOLEAN, FetchList(fit, cut)
      PROVE  TypeInv'
  <2>1. At("list") /\ run \in RunType
    BY <1>5, <1>r DEF FetchList, At
  <2> DEFINE rank  == run.rank + Cardinality(Found(fit)) + Cardinality(Part(fit, cut))
             items == run.items \union Found(fit)
  <2>2. /\ Found(fit) \subseteq Domains /\ Part(fit, cut) \subseteq Domains
        /\ Cardinality(Found(fit)) \in Nat /\ Cardinality(Part(fit, cut)) \in {0, 1}
    BY <2>1, PartsType
  <2>3. rank \in Nat
    BY <2>1, <2>2 DEF RunType
  <2>4. /\ saved' = [saved EXCEPT !.rank = IF rank >= Top THEN 0 ELSE rank]
        /\ run' = [run EXCEPT !.items = items,
                              !.pc = After(items \union Part(fit, cut), "feeds")]
        /\ excused' = excused \union Part(fit, cut)
    BY <1>5, FetchListParts
  <2> HIDE DEF rank
  <2>5. saved' \in Cursor /\ saved'.rank < Top
    <3>1. (IF rank >= Top THEN 0 ELSE rank) \in 0 .. Top /\ (IF rank >= Top THEN 0 ELSE rank) < Top
      BY <2>3
    <3> QED BY <2>4, <3>1, <1>t DEF Cursor
  <2>6. run' \in RunType /\ run'.pc \notin {"hackernews", "list", "reset"}
    BY <2>1, <2>2, <2>4, AfterType DEF RunType
  <2>7. TypeOK'
    BY <1>5, <2>2, <2>4, <2>5, <2>6, <1>t DEF FetchList, TypeOK
  <2> QED BY <2>5, <2>6, <2>7 DEF TypeInv, Walk, At
<1>6. CASE TrancoFails
  <2>1. run' \in RunType /\ run'.pc = "feeds"
    BY <1>6, <1>r DEF TrancoFails, At, RunType
  <2>2. TypeOK'
    BY <1>6, <2>1, <1>t DEF TrancoFails, TypeOK
  <2> QED BY <1>6, <2>1, <2>2, <1>w DEF TrancoFails, TypeInv, Walk, At
<1>7. CASE FetchFeeds
  <2>1. PICK urls \in SUBSET Domains :
          run' = [run EXCEPT !.items = @ \union urls, !.pc = "enqueue"]
    BY <1>7 DEF FetchFeeds
  <2>2. run' \in RunType /\ run'.pc = "enqueue"
    BY <1>7, <1>r, <2>1 DEF FetchFeeds, At, RunType
  <2>3. TypeOK'
    BY <1>7, <2>2, <1>t DEF FetchFeeds, TypeOK
  <2> QED BY <1>7, <2>2, <2>3, <1>w DEF FetchFeeds, TypeInv, Walk, At
<1>8. CASE Enqueue \/ EnqueueFails
  <2>1. TypeOK'
    BY <1>8, <1>r, <1>t DEF Enqueue, EnqueueFails, At, RunType, TypeOK
  <2> QED BY <1>8, <2>1, <1>w DEF Enqueue, EnqueueFails, TypeInv, Walk, At
<1>9. CASE Crash
  <2>1. (IF run = Idle THEN {} ELSE run.items) \subseteq Domains
    BY <1>r DEF RunType
  <2>2. (IF At("reset") THEN Rows(saved.id, 0, saved.rank) ELSE {}) \subseteq Domains
    <3>1. At("reset") => saved.id \in Days /\ saved.rank \in Int /\ saved.rank <= Top /\ 0 \in 0 .. Top
      BY <1>t, <1>w DEF Walk, Cursor
    <3> QED BY <3>1, RowsType
  <2>3. TypeOK'
    BY <1>9, <2>1, <2>2, <1>t DEF Crash, TypeOK
  <2> QED BY <1>9, <2>3, <1>w DEF Crash, TypeInv, Walk, At
<1>10. CASE NewDay
  <2>1. today' \in Days
    BY <1>10, <1>t DEF NewDay, Days
  <2>2. TypeOK'
    BY <1>10, <1>r, <1>t, <2>1 DEF NewDay, TypeOK
  <2> QED BY <1>10, <2>2, <1>w DEF NewDay, TypeInv, Walk, At
<1>11. CASE UNCHANGED vars
  <2>1. TypeOK'
    BY <1>11, <1>r, <1>t DEF vars, TypeOK
  <2> QED BY <1>11, <2>1, <1>w DEF vars, TypeInv, Walk, At
<1> QED
  BY <1>1, <1>2, <1>3, <1>4, <1>5, <1>6, <1>7, <1>8, <1>9, <1>10, <1>11 DEF Next, Cycle

LEMMA TypeInvHolds == Spec => []TypeInv
  BY InitTypeInv, NextTypeInv, PTL DEF Spec

\* TypeOK: whatever lists, limits and cut bodies there are, the rank that is saved is one
\* of the list, and all that is queued or lost is a domain of some list or feed.
THEOREM TypeCorrect == Spec => []TypeOK
<1>1. TypeInv => TypeOK
  BY DEF TypeInv
<1> QED BY <1>1, TypeInvHolds, PTL

-----------------------------------------------------------------------------
(* The cursor: what lies above the saved rank is accounted for.            *)

InHand == IF run = Idle THEN {} ELSE run.items

CursorInv == TypeInv /\ CursorCovered

\* A row of a piece is its domain, or the row has none.
LEMMA RowsMember ==
  ASSUME NEW id \in Days, NEW lo, NEW hi, NEW x
  PROVE  x \in Rows(id, lo, hi) <=> x # Junk /\ \E r \in lo + 1 .. hi : x = Lists[id][r]
  BY DEF Rows

\* Every row down to the rank FetchList saves was above the walk already, is among those
\* found, or is the cut one.
LEMMA RowsRead ==
  ASSUME TypeInv, At("list"), NEW fit \in 0 .. Fits, NEW cut \in BOOLEAN,
         NEW rank \in Int,
         rank <= run.rank + Cardinality(Found(fit)) + Cardinality(Part(fit, cut))
  PROVE  Rows(run.id, 0, rank) \subseteq
           Rows(run.id, 0, run.rank) \union Found(fit) \union Part(fit, cut)
<1>1. run # Idle /\ run.id \in Days /\ run.rank \in Int
  BY RunningType DEF At, TypeInv, Walk, RunType
<1>2. /\ Cardinality(Found(fit)) \in Nat
      /\ Cardinality(Found(fit)) <=
           IF run.rank <= Min({Last, fit}) THEN Min({Last, fit}) - run.rank ELSE 0
      /\ Cardinality(Part(fit, cut)) \in {0, 1}
      /\ Part(fit, cut) = {} => Cardinality(Part(fit, cut)) = 0
  BY PartsType
<1>3. /\ Min({Last, fit}) \in Int /\ Last \in Int /\ fit \in Int
      /\ Min({Last, fit}) <= fit /\ Min({Last, fit}) \in {Last, fit}
  BY <1>1, LastType, LimitAssumption DEF TypeInv
<1> SUFFICES ASSUME NEW x \in Rows(run.id, 0, rank)
             PROVE  x \in Rows(run.id, 0, run.rank) \union Found(fit) \union Part(fit, cut)
  OBVIOUS
<1>4. PICK r \in 0 + 1 .. rank : x = Lists[run.id][r]
  BY <1>1, RowsMember
<1>5. x # Junk
  BY <1>1, RowsMember
<1>6. CASE r <= run.rank
  <2>1. r \in 0 + 1 .. run.rank
    BY <1>1, <1>6
  <2> QED BY <1>1, <1>4, <1>5, <2>1, RowsMember
<1>7. CASE r > run.rank /\ r <= Min({Last, fit})
  <2>1. r \in run.rank + 1 .. Min({Last, fit})
    BY <1>1, <1>3, <1>7
  <2> QED BY <1>1, <1>4, <1>5, <2>1, RowsMember DEF Found
<1>8. CASE r > run.rank /\ r > Min({Last, fit})
  <2>1. Cardinality(Part(fit, cut)) = 1
    BY <1>1, <1>2, <1>3, <1>8
  <2>2. cut /\ fit < Last /\ run.rank <= fit
    BY <1>2, <2>1 DEF Part
  <2>3. r = fit + 1
    BY <1>1, <1>2, <1>3, <1>8, <2>1, <2>2
  <2> QED BY <1>4, <1>5, <2>2, <2>3 DEF Part
<1> QED BY <1>1, <1>3, <1>6, <1>7, <1>8

LEMMA RowsNone == \A id : Rows(id, 0, 0) = {}
<1>1. 0 + 1 .. 0 = {}
  OBVIOUS
<1> QED BY <1>1 DEF Rows

LEMMA InitCursorInv == Init => CursorInv
  BY InitTypeInv DEF Init, CursorInv, CursorCovered

LEMMA NextCursorCovered == CursorInv /\ [Next]_vars => CursorCovered'
<1> SUFFICES ASSUME CursorInv, [Next]_vars PROVE CursorCovered'
  OBVIOUS
<1>i. TypeInv /\ TypeInv' /\ TypeOK
  BY NextTypeInv DEF CursorInv, TypeInv
<1>c. saved.id # 0 /\ ~At("reset") =>
        Rows(saved.id, 0, saved.rank) \subseteq offered \union excused \union InHand
  BY DEF CursorInv, CursorCovered, InHand
<1>d. saved \in Cursor /\ (run # Idle => run \in RunType)
  BY <1>i DEF TypeOK
<1>k. run' \in RunType => run' # Idle
  BY IdleAssumption
<1>s. ASSUME UNCHANGED <<saved, offered, excused>>,
             ~At("reset"), InHand \subseteq InHand'
      PROVE  CursorCovered'
  BY <1>s, <1>c DEF CursorCovered, InHand
<1>1. CASE Run
  BY <1>1, <1>s DEF Run, At, InHand
<1>2. CASE HackerNews
  <2>1. InHand = {} /\ ~At("reset")
    BY <1>2, <1>i DEF HackerNews, At, TypeInv, Walk, InHand
  <2> QED BY <1>2, <1>s, <2>1 DEF HackerNews
<1>3. CASE FetchMeta
  <2>1. run # Idle /\ run \in RunType /\ run' # Idle
    BY <1>3, <1>d, <1>i, <1>k, FetchMetaType DEF FetchMeta, At
  <2>2. CASE saved.id = today
    <3>1. saved' = saved
      BY <1>3, <1>d, <2>2 DEF FetchMeta, Cursor
    <3>2. InHand' = InHand /\ ~At("reset")
      BY <1>3, <2>1 DEF FetchMeta, InHand, RunType, At
    <3> QED BY <1>3, <1>s, <3>1, <3>2 DEF FetchMeta
  <2>3. CASE saved.id # today
    BY <1>3, <2>1, <2>3 DEF FetchMeta, CursorCovered, At, RunType
  <2> QED BY <2>2, <2>3
<1>4. CASE ResetRank
  <2>1. saved'.rank = 0
    BY <1>4, <1>d DEF ResetRank, Cursor
  <2> QED BY <2>1, RowsNone DEF CursorCovered
<1>5. ASSUME NEW fit \in 0 .. Fits, NEW cut \in BOOLEAN, FetchList(fit, cut)
      PROVE  CursorCovered'
  <2>1. At("list") /\ run # Idle /\ run \in RunType /\ ~At("reset")
    BY <1>5, <1>d DEF FetchList, At
  <2>2. saved.id = run.id /\ saved.rank = run.rank /\ run.id # 0
    BY <1>i, <2>1, ListAssumption DEF TypeInv, Walk, Days
  <2> DEFINE rank  == run.rank + Cardinality(Found(fit)) + Cardinality(Part(fit, cut))
             kept  == IF rank >= Top THEN 0 ELSE rank
             items == run.items \union Found(fit)
  <2>3. /\ saved' = [saved EXCEPT !.rank = kept]
        /\ run' = [run EXCEPT !.items = items,
                              !.pc = After(items \union Part(fit, cut), "feeds")]
        /\ excused' = excused \union Part(fit, cut)
        /\ offered' = offered
    BY <1>5, FetchListParts DEF FetchList
  <2>4. rank \in Int /\ rank >= 0
    <3>1. run.rank \in Nat
      BY <2>1 DEF RunType
    <3>2. Cardinality(Found(fit)) \in Nat /\ Cardinality(Part(fit, cut)) \in {0, 1}
      BY <1>i, <2>1, PartsType
    <3> QED BY <3>1, <3>2
  <2>5. Rows(run.id, 0, kept) \subseteq Rows(run.id, 0, run.rank) \union Found(fit) \union Part(fit, cut)
    <3>1. kept \in Int /\ kept <= rank
      BY <2>4, ListAssumption
    <3> HIDE DEF kept
    <3> QED BY <1>i, <2>1, <3>1, RowsRead
  <2>6. Rows(run.id, 0, run.rank) \subseteq offered \union excused \union run.items
    BY <1>c, <2>1, <2>2 DEF InHand
  <2> HIDE DEF kept
  <2>7. saved'.id = run.id /\ saved'.rank = kept
    BY <2>2, <2>3, <1>d DEF Cursor
  <2>8. run' # Idle /\ run'.items = items
    <3>1. run'.items = items
      BY <2>1, <2>3 DEF RunType
    <3>2. run' \in RunType
      <4>1. run'.pc \in {"feeds", "enqueue"}
        BY <2>1, <2>3, AfterType DEF RunType
      <4>2. items \subseteq Domains
        BY <1>i, <2>1, PartsType DEF RunType
      <4> QED BY <2>1, <2>3, <4>1, <4>2 DEF RunType
    <3> QED BY <3>1, <3>2, <1>k
  <2> QED BY <2>3, <2>5, <2>6, <2>7, <2>8 DEF CursorCovered
<1>6. CASE TrancoFails
  <2>1. run # Idle /\ run \in RunType /\ ~At("reset")
    BY <1>6, <1>d DEF TrancoFails, At
  <2>2. run' \in RunType /\ run'.items = run.items
    BY <1>6, <2>1 DEF TrancoFails, RunType
  <2> QED BY <1>6, <2>1, <2>2, <1>k, <1>s DEF TrancoFails, InHand
<1>7. CASE FetchFeeds
  <2>1. run # Idle /\ run \in RunType /\ ~At("reset")
    BY <1>7, <1>d DEF FetchFeeds, At
  <2>2. PICK urls \in SUBSET Domains :
          run' = [run EXCEPT !.items = @ \union urls, !.pc = "enqueue"]
    BY <1>7 DEF FetchFeeds
  <2>3. run' \in RunType /\ run'.items = run.items \union urls
    BY <2>1, <2>2 DEF RunType
  <2> QED BY <1>7, <2>1, <2>3, <1>k, <1>s DEF FetchFeeds, InHand
<1>8. CASE Enqueue \/ EnqueueFails
  <2>1. run # Idle /\ ~At("reset") /\ run' = Idle /\ saved' = saved
    BY <1>8 DEF Enqueue, EnqueueFails, At
  <2>2. offered' \union excused' = offered \union excused \union run.items
    BY <1>8 DEF Enqueue, EnqueueFails
  <2> QED BY <1>c, <2>1, <2>2 DEF CursorCovered, InHand
<1>9. CASE Crash
  <2>1. excused' = excused \union InHand
                     \union (IF At("reset") THEN Rows(saved.id, 0, saved.rank) ELSE {})
    BY <1>9 DEF Crash, InHand
  <2> QED BY <1>9, <1>c, <2>1 DEF Crash, CursorCovered
<1>10. CASE NewDay
  BY <1>10, <1>c DEF NewDay, CursorCovered, InHand, At
<1>11. CASE UNCHANGED vars
  BY <1>11, <1>c DEF vars, CursorCovered, InHand, At
<1> QED
  BY <1>1, <1>2, <1>3, <1>4, <1>5, <1>6, <1>7, <1>8, <1>9, <1>10, <1>11 DEF Next, Cycle
LEMMA CursorInvHolds == Spec => []CursorInv
<1>1. CursorInv /\ [Next]_vars => CursorInv'
  BY NextTypeInv, NextCursorCovered DEF CursorInv
<1> QED BY <1>1, InitCursorInv, PTL DEF Spec

\* CursorCovered: the rank and the list's name are two writes apart from each other and
\* from the frontier, and yet no row above the saved rank is skipped unless a crash, a
\* failed Enqueue or a cut body lost it: for any lists, bodies, limits and days.
THEOREM CursorNeverAhead == Spec => []CursorCovered
<1>1. CursorInv => CursorCovered
  BY DEF CursorInv
<1> QED BY <1>1, CursorInvHolds, PTL

-----------------------------------------------------------------------------
(* The limit of a cycle.                                                   *)

LimitInv == TypeInv /\ LimitKept

\* Two hands together hold no more than the sum.
LEMMA UnionSize ==
  ASSUME NEW A, NEW B, IsFiniteSet(A), IsFiniteSet(B)
  PROVE  /\ Cardinality(A \union B) \in Nat
         /\ Cardinality(A \union B) <= Cardinality(A) + Cardinality(B)
<1>1. /\ IsFiniteSet(A \union B)
      /\ Cardinality(A \union B) = Cardinality(A) + Cardinality(B) - Cardinality(A \cap B)
  BY FS_Union
<1>2. IsFiniteSet(A \cap B)
  BY FS_Intersection
<1>3. /\ Cardinality(A) \in Nat /\ Cardinality(B) \in Nat
      /\ Cardinality(A \cap B) \in Nat /\ Cardinality(A \union B) \in Nat
  BY <1>1, <1>2, FS_CardinalityType
<1> QED BY <1>1, <1>3

LEMMA NextLimitKept == LimitInv /\ [Next]_vars => LimitKept'
<1> SUFFICES ASSUME LimitInv, [Next]_vars PROVE LimitKept'
  OBVIOUS
<1>i. TypeInv /\ TypeOK /\ LimitKept
  BY DEF LimitInv, TypeInv
<1>m. MaxPerCycle \in Nat /\ HNMax \in Nat /\ FeedMax \in Nat
  BY LimitAssumption
<1>r. run # Idle => /\ run \in RunType /\ IsFiniteSet(run.items)
                    /\ Cardinality(run.items) \in Nat
                    /\ Cardinality(run.items) <= MaxPerCycle
                    /\ Limit(run.items) = MaxPerCycle - Cardinality(run.items)
  BY <1>i, RunningType DEF LimitKept, Limit
<1>u. ASSUME NEW urls \in SUBSET Domains
      PROVE  IsFiniteSet(urls) /\ Cardinality(urls) \in Nat
  BY DomainsAssumption, FS_Subset, FS_CardinalityType
<1>k. ASSUME run' # Idle => run'.items = run.items, run # Idle PROVE LimitKept'
  BY <1>k, <1>r DEF LimitKept
<1>1. CASE Run
  <2>1. Cardinality({}) = 0
    BY FS_EmptySet
  <2> QED BY <1>1, <1>m, <2>1 DEF Run, LimitKept
<1>2. CASE HackerNews
  <2>1. PICK urls \in SUBSET Domains :
          /\ Cardinality(urls) <= Min({HNMax, MaxPerCycle})
          /\ run' = [run EXCEPT !.items = urls, !.pc = After(urls, "meta")]
    BY <1>2 DEF HackerNews
  <2>2. run'.items = urls
    BY <1>2, <1>r, <2>1 DEF HackerNews, At, RunType
  <2>3. Min({HNMax, MaxPerCycle}) \in {HNMax, MaxPerCycle} /\ Min({HNMax, MaxPerCycle}) <= MaxPerCycle
    BY <1>m, MinOfTwo
  <2>4. Cardinality(urls) <= MaxPerCycle
    BY <1>m, <1>u, <2>1, <2>3
  <2> QED BY <2>2, <2>4 DEF LimitKept
<1>3. CASE FetchMeta \/ ResetRank \/ TrancoFails
  <2>1. run # Idle /\ run \in RunType
    BY <1>3, <1>r DEF FetchMeta, ResetRank, TrancoFails, At
  <2>2. run'.items = run.items
    BY <1>3, <2>1 DEF FetchMeta, ResetRank, TrancoFails, RunType
  <2> QED BY <1>k, <2>1, <2>2
<1>4. ASSUME NEW fit \in 0 .. Fits, NEW cut \in BOOLEAN, FetchList(fit, cut)
      PROVE  LimitKept'
  <2>1. At("list") /\ run # Idle
    BY <1>4 DEF FetchList, At
  <2>2. run'.items = run.items \union Found(fit)
    <3>1. run' = [run EXCEPT !.items = run.items \union Found(fit),
                             !.pc = After((run.items \union Found(fit)) \union Part(fit, cut), "feeds")]
      BY <1>4, FetchListParts
    <3> QED BY <1>r, <2>1, <3>1 DEF RunType
  <2>3. /\ IsFiniteSet(Found(fit)) /\ Cardinality(Found(fit)) \in Nat
        /\ Cardinality(Found(fit)) <=
             IF run.rank <= Min({Last, fit}) THEN Min({Last, fit}) - run.rank ELSE 0
    BY <1>i, <2>1, PartsType
  <2>4. /\ Last \in Int /\ Last <= run.rank + Limit(run.items)
        /\ Min({Last, fit}) \in Int /\ Min({Last, fit}) <= Last /\ run.rank \in Int
    BY <1>i, <1>r, <2>1, LastType DEF RunType
  <2>5. Cardinality(Found(fit)) <= MaxPerCycle - Cardinality(run.items)
    BY <1>m, <1>r, <2>1, <2>3, <2>4
  <2>6. /\ Cardinality(run.items \union Found(fit)) \in Nat
        /\ Cardinality(run.items \union Found(fit)) <= Cardinality(run.items) + Cardinality(Found(fit))
    BY <1>r, <2>1, <2>3, UnionSize
  <2>7. Cardinality(run.items \union Found(fit)) <= MaxPerCycle
    BY <1>m, <1>r, <2>1, <2>3, <2>5, <2>6
  <2> QED BY <2>2, <2>7 DEF LimitKept
<1>5. CASE FetchFeeds
  <2>1. run # Idle
    BY <1>5 DEF FetchFeeds, At
  <2>2. PICK urls \in SUBSET Domains :
          /\ Cardinality(urls) <= Min({FeedMax, Limit(run.items)})
          /\ run' = [run EXCEPT !.items = @ \union urls, !.pc = "enqueue"]
    BY <1>5 DEF FetchFeeds
  <2>3. run'.items = run.items \union urls
    BY <1>r, <2>1, <2>2 DEF RunType
  <2>4. Limit(run.items) \in Int /\ Min({FeedMax, Limit(run.items)}) \in {FeedMax, Limit(run.items)}
        /\ Min({FeedMax, Limit(run.items)}) <= Limit(run.items)
    <3>1. Limit(run.items) \in Int /\ FeedMax \in Int
      BY <1>i, <1>m, <2>1, RunningType
    <3> QED BY <3>1, MinOfTwo
  <2>5. Cardinality(urls) <= MaxPerCycle - Cardinality(run.items)
    BY <1>m, <1>r, <1>u, <2>1, <2>2, <2>4
  <2>6. /\ Cardinality(run.items \union urls) \in Nat
        /\ Cardinality(run.items \union urls) <= Cardinality(run.items) + Cardinality(urls)
    BY <1>r, <1>u, <2>1, UnionSize
  <2>7. Cardinality(run.items \union urls) <= MaxPerCycle
    BY <1>m, <1>r, <1>u, <2>1, <2>5, <2>6
  <2> QED BY <2>3, <2>7 DEF LimitKept
<1>6. CASE Enqueue \/ EnqueueFails \/ Crash
  BY <1>6 DEF Enqueue, EnqueueFails, Crash, LimitKept
<1>7. CASE NewDay \/ UNCHANGED vars
  BY <1>7, <1>i DEF NewDay, vars, LimitKept
<1> QED BY <1>1, <1>2, <1>3, <1>4, <1>5, <1>6, <1>7 DEF Next, Cycle

\* LimitKept: three sources each ask for what is left, and a list has fewer domains than
\* rows; together they never hand the frontier more than DiscoveryMaxPerCycle.
THEOREM CycleKeepsItsLimit == Spec => []LimitKept
<1>1. Init => LimitKept
  BY DEF Init, LimitKept
<1>2. LimitInv /\ [Next]_vars => LimitInv'
  BY NextTypeInv, NextLimitKept DEF LimitInv
<1>3. LimitInv => LimitKept
  BY DEF LimitInv
<1>4. Init => LimitInv
  BY <1>1, InitTypeInv DEF LimitInv
<1> QED BY <1>2, <1>3, <1>4, PTL DEF Spec
=============================================================================
