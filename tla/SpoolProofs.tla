----------------------------- MODULE SpoolProofs -----------------------------
(***************************************************************************)
(* Proofs about Spool.tla for every set of pages and every bound.          *)
(*                                                                         *)
(* That no document is lost is proved for an engine whose saved spool tail *)
(* is never behind when it ends, and an app whose cursor file is written   *)
(* when it says so; SpoolCrash.cfg shows the first condition is needed.    *)
(* The argument: the cursor and what is acknowledged never pass what is    *)
(* committed, so every document past the cursor is still in the spool; and *)
(* as every read starts at the cursor, what a commit covers was staged     *)
(* after the last thing that could have disturbed the writer.              *)
(***************************************************************************)
EXTENDS Spool, FiniteSetTheorems, WellFoundedInduction, TLAPS

\* A set of numbers with a bound has a greatest element.
LEMMA MaxExists ==
  ASSUME NEW S \in SUBSET Nat, S # {}, NEW b \in Nat, \A n \in S : n <= b
  PROVE  \E m \in S : \A n \in S : n <= m
<1> DEFINE T == {b - n : n \in S}
<1>1. T \subseteq Nat /\ T # {}
  <2>1. PICK s \in S : TRUE
    OBVIOUS
  <2>2. b - s \in T
    OBVIOUS
  <2>3. \A n \in S : b - n \in Nat
    OBVIOUS
  <2> QED BY <2>2, <2>3
<1>2. PICK t \in T : \A y \in T : ~(<<y, t>> \in OpToRel(<, Nat))
  BY <1>1, NatLessThanWellFounded, WFMin
<1>3. \A y \in T : ~(y < t)
  <2> HIDE DEF T
  <2> QED BY <1>1, <1>2 DEF OpToRel
<1>4. PICK m \in S : t = b - m
  BY <1>2
<1>5. ASSUME NEW n \in S PROVE n <= m
  <2>1. ~(b - n < b - m)
    BY <1>3, <1>4
  <2> QED BY <2>1
<1> QED BY <1>5

-----------------------------------------------------------------------------
(* The helpers of the model.                                               *)

\* Among the documents of a page one is the newest.
LEMMA NewestExists ==
  ASSUME NEW docs \in SUBSET DocType, NEW b \in Nat, \A d \in docs : d.seq <= b,
         NEW u, \E d \in docs : d.url = u
  PROVE  \E d \in docs : d.url = u /\ \A e \in docs : e.url = u => e.seq <= d.seq
<1> DEFINE S == {d.seq : d \in {e \in docs : e.url = u}}
<1>1. S \in SUBSET Nat /\ S # {} /\ \A n \in S : n <= b
  BY DEF DocType
<1>2. PICK m \in S : \A n \in S : n <= m
  <2> HIDE DEF S
  <2> QED BY <1>1, MaxExists
<1> QED BY <1>2

\* Adding documents stages, for each page among them, its newest.
LEMMA AddingIs ==
  ASSUME NEW docs \in SUBSET DocType, made \in Nat, \A d \in docs : d.seq <= made
  PROVE  /\ DOMAIN Adding(docs) = Urls
         /\ \A u \in Urls :
              \/ /\ ~\E d \in docs : d.url = u
                 /\ Adding(docs)[u] = staged[u]
              \/ \E d \in docs : /\ d.url = u /\ Adding(docs)[u] = d.id
                                 /\ \A e \in docs : e.url = u => e.seq <= d.seq
<1>1. ASSUME NEW u \in Urls, \E d \in docs : d.url = u
      PROVE  \E d \in docs : /\ d.url = u /\ Adding(docs)[u] = d.id
                             /\ \A e \in docs : e.url = u => e.seq <= d.seq
  <2> DEFINE P(d) == d.url = u /\ \A e \in docs : e.url = u => e.seq <= d.seq
             x == CHOOSE d \in docs : P(d)
  <2>1. \E d \in docs : P(d)
    BY <1>1, NewestExists
  <2>2. x \in docs /\ P(x)
    <3> HIDE DEF P
    <3> QED BY <2>1
  <2>3. Adding(docs)[u] = x.id
    BY <1>1 DEF Adding
  <2> HIDE DEF x
  <2> QED BY <2>2, <2>3
<1>2. \A u \in Urls : ~(\E d \in docs : d.url = u) => Adding(docs)[u] = staged[u]
  BY DEF Adding
<1>3. DOMAIN Adding(docs) = Urls
  BY DEF Adding
<1> QED BY <1>1, <1>2, <1>3

LEMMA HighestIs ==
  ASSUME NEW docs \in SUBSET DocType, made \in Nat, \A d \in docs : d.seq <= made,
         NEW least \in Nat
  PROVE  /\ Highest(docs, least) \in Nat
         /\ Highest(docs, least) >= least
         /\ \A d \in docs : d.seq <= Highest(docs, least)
         /\ Highest(docs, least) = least \/ \E d \in docs : d.seq = Highest(docs, least)
<1> DEFINE S == {least} \union {d.seq : d \in docs}
           P(n) == n >= least /\ \A d \in docs : d.seq <= n
           x == CHOOSE n \in S : P(n)
<1>1. S \in SUBSET Nat /\ S # {}
  BY DEF DocType
<1>2. PICK c \in Nat : \A n \in S : n <= c
  <2>1. CASE least <= made
    BY <2>1
  <2>2. CASE made <= least
    <3>1. \A d \in docs : d.seq <= least
      BY <2>2 DEF DocType
    <3> QED BY <3>1
  <2> QED BY <2>1, <2>2
<1>3. PICK m \in S : \A n \in S : n <= m
  <2> HIDE DEF S
  <2> QED BY <1>1, <1>2, MaxExists
<1>4. P(m)
  BY <1>1, <1>3 DEF DocType
<1>5. x \in S /\ P(x)
  <2> HIDE DEF P, S
  <2> QED BY <1>4
<1>6. Highest(docs, least) = x
  BY DEF Highest
<1> HIDE DEF x
<1> QED BY <1>1, <1>5, <1>6

LEMMA SpoolReadIs ==
  ASSUME NEW after
  PROVE  SpoolRead(after) \subseteq spool /\ \A d \in SpoolRead(after) : d.seq > after
  BY DEF SpoolRead

-----------------------------------------------------------------------------
(* Type correctness.  Sequences never pass the number of documents made,   *)
(* which bounds the sets a maximum is taken of.                            *)

Bounded ==
  /\ tail <= made /\ mTail <= made
  /\ \A d \in spool \union batch \union resp \union published : d.seq <= made

TypeInv == TypeOK /\ Bounded /\ IsFiniteSet(spool) /\ IsFiniteSet(batch) /\ IsFiniteSet(resp)

LEMMA InitTypeInv == Init => TypeInv
<1> SUFFICES ASSUME Init PROVE TypeInv
  OBVIOUS
<1>1. Nothing \in [Urls -> Nat] /\ Nothing \in [Urls -> Nat \union {Deleted}]
  BY DEF Nothing
<1>2. exiting \in BOOLEAN
  BY Zenon DEF Init
<1>3. TypeOK
  BY <1>1, <1>2 DEF Init, TypeOK
<1>4. Bounded
  BY DEF Init, Bounded
<1> QED BY <1>3, <1>4, FS_EmptySet DEF Init, TypeInv

\* What a commit shows is a version number for every page.
LEMMA CommittedType ==
  ASSUME TypeInv
  PROVE  Committed \in [Urls -> Nat]
<1>1. \A u \in Urls : index[u] \in Nat /\ staged[u] \in Nat \union {Deleted}
  BY DEF TypeInv, TypeOK
<1>2. ASSUME NEW u \in Urls
      PROVE  (CASE staged[u] = 0 -> index[u] [] staged[u] = Deleted -> 0 [] OTHER -> staged[u])
               \in Nat
  <2>1. CASE staged[u] = 0
    BY <1>1, <2>1 DEF Deleted
  <2>2. CASE staged[u] = Deleted
    BY <1>1, <2>2 DEF Deleted
  <2>3. CASE staged[u] # 0 /\ staged[u] # Deleted
    BY <1>1, <2>3
  <2> QED BY <2>1, <2>2, <2>3
<1> QED BY <1>2 DEF Committed

LEMMA NextTypeInv == TypeInv /\ [Next]_vars => TypeInv'
<1> SUFFICES ASSUME TypeInv, [Next]_vars PROVE TypeInv'
  OBVIOUS
<1> USE SizesAssumption
<1>0. Nothing \in [Urls -> Nat] /\ Nothing \in [Urls -> Nat \union {Deleted}]
  BY DEF Nothing
<1>1. ASSUME NEW u \in Urls, MakeDoc(u) PROVE TypeInv'
  <2> DEFINE x == [seq |-> tail + 1, url |-> u, id |-> made + 1]
  <2>1. x \in DocType /\ x.seq <= made + 1 /\ made + 1 \in Nat /\ tail + 1 \in Nat
        /\ tail + 1 <= made + 1
    BY DEF TypeInv, TypeOK, DocType, Bounded
  <2>2. batch' = batch \union {x} /\ made' = made + 1 /\ tail' = tail + 1
    BY <1>1 DEF MakeDoc
  <2> HIDE DEF x
  <2>3. IsFiniteSet(batch')
    BY <2>2, FS_AddElement DEF TypeInv
  <2>4. TypeOK'
    BY <1>1, <2>1, <2>2 DEF MakeDoc, TypeInv, TypeOK, engineDisk, app, appDisk, appMemory, bounds
  <2>5. mTail <= made + 1 /\ \A d \in spool \union batch \union resp \union published :
                               d.seq <= made + 1
    BY DEF TypeInv, TypeOK, Bounded, DocType
  <2>6. Bounded'
    BY <1>1, <2>1, <2>2, <2>5 DEF MakeDoc, Bounded, engineDisk, app, appMemory
  <2> QED BY <1>1, <2>3, <2>4, <2>6 DEF MakeDoc, TypeInv, engineDisk, app, appMemory
<1>2. CASE ApplyDocs
  <2> DEFINE kept == {d \in spool : \A b \in batch : b.seq # d.seq}
  <2>1. spool' = kept \union batch /\ published' = published \union batch /\ batch' = {}
    BY <1>2 DEF ApplyDocs
  <2>2. IsFiniteSet(kept) /\ kept \subseteq spool
    BY FS_Subset DEF TypeInv
  <2> HIDE DEF kept
  <2>3. IsFiniteSet(spool') /\ IsFiniteSet(batch')
    BY <2>1, <2>2, FS_Union, FS_EmptySet DEF TypeInv
  <2>4. TypeOK'
    BY <1>2, <2>1, <2>2 DEF ApplyDocs, TypeInv, TypeOK, app, appDisk, appMemory, bounds
  <2>5. Bounded'
    BY <1>2, <2>1, <2>2 DEF ApplyDocs, TypeInv, Bounded, app, appMemory
  <2> QED BY <1>2, <2>3, <2>4, <2>5 DEF ApplyDocs, TypeInv, app, appMemory
<1>3. ASSUME NEW n \in acks, SpoolAck(n) PROVE TypeInv'
  <2>1. spool' \subseteq spool
    BY <1>3 DEF SpoolAck, DropUpTo
  <2>2. head' \in Nat /\ acks' \subseteq Nat
    BY <1>3 DEF SpoolAck, TypeInv, TypeOK
  <2>3. IsFiniteSet(spool')
    BY <2>1, FS_Subset DEF TypeInv
  <2>4. TypeOK'
    BY <1>3, <2>1, <2>2 DEF SpoolAck, TypeInv, TypeOK, app, appDisk, appMemory, bounds
  <2>5. Bounded'
    BY <1>3, <2>1 DEF SpoolAck, TypeInv, Bounded, app, appMemory
  <2> QED BY <1>3, <2>3, <2>4, <2>5 DEF SpoolAck, TypeInv, app, appMemory
<1>4. CASE PersistCounters
  BY <1>4 DEF PersistCounters, TypeInv, TypeOK, Bounded, engineMemory, app, appDisk, appMemory,
              bounds
<1>5. CASE EngineRestart
  <2>1. TypeOK'
    BY <1>5 DEF EngineRestart, TypeInv, TypeOK, engineDisk, app, appDisk, appMemory
  <2>2. Bounded'
    BY <1>5 DEF EngineRestart, TypeInv, Bounded, engineDisk, app, appMemory
  <2> QED BY <1>5, <2>1, <2>2, FS_EmptySet
          DEF EngineRestart, TypeInv, engineDisk, app, appMemory
<1>6. CASE Ask
  <2>1. resp' \subseteq spool /\ IsFiniteSet(resp')
    BY <1>6, SpoolReadIs, FS_Subset DEF Ask, TypeInv
  <2>2. TypeOK'
    BY <1>6, <2>1 DEF Ask, TypeInv, TypeOK, engine, engineDisk, engineMemory, appDisk, bounds
  <2>3. Bounded'
    BY <1>6, <2>1 DEF Ask, TypeInv, Bounded, engine, engineDisk, engineMemory
  <2> QED BY <1>6, <2>1, <2>2, <2>3 DEF Ask, TypeInv, engine, engineDisk, engineMemory
<1>7. CASE IdleCommit
  BY <1>7 DEF IdleCommit, TypeInv, TypeOK, Bounded, engine, engineDisk, engineMemory, appDisk,
              bounds
<1>8. ASSUME NEW docs \in SUBSET resp
      PROVE  Adding(docs) \in [Urls -> Nat \union {Deleted}]
  <2>1. docs \in SUBSET DocType /\ made \in Nat /\ \A d \in docs : d.seq <= made
    BY DEF TypeInv, TypeOK, Bounded
  <2>2. \A u \in Urls : Adding(docs)[u] = staged[u] \/ \E d \in docs : Adding(docs)[u] = d.id
    BY <2>1, AddingIs
  <2>3. \A u \in Urls : Adding(docs)[u] \in Nat \union {Deleted}
    BY <2>1, <2>2 DEF TypeInv, TypeOK, DocType
  <2>4. Adding(docs) = [u \in Urls |-> Adding(docs)[u]]
    BY DEF Adding
  <2> QED BY <2>3, <2>4
<1>9. ASSUME NEW due \in BOOLEAN, Stage(due) PROVE TypeInv'
  <2>1. /\ resp \in SUBSET DocType /\ made \in Nat /\ pendingSeq \in Nat
        /\ \A d \in resp : d.seq <= made
    BY DEF TypeInv, TypeOK, Bounded
  <2>2. pendingSeq' \in Nat /\ staged' \in [Urls -> Nat \union {Deleted}]
    <3>1. pendingSeq' = Highest(resp, pendingSeq) /\ staged' = Adding(resp)
      BY <1>9 DEF Stage
    <3>2. Highest(resp, pendingSeq) \in Nat
      BY <2>1, HighestIs
    <3>3. Adding(resp) \in [Urls -> Nat \union {Deleted}]
      BY <1>8
    <3> QED BY <3>1, <3>2, <3>3
  <2>3. uncommitted' \in Nat
    BY <1>9, FS_CardinalityType DEF Stage, TypeInv, TypeOK
  <2>4. TypeOK'
    BY <1>9, <2>2, <2>3
    DEF Stage, TypeInv, TypeOK, engine, engineDisk, engineMemory, appDisk, bounds
  <2>5. Bounded'
    BY <1>9 DEF Stage, TypeInv, Bounded, engine, engineDisk, engineMemory
  <2> QED BY <1>9, <2>4, <2>5, FS_EmptySet
          DEF Stage, TypeInv, engine, engineDisk, engineMemory
<1>10. ASSUME NEW d \in resp, StageFails(d) PROVE TypeInv'
  <2>1. Adding({e \in resp : e.seq < d.seq}) \in [Urls -> Nat \union {Deleted}]
    BY <1>8
  <2>2. staged' \in [Urls -> Nat \union {Deleted}]
    BY <1>10, <2>1 DEF StageFails
  <2>3. TypeOK'
    BY <1>10, <2>2 DEF StageFails, Fault, TypeInv, TypeOK, engine, engineDisk, engineMemory, appDisk
  <2>4. Bounded'
    BY <1>10 DEF StageFails, TypeInv, Bounded, engine, engineDisk, engineMemory
  <2> QED BY <1>10, <2>3, <2>4, FS_EmptySet
          DEF StageFails, TypeInv, engine, engineDisk, engineMemory
<1>11. CASE CommitIndex
  <2>1. /\ index' \in [Urls -> Nat] /\ staged' \in [Urls -> Nat \union {Deleted}]
        /\ uncommitted' \in Nat /\ pc' \in {"save", "ack"}
    BY <1>0, <1>11, CommittedType DEF CommitIndex, TypeInv, TypeOK
  <2> QED BY <1>11, <2>1 DEF CommitIndex, TypeInv, TypeOK, Bounded, engine, engineDisk,
                         engineMemory, bounds
<1>12. CASE CommitFails
  <2>1. staged' \in [Urls -> Nat \union {Deleted}]
    BY <1>0, <1>12 DEF CommitFails, TypeInv, TypeOK
  <2> QED BY <1>12, <2>1 DEF CommitFails, Fault, TypeInv, TypeOK, Bounded, engine, engineDisk,
                         engineMemory, appDisk
<1>13. CASE SaveCursor
  <2>1. cursor' \in Nat /\ cursorFile' \in Nat /\ faults' \in Nat
    BY <1>13 DEF SaveCursor, Fault, TypeInv, TypeOK
  <2> QED BY <1>13, <2>1 DEF SaveCursor, TypeInv, TypeOK, Bounded, engine, engineDisk,
                         engineMemory
<1>14. CASE SendAck
  <2>1. /\ acks' = acks \union {pendingSeq} \/ acks' = acks
        /\ faults' = faults \/ faults' = faults + 1
    BY <1>14 DEF SendAck, Fault
  <2>2. acks' \subseteq Nat /\ faults' \in Nat
    <3>1. acks \subseteq Nat /\ pendingSeq \in Nat /\ faults \in Nat
      BY DEF TypeInv, TypeOK
    <3>2. acks' \subseteq Nat
      BY <2>1, <3>1
    <3>3. faults' \in Nat
      BY <2>1, <3>1
    <3> QED BY <3>2, <3>3
  <2> QED BY <1>14, <2>2 DEF SendAck, TypeInv, TypeOK, Bounded, engineDisk, appDisk
<1>15. CASE FinalCommit
  <2>1. /\ index' \in [Urls -> Nat] /\ staged' \in [Urls -> Nat \union {Deleted}]
        /\ uncommitted' \in Nat
    BY <1>0, <1>15, CommittedType DEF FinalCommit, TypeInv, TypeOK
  <2>2. exiting' \in BOOLEAN
    BY <1>15, Zenon DEF FinalCommit
  <2> QED BY <1>15, <2>1, <2>2 DEF FinalCommit, TypeInv, TypeOK, Bounded, engine, engineDisk,
                         engineMemory, bounds
<1>16. CASE AppRestart
  <2>1. exiting' \in BOOLEAN
    BY <1>16, Zenon DEF AppRestart
  <2>2. TypeOK'
    BY <1>0, <1>16, <2>1
    DEF AppRestart, TypeInv, TypeOK, engine, engineDisk, engineMemory, appDisk
  <2>3. Bounded'
    BY <1>16 DEF AppRestart, TypeInv, Bounded, engine, engineDisk, engineMemory
  <2> QED BY <1>16, <2>2, <2>3, FS_EmptySet
          DEF AppRestart, TypeInv, engine, engineDisk, engineMemory
<1>17. CASE UNCHANGED vars
  BY <1>17 DEF vars, engineDisk, engineMemory, appDisk, appMemory, bounds, TypeInv, TypeOK, Bounded
<1> QED
  BY <1>1, <1>2, <1>3, <1>4, <1>5, <1>6, <1>7, <1>9, <1>10, <1>11, <1>12, <1>13, <1>14, <1>15,
     <1>16, <1>17 DEF Next, IngestStep

\* Every variable of the handoff keeps its type, with or without stale counters.
THEOREM TypeCorrect == Spec => []TypeOK
<1>1. Spec => []TypeInv
  BY InitTypeInv, NextTypeInv, PTL DEF Spec
<1>2. TypeInv => TypeOK
  BY DEF TypeInv
<1> QED BY <1>1, <1>2, PTL

-----------------------------------------------------------------------------
(* The inductive invariant.                                                *)

\* Documents are numbered in the order they are made, and applied in that order.
Order ==
  /\ \A d \in published \union batch : d.seq <= tail /\ 1 <= d.id /\ d.id <= made
  /\ \A d, e \in published \union batch : d.seq <= e.seq => d.id <= e.id
  /\ \A d \in published, b \in batch : d.seq < b.seq

\* What lies past the cursor is still in the spool; acks stay behind the cursor.
Handout ==
  /\ spool \subseteq published
  /\ cursorFile = cursor
  /\ \A d \in published : d.seq > cursor => d \in spool
  /\ \A n \in acks : n <= cursor
  /\ cursor <= pendingSeq
  /\ pendingSeq <= tail
  /\ \A b \in batch : b.seq > pendingSeq
  /\ pc = "ack" => pendingSeq = cursor

\* The next read covers all that has been staged since the last commit, and the read
\* that is about to be staged does too.
Reading ==
  /\ \A d \in published : cursor < d.seq /\ d.seq <= pendingSeq => d \in SpoolRead(cursor)
  /\ resp \subseteq SpoolRead(cursor)
  /\ pc # "stage" => resp = {}
  /\ pc = "stage" =>
       \A d \in published :
         /\ cursor < d.seq
         /\ d.seq <= pendingSeq \/ \E e \in resp : d.seq <= e.seq
         => d \in resp

\* A document is covered if the index holds its version, or a newer document of the
\* page comes after n.
Covered(d, n) == index[d.url] >= d.id \/ \E e \in published : e.url = d.url /\ e.seq > n

Writer ==
  /\ \A u \in Urls : staged[u] # 0 => \E e \in published : e.url = u /\ e.seq > cursor
  /\ pc = "save" => staged = Nothing
  /\ pc = "commit" =>
       \A d \in published : cursor < d.seq /\ d.seq <= pendingSeq => Committed[d.url] >= d.id
  /\ \A d \in published : d.seq <= cursor => Covered(d, cursor)
  /\ pc = "save" => \A d \in published : d.seq <= pendingSeq => Covered(d, pendingSeq)

Inv == TypeInv /\ Order /\ Handout /\ Reading /\ Writer

LEMMA Types ==
  ASSUME TypeInv
  PROVE  /\ \A d \in published \union batch \union spool \union resp :
              d.seq \in Nat /\ d.id \in Nat /\ d.url \in Urls
         /\ tail \in Nat /\ made \in Nat /\ cursor \in Nat /\ pendingSeq \in Nat
         /\ acks \subseteq Nat
  BY DEF TypeInv, TypeOK, DocType

LEMMA InitInv == Init => Inv
<1> SUFFICES ASSUME Init PROVE Inv
  OBVIOUS
<1>1. Order /\ Handout
  BY DEF Init, Order, Handout
<1>2. Reading
  BY DEF Init, Reading
<1>3. Writer
  BY DEF Init, Writer, Nothing
<1> QED BY <1>1, <1>2, <1>3, InitTypeInv DEF Inv

LEMMA NextOrder ==
  ASSUME ~StaleCounters, Inv, [Next]_vars
  PROVE  Order'
<1> USE Types DEF Inv
<1>1. ASSUME NEW u \in Urls, MakeDoc(u) PROVE Order'
  <2> DEFINE x == [seq |-> tail + 1, url |-> u, id |-> made + 1]
  <2>1. x.seq = tail + 1 /\ x.id = made + 1
    OBVIOUS
  <2>2. batch' = batch \union {x} /\ made' = made + 1 /\ tail' = tail + 1
        /\ published' = published
    BY <1>1 DEF MakeDoc
  <2> HIDE DEF x
  <2>3. \A d \in published' \union batch' : d.seq <= tail' /\ 1 <= d.id /\ d.id <= made'
    BY <2>1, <2>2 DEF Order
  <2>4. ASSUME NEW d \in published' \union batch', NEW e \in published' \union batch',
               d.seq <= e.seq
        PROVE  d.id <= e.id
    <3>1. CASE d = x
      BY <2>1, <2>2, <2>4, <3>1 DEF Order
    <3>2. CASE e = x
      BY <2>1, <2>2, <2>4, <3>2 DEF Order
    <3>3. CASE d # x /\ e # x
      BY <2>2, <2>4, <3>3 DEF Order
    <3> QED BY <3>1, <3>2, <3>3
  <2>5. \A d \in published', b \in batch' : d.seq < b.seq
    BY <2>1, <2>2 DEF Order
  <2> QED BY <2>3, <2>4, <2>5 DEF Order
<1>2. CASE ApplyDocs
  BY <1>2 DEF ApplyDocs, Order
<1>3. CASE EngineRestart
  <2>1. tail' = tail /\ batch' = {} /\ published' = published /\ made' = made
    BY <1>3 DEF EngineRestart
  <2> QED BY <2>1 DEF Order
<1>4. ASSUME UNCHANGED <<tail, batch, made, published>> PROVE Order'
  BY <1>4 DEF Order
<1>5. CASE PersistCounters \/ IngestStep \/ CommitFails \/ FinalCommit \/ AppRestart
           \/ (\E n \in acks : SpoolAck(n)) \/ (\E d \in resp : StageFails(d)) \/ UNCHANGED vars
  <2>1. UNCHANGED <<tail, batch, made, published>>
    BY <1>5 DEF PersistCounters, IngestStep, Ask, IdleCommit, Stage, CommitIndex, SaveCursor,
                SendAck, CommitFails, FinalCommit, AppRestart, SpoolAck, StageFails, vars,
                engine, engineMemory
  <2> QED BY <1>4, <2>1
<1> QED BY <1>1, <1>2, <1>3, <1>5 DEF Next

LEMMA NextHandout ==
  ASSUME ~StaleCounters, ~CursorWriteFails, Inv, [Next]_vars
  PROVE  Handout'
<1> USE Types DEF Inv
<1>1. ASSUME NEW u \in Urls, MakeDoc(u) PROVE Handout'
  BY <1>1 DEF MakeDoc, Handout, engineDisk, app, appDisk, appMemory
<1>2. CASE ApplyDocs
  <2>1. \A d \in spool : \A b \in batch : b.seq # d.seq
    BY DEF Handout, Order
  <2>2. spool' = spool \union batch /\ published' = published \union batch /\ batch' = {}
    BY <1>2, <2>1 DEF ApplyDocs
  <2> QED BY <1>2, <2>2 DEF ApplyDocs, Handout, app, appDisk, appMemory
<1>3. ASSUME NEW n \in acks, SpoolAck(n) PROVE Handout'
  <2>1. spool' \subseteq spool /\ \A d \in spool : d.seq > cursor => d \in spool'
    BY <1>3 DEF SpoolAck, DropUpTo, Handout
  <2> QED BY <1>3, <2>1 DEF SpoolAck, Handout, app, appDisk, appMemory
<1>4. CASE PersistCounters
  BY <1>4 DEF PersistCounters, Handout, engineMemory, app, appDisk, appMemory
<1>5. CASE EngineRestart
  BY <1>5 DEF EngineRestart, Handout, engineDisk, app, appDisk, appMemory
<1>6. CASE Ask \/ IdleCommit
  BY <1>6 DEF Ask, IdleCommit, Handout, engine, engineDisk, engineMemory, appDisk
<1>7. ASSUME NEW due \in BOOLEAN, Stage(due) PROVE Handout'
  <2>1. /\ resp \in SUBSET DocType
        /\ \A d \in resp : d.seq <= made
    BY DEF TypeInv, TypeOK, Bounded
  <2>2. pendingSeq' >= pendingSeq /\ pendingSeq' \in Nat
        /\ (pendingSeq' = pendingSeq \/ \E d \in resp : d.seq = pendingSeq')
    BY <1>7, <2>1, HighestIs DEF Stage
  <2>3. resp \subseteq published
    BY SpoolReadIs DEF Handout, Reading
  <2>4. pendingSeq' <= tail /\ \A b \in batch : b.seq > pendingSeq'
    BY <2>2, <2>3 DEF Handout, Order
  <2>5. cursor <= pendingSeq' /\ pc' # "ack"
    BY <1>7, <2>2 DEF Handout, Stage
  <2> QED BY <1>7, <2>4, <2>5 DEF Stage, Handout, engine, engineDisk, engineMemory, appDisk
<1>8. ASSUME NEW d \in resp, StageFails(d) PROVE Handout'
  BY <1>8 DEF StageFails, Handout, engine, engineDisk, engineMemory, appDisk
<1>9. CASE CommitIndex
  BY <1>9 DEF CommitIndex, Handout, engine, engineDisk, engineMemory
<1>10. CASE CommitFails
  BY <1>10 DEF CommitFails, Handout, engine, engineDisk, engineMemory, appDisk
<1>11. CASE SaveCursor
  <2>1. cursor' = pendingSeq /\ cursorFile' = pendingSeq /\ pendingSeq' = pendingSeq
    BY <1>11 DEF SaveCursor, Handout
  <2> QED BY <1>11, <2>1 DEF SaveCursor, Handout, engine, engineDisk, engineMemory
<1>12. CASE SendAck
  <2>1. pendingSeq = cursor /\ pendingSeq' = cursor /\ acks' \subseteq acks \union {cursor}
        /\ pc' = "ask"
    BY <1>12 DEF SendAck, Handout
  <2> QED BY <1>12, <2>1 DEF SendAck, Handout, engineDisk, appDisk
<1>13. CASE FinalCommit
  BY <1>13 DEF FinalCommit, Handout, engine, engineDisk, engineMemory
<1>14. CASE AppRestart
  BY <1>14 DEF AppRestart, Handout, engine, engineDisk, engineMemory, appDisk
<1>15. CASE UNCHANGED vars
  BY <1>15 DEF vars, engineDisk, engineMemory, appDisk, appMemory, Handout
<1> QED
  BY <1>1, <1>2, <1>3, <1>4, <1>5, <1>6, <1>7, <1>8, <1>9, <1>10, <1>11, <1>12, <1>13, <1>14,
     <1>15 DEF Next, IngestStep

\* What a read returns does not change while documents are added behind it and dropped
\* up to the cursor.
LEMMA ReadStable ==
  ASSUME NEW d \in SpoolRead(cursor), d \in spool', cursor' = cursor,
         {e \in spool' : cursor < e.seq /\ e.seq < d.seq}
           = {e \in spool : cursor < e.seq /\ e.seq < d.seq}
  PROVE  d \in SpoolRead(cursor)'
  BY DEF SpoolRead

\* A read has no gaps.
LEMMA ReadClosed ==
  ASSUME TypeInv, NEW d \in spool, NEW e \in SpoolRead(cursor), cursor < d.seq, d.seq <= e.seq
  PROVE  d \in SpoolRead(cursor)
<1> DEFINE before(x) == {y \in spool : cursor < y.seq /\ y.seq < x.seq}
<1>1. e \in spool /\ Cardinality(before(e)) < ReadMax
  BY DEF SpoolRead
<1>2. before(d) \subseteq before(e) /\ IsFiniteSet(before(e)) /\ IsFiniteSet(before(d))
  <2>1. \A y \in spool : y.seq < d.seq => y.seq < e.seq
    BY <1>1, Types
  <2>2. IsFiniteSet(before(e)) /\ IsFiniteSet(before(d))
    BY FS_Subset DEF TypeInv
  <2> QED BY <2>1, <2>2
<1>3. Cardinality(before(d)) <= Cardinality(before(e))
  BY <1>2, FS_Subset
<1>4. Cardinality(before(d)) \in Nat /\ Cardinality(before(e)) \in Nat /\ ReadMax \in Nat
  BY <1>2, FS_CardinalityType, SizesAssumption
<1>5. Cardinality(before(d)) < ReadMax
  <2> HIDE DEF before
  <2> QED BY <1>1, <1>3, <1>4
<1> QED BY <1>5 DEF SpoolRead

LEMMA NextReading ==
  ASSUME ~StaleCounters, ~CursorWriteFails, Inv, [Next]_vars
  PROVE  Reading'
<1> USE Types DEF Inv
<1>0. /\ spool \subseteq published
      /\ \A d \in SpoolRead(cursor) : d \in spool /\ d.seq > cursor
  BY SpoolReadIs DEF Handout
<1>1. ASSUME UNCHANGED <<spool, published, cursor, pendingSeq, resp, pc>> PROVE Reading'
  BY <1>1 DEF Reading, SpoolRead
<1>2. CASE ApplyDocs
  <2>1. spool' = spool \union batch /\ published' = published \union batch
        /\ UNCHANGED <<cursor, pendingSeq, resp, pc>>
    BY <1>2 DEF ApplyDocs, Handout, Order, app, appMemory
  <2>2. ASSUME NEW d \in SpoolRead(cursor) PROVE d \in SpoolRead(cursor)'
    <3>1. \A b \in batch : ~(b.seq < d.seq)
      BY <1>0 DEF Order
    <3>2. {e \in spool' : cursor < e.seq /\ e.seq < d.seq}
            = {e \in spool : cursor < e.seq /\ e.seq < d.seq}
      BY <2>1, <3>1
    <3> QED BY <1>0, <2>1, <3>2, ReadStable
  <2>3. \A b \in batch : ~(b.seq <= pendingSeq) /\ \A e \in resp : ~(b.seq <= e.seq)
    BY <1>0 DEF Handout, Order, Reading
  <2>4. \A d \in published' : cursor < d.seq /\ d.seq <= pendingSeq => d \in SpoolRead(cursor)'
    BY <2>1, <2>2, <2>3 DEF Reading
  <2>5. resp \subseteq SpoolRead(cursor)'
    BY <2>2 DEF Reading
  <2> QED BY <2>1, <2>3, <2>4, <2>5 DEF Reading
<1>3. ASSUME NEW n \in acks, SpoolAck(n) PROVE Reading'
  <2>1. /\ spool' \subseteq spool /\ \A d \in spool : d.seq > cursor => d \in spool'
        /\ UNCHANGED <<published, cursor, pendingSeq, resp, pc>>
    BY <1>3 DEF SpoolAck, DropUpTo, Handout, app, appMemory
  <2>2. ASSUME NEW d \in SpoolRead(cursor) PROVE d \in SpoolRead(cursor)'
    <3>1. {e \in spool' : cursor < e.seq /\ e.seq < d.seq}
            = {e \in spool : cursor < e.seq /\ e.seq < d.seq}
      BY <1>0, <2>1
    <3> QED BY <1>0, <2>1, <3>1, ReadStable
  <2> QED BY <2>1, <2>2 DEF Reading
<1>4. CASE Ask
  <2>1. /\ resp' = SpoolRead(cursor)
        /\ UNCHANGED <<spool, published, cursor, pendingSeq>>
    BY <1>4 DEF Ask, engine, engineDisk, engineMemory
  <2>2. ASSUME NEW d \in published, cursor < d.seq,
               d.seq <= pendingSeq \/ \E e \in SpoolRead(cursor) : d.seq <= e.seq
        PROVE  d \in SpoolRead(cursor)
    BY <2>2, ReadClosed DEF Handout, Reading
  <2>3. SpoolRead(cursor)' = SpoolRead(cursor)
    BY <2>1 DEF SpoolRead
  <2>4. pc' = "stage"
    BY <1>4 DEF Ask
  <2> QED BY <2>1, <2>2, <2>3, <2>4 DEF Reading
<1>5. ASSUME NEW due \in BOOLEAN, Stage(due) PROVE Reading'
  <2>1. /\ resp \in SUBSET DocType
        /\ \A d \in resp : d.seq <= made
    BY DEF TypeInv, TypeOK, Bounded
  <2>2. pendingSeq' \in Nat
        /\ (pendingSeq' = pendingSeq \/ \E d \in resp : d.seq = pendingSeq')
    BY <1>5, <2>1, HighestIs DEF Stage
  <2>3. /\ UNCHANGED <<spool, published, cursor>> /\ resp' = {} /\ pc' # "stage" /\ pc = "stage"
    BY <1>5 DEF Stage, engine, engineDisk, engineMemory
  <2>4. \A d \in published : cursor < d.seq /\ d.seq <= pendingSeq' => d \in SpoolRead(cursor)
    BY <2>2, <2>3 DEF Reading
  <2>5. SpoolRead(cursor)' = SpoolRead(cursor)
    BY <2>3 DEF SpoolRead
  <2> QED BY <2>3, <2>4, <2>5 DEF Reading
<1>6. ASSUME UNCHANGED <<spool, published, cursor>>, resp' = {}, pc' # "stage",
             pendingSeq' = pendingSeq \/ pendingSeq' = cursor
      PROVE  Reading'
  <2>1. SpoolRead(cursor)' = SpoolRead(cursor)
    BY <1>6 DEF SpoolRead
  <2> QED BY <1>6, <2>1 DEF Reading
<1>7. CASE IdleCommit \/ CommitIndex \/ CommitFails \/ SendAck
           \/ AppRestart \/ (\E d \in resp : StageFails(d))
  <2>1. /\ UNCHANGED <<spool, published, cursor>> /\ resp' = {} /\ pc' # "stage"
        /\ pendingSeq' = pendingSeq \/ pendingSeq' = cursor
    BY <1>7 DEF IdleCommit, CommitIndex, CommitFails, SendAck, AppRestart, StageFails,
                Reading, Handout, engine, engineDisk, engineMemory
  <2> QED BY <1>6, <2>1
<1>8. CASE SaveCursor
  <2>1. /\ UNCHANGED <<spool, published>> /\ resp' = {} /\ pc' # "stage"
        /\ cursor' = pendingSeq /\ pendingSeq' = pendingSeq
    BY <1>8 DEF SaveCursor, Handout, Reading, engine, engineDisk, engineMemory
  <2> QED BY <2>1 DEF Reading
<1>9. CASE (\E u \in Urls : MakeDoc(u)) \/ PersistCounters \/ EngineRestart \/ FinalCommit
           \/ UNCHANGED vars
  BY <1>1, <1>9 DEF MakeDoc, PersistCounters, EngineRestart, FinalCommit, vars,
                    engine, engineDisk, engineMemory, app, appMemory
<1> QED
  BY <1>2, <1>3, <1>4, <1>5, <1>7, <1>8, <1>9 DEF Next, IngestStep

\* What a commit of the writer would show.
LEMMA CommittedIs ==
  ASSUME NEW u \in Urls
  PROVE  /\ staged[u] = 0 => Committed[u] = index[u]
         /\ staged[u] # 0 /\ staged[u] # Deleted => Committed[u] = staged[u]
  BY DEF Committed, Deleted

\* A commit keeps everything up to the cursor covered.
LEMMA CommitCovers ==
  ASSUME Inv, index' = Committed, staged' = Nothing, UNCHANGED <<published, cursor, pendingSeq>>
  PROVE  /\ \A d \in published : d.seq <= cursor => Covered(d, cursor)'
         /\ \A u \in Urls : staged'[u] = 0
         /\ Committed' = Committed
<1>1. ASSUME NEW d \in published, d.seq <= cursor PROVE Covered(d, cursor)'
  <2>1. d.url \in Urls
    BY Types DEF Inv
  <2>2. CASE staged[d.url] = 0
    <3>1. index'[d.url] = index[d.url]
      BY <2>1, <2>2, CommittedIs
    <3> QED BY <1>1, <3>1 DEF Inv, Writer, Covered
  <2>3. CASE staged[d.url] # 0
    BY <2>1, <2>3 DEF Inv, Writer, Covered
  <2> QED BY <2>2, <2>3
<1>2. \A u \in Urls : staged'[u] = 0
  BY DEF Nothing
<1>3. \A u \in Urls : Committed'[u] = index'[u]
  BY <1>2 DEF Committed, Deleted
<1>4. /\ Committed = [u \in Urls |-> Committed[u]]
      /\ Committed' = [u \in Urls |-> Committed'[u]]
  BY DEF Committed
<1> QED BY <1>1, <1>2, <1>3, <1>4

LEMMA NextWriter ==
  ASSUME ~StaleCounters, ~CursorWriteFails, Inv, [Next]_vars
  PROVE  Writer'
<1> USE Types DEF Inv
<1>0. /\ resp \subseteq published
      /\ \A d \in resp : d.seq > cursor
      /\ \A d \in resp : d.seq <= made
      /\ resp \in SUBSET DocType
  BY SpoolReadIs DEF Handout, Reading, TypeInv, TypeOK, Bounded
<1>1. ASSUME UNCHANGED <<published, cursor, pendingSeq, index, staged>>,
             pc' = pc \/ pc' \in {"ask", "stage", "ack"}
      PROVE  Writer'
  <2>1. Committed' = Committed
    BY <1>1 DEF Committed
  <2> QED BY <1>1, <2>1 DEF Writer, Covered
<1>2. CASE ApplyDocs
  <2>1. /\ published' = published \union batch
        /\ UNCHANGED <<cursor, pendingSeq, index, staged, pc>>
    BY <1>2 DEF ApplyDocs, app, appDisk, appMemory
  <2>2. \A b \in batch : ~(b.seq <= pendingSeq) /\ ~(b.seq <= cursor)
    BY DEF Handout
  <2>3. Committed' = Committed
    BY <2>1 DEF Committed
  <2>4. \A d, n : Covered(d, n) => Covered(d, n)'
    BY <2>1 DEF Covered
  <2>5. \A d \in published' : d.seq <= cursor => Covered(d, cursor)'
    BY <2>1, <2>2, <2>4 DEF Writer
  <2>6. pc = "save" => \A d \in published' : d.seq <= pendingSeq => Covered(d, pendingSeq)'
    BY <2>1, <2>2, <2>4 DEF Writer
  <2>7. pc = "commit" => \A d \in published' : cursor < d.seq /\ d.seq <= pendingSeq
                                               => Committed[d.url] >= d.id
    BY <2>1, <2>2 DEF Writer
  <2>8. \A u \in Urls : staged[u] # 0 => \E e \in published' : e.url = u /\ e.seq > cursor
    BY <2>1 DEF Writer
  <2> QED BY <2>1, <2>3, <2>5, <2>6, <2>7, <2>8 DEF Writer, Covered
<1>3. CASE IdleCommit
  <2>1. UNCHANGED <<published, cursor, pendingSeq, index, staged>> /\ pc' = "commit"
        /\ SpoolRead(cursor) = {}
    BY <1>3 DEF IdleCommit, engine, engineMemory, appDisk
  <2>2. \A d \in published : ~(cursor < d.seq /\ d.seq <= pendingSeq)
    BY <2>1 DEF Reading
  <2> QED BY <2>1, <2>2 DEF Writer, Covered
<1>4. ASSUME NEW due \in BOOLEAN, Stage(due) PROVE Writer'
  <2>1. /\ staged' = Adding(resp) /\ pendingSeq' = Highest(resp, pendingSeq)
        /\ UNCHANGED <<published, cursor, index>> /\ pc = "stage"
        /\ pc' \in {"commit", "ask"}
    BY <1>4 DEF Stage, engine, engineMemory, appDisk
  <2>2. pendingSeq' = pendingSeq \/ \E d \in resp : d.seq = pendingSeq'
    BY <1>0, <2>1, HighestIs
  <2>3. ASSUME NEW u \in Urls
        PROVE  \/ ~(\E d \in resp : d.url = u) /\ staged'[u] = staged[u]
               \/ \E d \in resp : /\ d.url = u /\ staged'[u] = d.id
                                  /\ \A e \in resp : e.url = u => e.seq <= d.seq
    BY <1>0, <2>1, AddingIs
  <2>4. ASSUME NEW u \in Urls, staged'[u] # 0
        PROVE  \E e \in published : e.url = u /\ e.seq > cursor
    BY <1>0, <2>3, <2>4 DEF Writer
  <2>5. ASSUME NEW d \in published, cursor < d.seq, d.seq <= pendingSeq'
        PROVE  Committed'[d.url] >= d.id
    <3>1. d \in resp
      BY <2>1, <2>2, <2>5 DEF Reading
    <3>2. PICK x \in resp : x.url = d.url /\ staged'[d.url] = x.id /\ d.seq <= x.seq
      BY <2>3, <3>1
    <3>3. d.id <= x.id /\ 1 <= x.id
      BY <1>0, <3>1, <3>2 DEF Order
    <3>4. staged'[d.url] # 0 /\ staged'[d.url] # Deleted
      BY <1>0, <3>2, <3>3 DEF Deleted
    <3>5. Committed'[d.url] = staged'[d.url]
      BY <3>4 DEF Committed, Deleted
    <3> QED BY <3>2, <3>3, <3>5
  <2>6. \A d \in published : d.seq <= cursor => Covered(d, cursor)'
    BY <2>1 DEF Writer, Covered
  <2> QED BY <2>1, <2>4, <2>5, <2>6 DEF Writer
<1>5. ASSUME NEW x \in resp, StageFails(x) PROVE Writer'
  <2> DEFINE docs == {e \in resp : e.seq < x.seq}
  <2>1. /\ staged' = [Adding(docs) EXCEPT ![x.url] = Deleted]
        /\ UNCHANGED <<published, cursor, index, pendingSeq>> /\ pc' = "ask"
    BY <1>5 DEF StageFails, engine, engineMemory, appDisk
  <2>2. docs \in SUBSET DocType /\ docs \subseteq resp /\ \A d \in docs : d.seq <= made
    BY <1>0
  <2> HIDE DEF docs
  <2>3. ASSUME NEW u \in Urls, staged'[u] # 0
        PROVE  \E e \in published : e.url = u /\ e.seq > cursor
    <3>1. CASE u = x.url
      BY <1>0, <3>1
    <3>2. CASE u # x.url
      <4>1. staged'[u] = Adding(docs)[u]
        BY <2>1, <3>2
      <4>2. Adding(docs)[u] = staged[u] \/ \E d \in docs : d.url = u
        BY <2>2, AddingIs
      <4> QED BY <1>0, <2>2, <2>3, <4>1, <4>2 DEF Writer
    <3> QED BY <3>1, <3>2
  <2> QED BY <2>1, <2>3 DEF Writer, Covered
<1>6. CASE CommitIndex
  <2>1. CASE uncommitted = 0 /\ pendingSeq <= cursor
    BY <1>1, <1>6, <2>1 DEF CommitIndex, engine, engineMemory
  <2>2. CASE ~(uncommitted = 0 /\ pendingSeq <= cursor)
    <3>1. /\ index' = Committed /\ staged' = Nothing /\ pc = "commit" /\ pc' = "save"
          /\ UNCHANGED <<published, cursor, pendingSeq>>
      BY <1>6, <2>2 DEF CommitIndex, engine, engineMemory
    <3>2. ASSUME NEW d \in published, d.seq <= pendingSeq PROVE Covered(d, pendingSeq)'
      <4>1. CASE d.seq > cursor
        BY <3>1, <3>2, <4>1 DEF Writer, Covered
      <4>2. CASE d.seq <= cursor
        <5>1. index'[d.url] >= d.id \/ \E e \in published : e.url = d.url /\ e.seq > cursor
          BY <3>1, <4>2, CommitCovers DEF Covered
        <5>2. ASSUME NEW e \in published, e.url = d.url, e.seq > cursor, e.seq <= pendingSeq
              PROVE  index'[d.url] >= d.id
          <6>1. Committed[d.url] >= e.id /\ Committed[d.url] \in Nat
            BY <3>1, <5>2, CommittedType DEF Writer
          <6>2. d.id <= e.id
            BY <4>2, <5>2 DEF Order
          <6> QED BY <3>1, <6>1, <6>2
        <5> QED BY <3>1, <5>1, <5>2 DEF Covered
      <4> QED BY <4>1, <4>2
    <3>3. /\ \A d \in published : d.seq <= cursor => Covered(d, cursor)'
          /\ \A u \in Urls : staged'[u] = 0
      BY <3>1, CommitCovers
    <3> QED BY <3>1, <3>2, <3>3 DEF Writer, Covered
  <2> QED BY <2>1, <2>2
<1>7. CASE CommitFails
  <2>1. /\ UNCHANGED <<published, cursor, index>> /\ pc' = "ask"
        /\ staged' \in {staged, Nothing}
    BY <1>7 DEF CommitFails, engine, engineMemory, appDisk
  <2>2. \A u \in Urls : staged'[u] # 0 => staged[u] # 0
    BY <2>1 DEF Nothing
  <2> QED BY <2>1, <2>2 DEF Writer, Covered
<1>8. CASE SaveCursor
  <2>1. /\ cursor' = pendingSeq /\ staged' = staged /\ staged = Nothing
        /\ UNCHANGED <<published, index>> /\ pc = "save" /\ pc' = "ack"
    BY <1>8 DEF SaveCursor, Handout, Writer, engine, engineMemory
  <2>2. \A u \in Urls : staged'[u] = 0
    BY <2>1 DEF Nothing
  <2> QED BY <2>1, <2>2 DEF Writer, Covered
<1>9. CASE SendAck
  <2>1. pendingSeq' = pendingSeq
    BY <1>9 DEF SendAck, Handout
  <2> QED BY <1>1, <1>9, <2>1 DEF SendAck, appDisk
<1>10. CASE FinalCommit
  <2>1. CASE uncommitted > 0
    <3>1. /\ index' = Committed /\ staged' = Nothing /\ pc' = pc
          /\ UNCHANGED <<published, cursor, pendingSeq>>
      BY <1>10, <2>1 DEF FinalCommit, engine, engineMemory
    <3>2. /\ \A d \in published : d.seq <= cursor => Covered(d, cursor)'
          /\ \A u \in Urls : staged'[u] = 0
          /\ Committed' = Committed
      BY <3>1, CommitCovers
    <3>3. ASSUME pc = "save", NEW d \in published, d.seq <= pendingSeq
          PROVE  Covered(d, pendingSeq)'
      <4>1. d.url \in Urls /\ staged[d.url] = 0
        BY <3>3 DEF Writer, Nothing
      <4>2. index'[d.url] = index[d.url]
        BY <3>1, <4>1, CommittedIs
      <4> QED BY <3>1, <3>3, <4>2 DEF Writer, Covered
    <3> QED BY <3>1, <3>2, <3>3 DEF Writer
  <2>2. CASE ~(uncommitted > 0)
    BY <1>1, <1>10, <2>2 DEF FinalCommit, engine, engineMemory
  <2> QED BY <2>1, <2>2
<1>11. CASE AppRestart
  <2>1. /\ cursor' = cursor /\ staged' = Nothing /\ UNCHANGED <<published, index>> /\ pc' = "ask"
    BY <1>11 DEF AppRestart, Handout, engine, engineMemory, appDisk
  <2>2. \A u \in Urls : staged'[u] = 0
    BY <2>1 DEF Nothing
  <2> QED BY <2>1, <2>2 DEF Writer, Covered
<1>12. CASE (\E u \in Urls : MakeDoc(u)) \/ (\E n \in acks : SpoolAck(n)) \/ PersistCounters
            \/ EngineRestart \/ Ask \/ UNCHANGED vars
  BY <1>1, <1>12 DEF MakeDoc, SpoolAck, PersistCounters, EngineRestart, Ask, vars,
                     engine, engineMemory, app, appDisk, appMemory
<1> QED
  BY <1>2, <1>3, <1>4, <1>5, <1>6, <1>7, <1>8, <1>9, <1>10, <1>11, <1>12 DEF Next, IngestStep

LEMMA NextInv == ~StaleCounters /\ ~CursorWriteFails /\ Inv /\ [Next]_vars => Inv'
  BY NextTypeInv, NextOrder, NextHandout, NextReading, NextWriter DEF Inv

LEMMA InvNoDocLost == Inv => NoDocLost
<1> SUFFICES ASSUME Inv, NEW d \in published
             PROVE  \/ index[d.url] >= d.id
                    \/ \E e \in spool : e.url = d.url /\ e.id >= d.id /\ e.seq > cursor
  BY DEF NoDocLost
<1> USE Types DEF Inv
<1>1. CASE d.seq > cursor
  BY <1>1 DEF Handout
<1>2. CASE d.seq <= cursor
  <2>1. index[d.url] >= d.id \/ \E e \in published : e.url = d.url /\ e.seq > cursor
    BY <1>2 DEF Writer, Covered
  <2>2. ASSUME NEW e \in published, e.url = d.url, e.seq > cursor
        PROVE  e \in spool /\ e.id >= d.id
    BY <1>2, <2>2 DEF Handout, Order
  <2> QED BY <2>1, <2>2
<1> QED BY <1>1, <1>2

\* No document is lost between the two processes, for any number of documents, read
\* and commit sizes, crashes, lost and late acknowledgements and failed commits, if the
\* engine's saved spool tail is current when it ends and the cursor file is written.
THEOREM NoDocumentLost ==
  ASSUME ~StaleCounters, ~CursorWriteFails
  PROVE  Spec => []NoDocLost
<1>1. Inv /\ [Next]_vars => Inv'
  BY NextInv
<1> QED BY <1>1, InitInv, InvNoDocLost, PTL DEF Spec

-----------------------------------------------------------------------------
(* The depth of the spool.                                                 *)

\* A sequence the app can name is one of a document that has been applied, so an ack
\* never reaches past the documents of a batch that is still being built.
Applied(n) == n <= tail /\ \A b \in batch : n < b.seq

\* Head and tail bracket the documents, which have a sequence each.
Bracketed ==
  /\ mHead <= head
  /\ \A d \in spool \union batch : head < d.seq /\ d.seq <= tail
  /\ \A d, e \in spool \union batch : d.seq = e.seq => d = e
  /\ Applied(head) /\ Applied(cursor) /\ Applied(cursorFile) /\ Applied(pendingSeq)
  /\ \A n \in acks : Applied(n)
  /\ \A d \in spool \union resp : Applied(d.seq)

LEMMA BracketedCovers == TypeInv /\ Bracketed => DepthCovers
<1> SUFFICES ASSUME TypeInv, Bracketed PROVE DepthCovers
  OBVIOUS
<1> DEFINE f == [d \in spool |-> d.seq]
<1>1. /\ head \in Nat /\ tail \in Nat /\ head <= tail
      /\ \A d \in spool : d.seq \in head + 1 .. tail
  BY Types DEF TypeInv, TypeOK, Bracketed, Applied
<1>2. f \in Injection(spool, head + 1 .. tail)
  BY <1>1 DEF Injection, IsInjective, Bracketed
<1>3. /\ IsFiniteSet(head + 1 .. tail)
      /\ Cardinality(head + 1 .. tail) = IF head + 1 > tail THEN 0 ELSE tail - (head + 1) + 1
  BY <1>1, FS_Interval
<1>4. Cardinality(spool) <= Cardinality(head + 1 .. tail)
  BY <1>2, <1>3, FS_Injection
<1>5. Cardinality(head + 1 .. tail) = tail - head
  BY <1>1, <1>3
<1>6. SpoolDepth = tail - head
  BY <1>1 DEF SpoolDepth
<1> QED BY <1>4, <1>5, <1>6 DEF DepthCovers

LEMMA InitBracketed == Init => Bracketed
  BY DEF Init, Bracketed, Applied

LEMMA NextBracketed ==
  ASSUME ~StaleCounters, TypeInv, Bracketed, [Next]_vars
  PROVE  Bracketed'
<1> USE Types
<1>0. /\ head \in Nat /\ mHead \in Nat /\ cursorFile \in Nat
      /\ resp \in SUBSET DocType /\ \A d \in resp : d.seq <= made
  BY DEF TypeInv, TypeOK, Bounded
<1>1. ASSUME NEW u \in Urls, MakeDoc(u) PROVE Bracketed'
  <2> DEFINE x == [seq |-> tail + 1, url |-> u, id |-> made + 1]
  <2>1. /\ batch' = batch \union {x} /\ tail' = tail + 1
        /\ UNCHANGED <<spool, mHead, head, cursor, cursorFile, pendingSeq, acks, resp>>
    BY <1>1 DEF MakeDoc, engineDisk, app, appDisk, appMemory
  <2>2. x.seq = tail + 1
    OBVIOUS
  <2> HIDE DEF x
  <2>3. \A n \in Nat : Applied(n) => Applied(n)'
    BY <2>1, <2>2 DEF Applied
  <2>4. \A d, e \in spool' \union batch' : d.seq = e.seq => d = e
    BY <2>1, <2>2 DEF Bracketed
  <2>5. \A d \in spool' \union batch' : head' < d.seq /\ d.seq <= tail'
    BY <1>0, <2>1, <2>2 DEF Bracketed, Applied
  <2> QED BY <1>0, <2>1, <2>3, <2>4, <2>5 DEF Bracketed
<1>2. CASE ApplyDocs
  <2>1. /\ spool' \subseteq spool \union batch /\ batch' = {}
        /\ UNCHANGED <<tail, mHead, head, cursor, cursorFile, pendingSeq, acks, resp>>
    BY <1>2 DEF ApplyDocs, app, appDisk, appMemory
  <2>2. \A n : Applied(n) => Applied(n)'
    BY <2>1 DEF Applied
  <2>3. \A d \in spool' : Applied(d.seq)'
    BY <2>1 DEF Bracketed, Applied
  <2> QED BY <2>1, <2>2, <2>3 DEF Bracketed
<1>3. ASSUME NEW n \in acks, SpoolAck(n) PROVE Bracketed'
  <2>1. /\ acks' \subseteq acks
        /\ UNCHANGED <<tail, batch, mHead, cursor, cursorFile, pendingSeq, resp>>
    BY <1>3 DEF SpoolAck, app, appDisk, appMemory
  <2>2. n <= tail /\ Applied(n) /\ n \in Nat
    BY DEF Bracketed, Applied
  <2>3. /\ spool' = IF n = 0 THEN spool ELSE {d \in spool : d.seq > n}
        /\ head' = IF n # 0 /\ n > head THEN n ELSE head
    <3>1. (IF n > tail THEN tail ELSE n) = n
      BY <2>2
    <3> QED BY <1>3, <3>1 DEF SpoolAck, DropUpTo
  <2>4. \A m : Applied(m) => Applied(m)'
    BY <2>1 DEF Applied
  <2>5. CASE n = 0
    BY <2>1, <2>3, <2>4, <2>5 DEF Bracketed
  <2>6. CASE n # 0
    <3>1. spool' \subseteq spool /\ \A d \in spool' : n < d.seq
      BY <2>3, <2>6
    <3>2. head' \in {n, head} /\ mHead <= head'
      BY <1>0, <2>2, <2>3 DEF Bracketed
    <3>3. \A d \in spool' \union batch' : head' < d.seq /\ d.seq <= tail'
      <4>1. \A d \in spool' \union batch' : n < d.seq
        BY <2>1, <2>2, <3>1 DEF Applied
      <4>2. \A d \in spool' \union batch' : head < d.seq /\ d.seq <= tail
        BY <2>1, <3>1 DEF Bracketed
      <4>3. tail' = tail /\ (head' = n \/ head' = head)
        BY <2>1, <3>2
      <4>4. CASE head' = n
        BY <4>1, <4>2, <4>3, <4>4
      <4>5. CASE head' = head
        BY <4>2, <4>3, <4>5
      <4> QED BY <4>3, <4>4, <4>5
    <3>4. Applied(head)'
      BY <2>1, <2>2, <3>2 DEF Bracketed, Applied
    <3>5. \A d, e \in spool' \union batch' : d.seq = e.seq => d = e
      BY <2>1, <3>1 DEF Bracketed
    <3> QED BY <2>1, <2>4, <3>1, <3>2, <3>3, <3>4, <3>5 DEF Bracketed
  <2> QED BY <2>5, <2>6
<1>4. CASE PersistCounters
  BY <1>0, <1>4 DEF PersistCounters, Bracketed, Applied, engineMemory, app, appDisk, appMemory
<1>5. CASE EngineRestart
  <2>1. /\ tail' = tail /\ head' = mHead /\ mHead' = mHead /\ batch' = {} /\ acks' = {}
        /\ UNCHANGED <<spool, cursor, cursorFile, pendingSeq, resp>>
    BY <1>5 DEF EngineRestart, engineDisk, app, appDisk, appMemory
  <2> QED BY <1>0, <2>1 DEF Bracketed, Applied
<1>6. ASSUME UNCHANGED <<spool, tail, head, mHead, batch>>,
             cursor' \in {cursor, pendingSeq, cursorFile},
             cursorFile' \in {cursorFile, pendingSeq},
             \/ pendingSeq' \in {pendingSeq, cursor, cursorFile}
             \/ \E d \in resp : d.seq = pendingSeq',
             \A n \in acks' : n \in acks \/ n = pendingSeq,
             resp' \subseteq spool \union resp
      PROVE  Bracketed'
  <2>1. \A n : Applied(n) => Applied(n)'
    BY <1>6 DEF Applied
  <2> QED BY <1>6, <2>1 DEF Bracketed
<1>7. CASE Ask
  BY <1>6, <1>7, SpoolReadIs DEF Ask, engine, engineDisk, engineMemory, appDisk
<1>8. ASSUME NEW due \in BOOLEAN, Stage(due) PROVE Bracketed'
  <2>1. pendingSeq' = pendingSeq \/ \E d \in resp : d.seq = pendingSeq'
    BY <1>0, <1>8, HighestIs DEF Stage
  <2> QED BY <1>6, <1>8, <2>1 DEF Stage, engine, engineDisk, engineMemory, appDisk
<1>9. CASE SaveCursor
  BY <1>6, <1>9 DEF SaveCursor, engine, engineDisk, engineMemory
<1>10. CASE SendAck
  BY <1>6, <1>10 DEF SendAck, engineDisk, appDisk
<1>11. CASE IdleCommit \/ CommitIndex \/ CommitFails \/ FinalCommit \/ AppRestart
            \/ UNCHANGED vars \/ \E d \in resp : StageFails(d)
  BY <1>6, <1>11 DEF IdleCommit, CommitIndex, CommitFails, FinalCommit, AppRestart, StageFails,
                     vars, engine, engineDisk, engineMemory, appDisk, appMemory
<1> QED
  BY <1>1, <1>2, <1>3, <1>4, <1>5, <1>7, <1>8, <1>9, <1>10, <1>11 DEF Next, IngestStep

\* DepthCovers: the dashboard never shows a depth below what waits in the spool, whatever
\* acks come late or twice and whatever is lost, if the engine's saved counters are current
\* when it ends.
THEOREM DepthIsCovered ==
  ASSUME ~StaleCounters
  PROVE  Spec => []DepthCovers
<1>1. TypeInv /\ Bracketed /\ [Next]_vars => (TypeInv /\ Bracketed)'
  BY NextTypeInv, NextBracketed
<1> QED BY <1>1, InitTypeInv, InitBracketed, BracketedCovers, PTL DEF Spec

-----------------------------------------------------------------------------
(* The handoff.                                                            *)

\* The index shows, and the writer holds, versions that the engine has published.
Versions ==
  /\ \A u \in Urls : index[u] # 0 => \E d \in published : d.url = u /\ d.id = index[u]
  /\ \A u \in Urls : staged[u] \notin {0, Deleted} =>
       \E d \in published : d.url = u /\ d.id = staged[u]

\* What a commit shows is a version the index had, one that was staged, or none.
LEMMA CommittedFrom ==
  ASSUME NEW u \in Urls
  PROVE  \/ Committed[u] = index[u]
         \/ Committed[u] = 0 /\ staged[u] # 0
         \/ Committed[u] = staged[u] /\ staged[u] \notin {0, Deleted}
<1>1. CASE staged[u] = 0
  BY <1>1, CommittedIs
<1>2. CASE staged[u] = Deleted
  <2>1. Committed[u] = 0
    BY <1>2 DEF Committed, Deleted
  <2> QED BY <1>2, <2>1 DEF Deleted
<1>3. CASE staged[u] # 0 /\ staged[u] # Deleted
  BY <1>3, CommittedIs
<1> QED BY <1>1, <1>2, <1>3

LEMMA InitVersions == Init => Versions
  BY DEF Init, Versions, Nothing

LEMMA NextVersions ==
  ASSUME Inv, Versions, [Next]_vars
  PROVE  Versions'
<1> USE Types DEF Inv
<1>0. /\ resp \subseteq published /\ resp \in SUBSET DocType
      /\ \A d \in resp : d.seq <= made
  BY SpoolReadIs DEF Handout, Reading, TypeInv, TypeOK, Bounded
<1>1. ASSUME published \subseteq published',
             index' \in {index, Committed}, staged' \in {staged, Nothing}
      PROVE  Versions'
  <2>1. ASSUME NEW u \in Urls, index'[u] # 0
        PROVE  \E d \in published' : d.url = u /\ d.id = index'[u]
    BY <1>1, <2>1, CommittedFrom DEF Versions
  <2>2. ASSUME NEW u \in Urls, staged'[u] \notin {0, Deleted}
        PROVE  \E d \in published' : d.url = u /\ d.id = staged'[u]
    BY <1>1, <2>2 DEF Versions, Nothing
  <2> QED BY <2>1, <2>2 DEF Versions
<1>2. ASSUME NEW docs \in SUBSET resp, NEW u \in Urls, Adding(docs)[u] \notin {0, Deleted}
      PROVE  \E d \in published : d.url = u /\ d.id = Adding(docs)[u]
  <2>1. docs \in SUBSET DocType /\ \A d \in docs : d.seq <= made
    BY <1>0
  <2>2. Adding(docs)[u] = staged[u] \/ \E d \in docs : d.url = u /\ Adding(docs)[u] = d.id
    BY <2>1, AddingIs
  <2> QED BY <1>0, <1>2, <2>2 DEF Versions
<1>3. ASSUME NEW due \in BOOLEAN, Stage(due) PROVE Versions'
  <2>1. staged' = Adding(resp) /\ published' = published /\ index' = index
    BY <1>3 DEF Stage, engine, engineMemory, appDisk
  <2> QED BY <1>2, <2>1 DEF Versions
<1>4. ASSUME NEW x \in resp, StageFails(x) PROVE Versions'
  <2> DEFINE docs == {e \in resp : e.seq < x.seq}
  <2>1. /\ staged' = [Adding(docs) EXCEPT ![x.url] = Deleted]
        /\ published' = published /\ index' = index
    BY <1>4 DEF StageFails, engine, engineMemory, appDisk
  <2>2. docs \in SUBSET resp /\ DOMAIN Adding(docs) = Urls
    BY DEF Adding
  <2> HIDE DEF docs
  <2>3. \A u \in Urls : staged'[u] = Deleted \/ staged'[u] = Adding(docs)[u]
    BY <2>1, <2>2
  <2> QED BY <1>2, <2>1, <2>2, <2>3 DEF Versions
<1>5. CASE ApplyDocs
  BY <1>1, <1>5 DEF ApplyDocs, app, appDisk, appMemory
<1>6. CASE CommitIndex \/ FinalCommit
  BY <1>1, <1>6 DEF CommitIndex, FinalCommit, engine, engineMemory
<1>7. CASE CommitFails \/ AppRestart
  BY <1>1, <1>7 DEF CommitFails, AppRestart, engine, engineMemory, appDisk
<1>8. CASE PersistCounters \/ EngineRestart \/ Ask \/ IdleCommit \/ SaveCursor \/ SendAck
           \/ UNCHANGED vars \/ (\E u \in Urls : MakeDoc(u)) \/ \E n \in acks : SpoolAck(n)
  BY <1>1, <1>8 DEF PersistCounters, EngineRestart, Ask, IdleCommit, SaveCursor, SendAck,
                    MakeDoc, SpoolAck, vars, engine, engineMemory, app, appDisk, appMemory
<1> QED BY <1>3, <1>4, <1>5, <1>6, <1>7, <1>8 DEF Next, IngestStep

\* What Handoff's owed stands for.
Owed == {[url |-> d.url, id |-> d.id] : d \in spool}

\* A version that was published is owed still, or is no newer than one that is owed
\* because it lies past the cursor.
LEMMA OwedCovers ==
  ASSUME Inv, NEW e \in published, e.seq > cursor, NEW d \in published, d.url = e.url
  PROVE  \E o \in Owed : o.url = e.url /\ o.id >= d.id /\ o.id >= e.id
<1> USE Types DEF Inv
<1>1. e \in spool
  BY DEF Handout
<1>2. CASE d.seq > cursor
  <2>1. d \in spool
    BY <1>2 DEF Handout
  <2>2. CASE d.id >= e.id
    <3>1. [url |-> d.url, id |-> d.id] \in Owed
      BY <2>1 DEF Owed
    <3> QED BY <2>2, <3>1
  <2>3. CASE e.id >= d.id
    <3>1. [url |-> e.url, id |-> e.id] \in Owed
      BY <1>1 DEF Owed
    <3> QED BY <2>3, <3>1
  <2> QED BY <2>2, <2>3
<1>3. CASE d.seq <= cursor
  <2>1. d.id <= e.id
    BY <1>3 DEF Order
  <2>2. [url |-> e.url, id |-> e.id] \in Owed
    BY <1>1 DEF Owed
  <2> QED BY <2>1, <2>2
<1> QED BY <1>2, <1>3

\* Of any two published versions of a page that has a document past the cursor, one that is
\* as new as both is owed.
LEMMA OwedCoversBoth ==
  ASSUME Inv, NEW e \in published, e.seq > cursor,
         NEW x \in published, x.url = e.url, NEW y \in published, y.url = e.url
  PROVE  \E o \in Owed : o.url = e.url /\ o.id >= x.id /\ o.id >= y.id
<1> USE Types DEF Inv
<1>1. CASE x.id >= y.id
  BY <1>1, OwedCovers DEF Owed
<1>2. CASE y.id >= x.id
  BY <1>2, OwedCovers DEF Owed
<1> QED BY <1>1, <1>2

\* A commit of the writer is a step of Handoff: every page it changes has a version past
\* the cursor.
LEMMA CommitIndexes ==
  ASSUME Inv, Versions, index' = Committed, spool' = spool
  PROVE  HO!Index
<1> USE Types DEF Inv
<1>1. DOMAIN index' = Urls
  BY DEF Committed
<1>2. ASSUME NEW u \in Urls, index'[u] # index[u]
      PROVE  \E o \in Owed : o.url = u /\ o.id >= index[u] /\ o.id >= index'[u]
  <2>1. PICK e \in published : e.url = u /\ e.seq > cursor
    BY <1>2, CommittedIs DEF Writer
  <2>2. ASSUME NEW n \in {index[u], index'[u]}
        PROVE  \E x \in published : x.url = u /\ x.id >= n
    <3>1. CASE n = 0
      BY <2>1, <3>1 DEF Order
    <3>2. CASE n # 0
      BY <2>2, <3>2, CommittedFrom DEF Versions
    <3> QED BY <3>1, <3>2
  <2>3. PICK x \in published : x.url = u /\ x.id >= index[u]
    BY <2>2
  <2>4. PICK y \in published : y.url = u /\ y.id >= index'[u]
    BY <2>2
  <2>5. PICK o \in Owed : o.url = u /\ o.id >= x.id /\ o.id >= y.id
    BY <2>1, <2>3, <2>4, OwedCoversBoth
  <2>6. o.id \in Nat /\ index[u] \in Nat /\ index'[u] \in Nat
    BY CommittedType DEF Owed, TypeInv, TypeOK
  <2> QED BY <2>3, <2>4, <2>5, <2>6
<1>3. \A u \in Urls :
        \/ index'[u] = index[u]
        \/ \E o \in Owed : o.url = u /\ o.id >= index[u] /\ o.id >= index'[u]
  BY <1>2
<1> QED BY <1>1, <1>3 DEF HO!Index, Owed

LEMMA StepHandsOff ==
  ASSUME Inv, Versions, [Next]_vars
  PROVE  [HO!Next]_(HO!vars)
<1> USE Types DEF Inv
<1>1. CASE ApplyDocs
  <2>1. spool \subseteq spool' /\ index' = index
    BY <1>1 DEF ApplyDocs, Handout, Order, app, appDisk
  <2> QED BY <2>1 DEF HO!Publish, HO!Next
<1>2. ASSUME NEW n \in acks, SpoolAck(n) PROVE HO!Next
  <2>1. /\ spool' \subseteq spool /\ index' = index /\ UNCHANGED <<published, cursor>>
        /\ \A d \in spool : d.seq > cursor => d \in spool'
    BY <1>2 DEF SpoolAck, DropUpTo, Handout, app, appDisk, appMemory
  <2>2. Owed' \subseteq Owed
    BY <2>1 DEF Owed
  <2>3. ASSUME NEW o \in Owed \ Owed'
        PROVE  index[o.url] >= o.id \/ \E p \in Owed' : p.url = o.url /\ p.id > o.id
    <3>1. PICK d \in spool : o = [url |-> d.url, id |-> d.id]
      BY DEF Owed
    <3>2. d \in published
      BY DEF Handout
    <3>3. CASE index[d.url] >= d.id
      BY <3>1, <3>3
    <3>4. ASSUME NEW e \in spool, e.url = d.url, e.id >= d.id, e.seq > cursor
          PROVE  \E p \in Owed' : p.url = o.url /\ p.id > o.id
      <4>1. [url |-> e.url, id |-> e.id] \in Owed'
        BY <2>1, <3>4 DEF Owed
      <4>2. e.id # d.id
        BY <2>3, <3>1, <3>4, <4>1
      <4> QED BY <3>1, <3>4, <4>1, <4>2
    <3> QED BY <3>2, <3>3, <3>4, InvNoDocLost DEF NoDocLost
  <2> QED BY <2>1, <2>2, <2>3 DEF HO!Discharge, HO!Next, Owed
<1>3. CASE CommitIndex \/ FinalCommit
  <2>1. spool' = spool /\ index' \in {index, Committed}
    BY <1>3 DEF CommitIndex, FinalCommit, engine, engineDisk
  <2>2. CASE index' = index
    BY <2>1, <2>2 DEF HO!vars
  <2>3. CASE index' = Committed
    BY <2>1, <2>3, CommitIndexes DEF HO!Next
  <2> QED BY <2>1, <2>2, <2>3
<1>4. CASE PersistCounters \/ EngineRestart \/ Ask \/ IdleCommit \/ SaveCursor \/ SendAck
           \/ CommitFails \/ AppRestart \/ UNCHANGED vars \/ (\E u \in Urls : MakeDoc(u))
           \/ (\E due \in BOOLEAN : Stage(due)) \/ \E d \in resp : StageFails(d)
  BY <1>4 DEF HO!vars, PersistCounters, EngineRestart, Ask, IdleCommit, SaveCursor, SendAck,
              CommitFails, AppRestart, MakeDoc, Stage, StageFails, vars, engine, engineDisk,
              app, appDisk
<1> QED BY <1>1, <1>2, <1>3, <1>4 DEF Next, IngestStep

\* The two processes implement the handoff for any number of documents, crashes, lost and
\* late acks and failed commits, under the conditions of NoDocumentLost: no step takes a
\* document off what is owed before the index has it, and the index falls back to an older
\* version only while the newer one is owed.
THEOREM HandoffImplemented ==
  ASSUME ~StaleCounters, ~CursorWriteFails
  PROVE  Spec => ImplementsHandoff
<1>1. Init => HO!Init
  BY DEF Init, HO!Init, Nothing
<1>2. Inv /\ Versions /\ [Next]_vars => (Inv /\ Versions)' /\ [HO!Next]_(HO!vars)
  BY NextInv, NextVersions, StepHandsOff
<1> QED BY <1>1, <1>2, InitInv, InitVersions, PTL DEF Spec, HO!Spec, ImplementsHandoff
=============================================================================
