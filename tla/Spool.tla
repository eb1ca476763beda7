-------------------------------- MODULE Spool --------------------------------
(***************************************************************************)
(* The document handoff between the two processes: the engine's spool d/   *)
(* (kv.go: the document part of Complete, SpoolRead, SpoolAck, the saved   *)
(* counters; api.go: /api/spool and /api/spool/ack) and the app's ingest   *)
(* loop (indexer.rs), which pulls documents past its cursor, stages them   *)
(* in the index writer, commits, saves the cursor next to the index and    *)
(* only then acknowledges.                                                 *)
(*                                                                         *)
(* Either process may end between any two actions and is started again.    *)
(* A request in flight may be lost; an acknowledgement whose sender gave   *)
(* up may still arrive.  Pebble and Tantivy are taken at their word: a     *)
(* commit is atomic and survives the process.                              *)
(***************************************************************************)
EXTENDS Integers, FiniteSets

CONSTANTS
  Urls,              \* the pages of the instance
  MaxDocs,           \* bound: documents made in a behaviour
  ReadMax,           \* documents per spool request ("n=1000")
  CommitDocs,        \* staged documents that force a commit (COMMIT_DOCS)
  MaxEngineExits,    \* bound: ends of the engine process
  MaxAppExits,       \* bound: ends of the app
  MaxFaults,         \* bound: lost acks, failed commits, failed batches
  StaleCounters,     \* may the engine end with a saved spoolTail that is behind?
  CursorWriteFails   \* may the write of the cursor file fail?

ASSUME SizesAssumption ==
  /\ MaxDocs \in Nat /\ ReadMax \in Nat \ {0} /\ CommitDocs \in Nat \ {0}
  /\ MaxEngineExits \in Nat /\ MaxAppExits \in Nat /\ MaxFaults \in Nat
ASSUME FlagsAssumption == StaleCounters \in BOOLEAN /\ CursorWriteFails \in BOOLEAN

VARIABLES
  \* the engine
  spool,             \* d/<seq>: documents [seq, url, id]
  tail, head,        \* spoolTail and spoolHead in memory
  mTail, mHead,      \* as saved under m/
  batch,             \* documents of the Complete call being built
  acks,              \* acknowledgements on their way to the engine
  \* the app
  index,             \* committed index: the id shown for each page, 0 for none
  cursorFile,        \* the saved ingest cursor
  cursor,            \* the cursor in memory
  staged,            \* added to the writer, not committed: page -> id, 0 or Deleted
  uncommitted,       \* how many documents that was
  pendingSeq,        \* highest sequence staged
  resp,              \* the batch of documents just received
  pc,                \* where the ingest loop is
  exiting,           \* the final commit at exit has been done
  \* bounds and history
  made, published, engineExits, appExits, faults

engineDisk   == <<spool, mTail, mHead>>
engineMemory == <<tail, head, batch, acks, made, published>>
appDisk      == <<index, cursorFile>>
appMemory    == <<cursor, staged, uncommitted, pendingSeq, resp, pc, exiting>>
bounds       == <<engineExits, appExits, faults>>
vars         == <<engineDisk, engineMemory, appDisk, appMemory, bounds>>

engine == <<engineDisk, engineMemory>>
app    == <<appDisk, appMemory>>

DocType == [seq : Nat, url : Urls, id : Nat]
Nothing == [u \in Urls |-> 0]
Deleted == -1

Init ==
  /\ spool = {} /\ tail = 0 /\ head = 0 /\ mTail = 0 /\ mHead = 0
  /\ batch = {} /\ acks = {}
  /\ index = Nothing /\ cursorFile = 0 /\ cursor = 0
  /\ staged = Nothing /\ uncommitted = 0 /\ pendingSeq = 0
  /\ resp = {} /\ pc = "ask" /\ exiting = FALSE
  /\ made = 0 /\ published = {} /\ engineExits = 0 /\ appExits = 0 /\ faults = 0

Fault == faults < MaxFaults /\ faults' = faults + 1

-----------------------------------------------------------------------------
(* The engine.                                                             *)

\* Complete numbers a page's document; a page fetched again has a new document.
MakeDoc(u) ==
  /\ made < MaxDocs
  /\ made' = made + 1
  /\ tail' = tail + 1
  /\ batch' = batch \union {[seq |-> tail + 1, url |-> u, id |-> made + 1]}
  /\ UNCHANGED <<engineDisk, head, acks, published, app, bounds>>

\* The batch is applied; a key already in the spool is overwritten.
ApplyDocs ==
  /\ batch # {}
  /\ spool' = {d \in spool : \A b \in batch : b.seq # d.seq} \union batch
  /\ published' = published \union batch
  /\ batch' = {}
  /\ UNCHANGED <<mTail, mHead, tail, head, acks, made, app, bounds>>

\* Mutated form of DropUpTo: the upper key of the range is the sequence itself.
DropBefore(seq) == {d \in spool : d.seq >= seq}

DropUpTo(seq) == {d \in spool : d.seq > seq}

\* SpoolAck, with the request's sequence clamped to what was written.
SpoolAck(n) ==
  LET seq == IF n > tail THEN tail ELSE n IN
  /\ n \in acks
  /\ acks' = acks \ {n}
  /\ spool' = IF n = 0 THEN spool ELSE DropUpTo(seq)
  /\ head' = IF n # 0 /\ seq > head THEN seq ELSE head
  /\ UNCHANGED <<mTail, mHead, tail, batch, made, published, app, bounds>>

PersistCounters ==
  /\ mTail' = tail /\ mHead' = head
  /\ UNCHANGED <<spool, engineMemory, app, bounds>>

\* The engine ends and is started again on the same store.  A clean exit saves the
\* counters last.
EngineRestart ==
  /\ engineExits < MaxEngineExits
  /\ engineExits' = engineExits + 1
  /\ StaleCounters \/ mTail = tail
  /\ tail' = mTail /\ head' = mHead
  /\ batch' = {} /\ acks' = {}
  /\ UNCHANGED <<engineDisk, made, published, app, appExits, faults>>

-----------------------------------------------------------------------------
(* The ingest loop.                                                        *)

\* Mutated form of SpoolRead: the lower key of the scan is one too high.
SpoolReadPastNext(after) ==
  {d \in spool : /\ d.seq > after + 1
                 /\ Cardinality({e \in spool : after + 1 < e.seq /\ e.seq < d.seq}) < ReadMax}

\* SpoolRead: the first ReadMax documents past a sequence.
SpoolRead(after) ==
  {d \in spool : /\ d.seq > after
                 /\ Cardinality({e \in spool : after < e.seq /\ e.seq < d.seq}) < ReadMax}

\* The request always starts from the committed cursor, so documents staged but
\* not committed are received, and staged, again.
Ask ==
  /\ pc = "ask"
  /\ resp' = SpoolRead(cursor)
  /\ resp' # {}
  /\ pc' = "stage"
  /\ UNCHANGED <<engine, appDisk, cursor, staged, uncommitted, pendingSeq, exiting, bounds>>

\* Nothing new, documents staged, and the commit interval is over.
IdleCommit ==
  /\ pc = "ask"
  /\ SpoolRead(cursor) = {}
  /\ uncommitted > 0
  /\ pc' = "commit"
  /\ UNCHANGED <<engine, appDisk, cursor, staged, uncommitted, pendingSeq, resp, exiting, bounds>>

\* Adding documents in order: the last one of a page replaces the others.
Adding(docs) ==
  [u \in Urls |->
     IF \E d \in docs : d.url = u
       THEN (CHOOSE d \in docs : d.url = u /\ \A e \in docs : e.url = u => e.seq <= d.seq).id
       ELSE staged[u]]

Highest(docs, least) ==
  CHOOSE n \in {least} \union {d.seq : d \in docs} :
    n >= least /\ \A d \in docs : d.seq <= n

\* Mutated form of Stage: the cursor moves when documents are staged.
StageAdvances(due) ==
  /\ pc = "stage"
  /\ staged' = Adding(resp)
  /\ uncommitted' = uncommitted + Cardinality(resp)
  /\ pendingSeq' = Highest(resp, pendingSeq)
  /\ cursor' = Highest(resp, pendingSeq)
  /\ pc' = IF uncommitted' >= CommitDocs \/ due THEN "commit" ELSE "ask"
  /\ resp' = {}
  /\ UNCHANGED <<engine, appDisk, exiting, bounds>>

\* add_batch, then a commit if enough is staged or the commit interval is over.
Stage(due) ==
  /\ pc = "stage"
  /\ staged' = Adding(resp)
  /\ uncommitted' = uncommitted + Cardinality(resp)
  /\ pendingSeq' = Highest(resp, pendingSeq)
  /\ pc' = IF uncommitted' >= CommitDocs \/ due THEN "commit" ELSE "ask"
  /\ resp' = {}
  /\ UNCHANGED <<engine, appDisk, cursor, exiting, bounds>>

\* add_batch fails on a document: those before it are in the writer, uncounted, and
\* so is the deletion of its page's old version.
StageFails(d) ==
  /\ pc = "stage"
  /\ Fault
  /\ staged' = [Adding({e \in resp : e.seq < d.seq}) EXCEPT ![d.url] = Deleted]
  /\ pc' = "ask"
  /\ resp' = {}
  /\ UNCHANGED <<engine, appDisk, cursor, uncommitted, pendingSeq, exiting, engineExits,
                 appExits>>

\* A commit of the index writer: what is staged becomes what search shows.
Committed ==
  [u \in Urls |-> CASE staged[u] = 0 -> index[u]
                    [] staged[u] = Deleted -> 0
                    [] OTHER -> staged[u]]

\* Mutated form of CommitIndex: the count is lowered by one commit's worth, not reset.
CommitUnderflow ==
  /\ pc = "commit"
  /\ IF uncommitted = 0 /\ pendingSeq <= cursor
       THEN UNCHANGED <<index, staged, uncommitted>> /\ pc' = "ack"
       ELSE /\ index' = Committed /\ staged' = Nothing
            /\ uncommitted' = uncommitted - CommitDocs /\ pc' = "save"
  /\ UNCHANGED <<engine, cursorFile, cursor, pendingSeq, resp, exiting, bounds>>

CommitIndex ==
  /\ pc = "commit"
  /\ IF uncommitted = 0 /\ pendingSeq <= cursor
       THEN UNCHANGED <<index, staged, uncommitted>> /\ pc' = "ack"
       ELSE index' = Committed /\ staged' = Nothing /\ uncommitted' = 0 /\ pc' = "save"
  /\ UNCHANGED <<engine, cursorFile, cursor, pendingSeq, resp, exiting, bounds>>

\* Mutated form of CommitFails: the error is not returned, the ack is sent.
CommitFailsAcked ==
  /\ pc = "commit"
  /\ Fault
  /\ staged' = Nothing
  /\ pc' = "ack"
  /\ UNCHANGED <<engine, appDisk, cursor, uncommitted, pendingSeq, resp, exiting,
                 engineExits, appExits>>

\* The commit fails: no ack.  The writer may or may not have kept the documents.
CommitFails ==
  /\ pc = "commit"
  /\ Fault
  /\ staged' \in {staged, Nothing}
  /\ pendingSeq' = cursor
  /\ pc' = "ask"
  /\ UNCHANGED <<engine, appDisk, cursor, uncommitted, resp, exiting, engineExits, appExits>>

\* The second half of commit: the cursor, in memory and in its file.
SaveCursor ==
  /\ pc = "save"
  /\ cursor' = IF pendingSeq > cursor THEN pendingSeq ELSE cursor
  /\ \/ /\ cursorFile' = IF pendingSeq > cursor THEN pendingSeq ELSE cursorFile
        /\ UNCHANGED faults
     \/ CursorWriteFails /\ Fault /\ UNCHANGED cursorFile
  /\ pc' = "ack"
  /\ UNCHANGED <<engine, index, staged, uncommitted, pendingSeq, resp, exiting,
                 engineExits, appExits>>

\* The acknowledgement leaves, or is lost.
SendAck ==
  /\ pc = "ack"
  /\ \/ acks' = acks \union {pendingSeq} /\ UNCHANGED faults
     \/ Fault /\ UNCHANGED acks
  /\ pendingSeq' = cursor
  /\ pc' = "ask"
  /\ UNCHANGED <<engineDisk, tail, head, batch, made, published, appDisk, cursor, staged,
                 uncommitted, resp, exiting, engineExits, appExits>>

\* On exit the app commits what is staged and leaves the cursor where it is.
FinalCommit ==
  /\ ~exiting
  /\ appExits < MaxAppExits
  /\ exiting' = TRUE
  /\ IF uncommitted > 0
       THEN index' = Committed /\ staged' = Nothing /\ uncommitted' = 0
       ELSE UNCHANGED <<index, staged, uncommitted>>
  /\ UNCHANGED <<engine, cursorFile, cursor, pendingSeq, resp, pc, bounds>>

\* The app ends, after the final commit or without it, and is started again.
AppRestart ==
  /\ appExits < MaxAppExits
  /\ appExits' = appExits + 1
  /\ cursor' = cursorFile /\ pendingSeq' = cursorFile
  /\ staged' = Nothing /\ uncommitted' = 0
  /\ resp' = {} /\ pc' = "ask" /\ exiting' = FALSE
  /\ UNCHANGED <<engine, appDisk, engineExits, faults>>

-----------------------------------------------------------------------------
IngestStep ==
  \/ Ask \/ IdleCommit
  \/ \E due \in BOOLEAN : Stage(due)
  \/ CommitIndex \/ SaveCursor \/ SendAck

Next ==
  \/ \E u \in Urls : MakeDoc(u)
  \/ ApplyDocs
  \/ \E n \in acks : SpoolAck(n)
  \/ PersistCounters
  \/ EngineRestart
  \/ IngestStep
  \/ \E d \in resp : StageFails(d)
  \/ CommitFails
  \/ FinalCommit
  \/ AppRestart

Spec == Init /\ [][Next]_vars

\* The loop runs as long as the app does, the engine answers, and an app that is
\* exiting exits.
Fairness ==
  /\ WF_vars(IngestStep)
  /\ WF_vars(\E n \in acks : SpoolAck(n))
  /\ WF_vars(exiting /\ AppRestart)

FairSpec == Spec /\ Fairness

-----------------------------------------------------------------------------
(* Properties.                                                             *)

\* Every variable holds a value of its kind.
TypeOK ==
  /\ spool \subseteq DocType /\ batch \subseteq DocType /\ resp \subseteq DocType
  /\ published \subseteq DocType
  /\ tail \in Nat /\ head \in Nat /\ mTail \in Nat /\ mHead \in Nat
  /\ acks \subseteq Nat
  /\ index \in [Urls -> Nat] /\ staged \in [Urls -> Nat \union {Deleted}]
  /\ cursorFile \in Nat /\ cursor \in Nat /\ pendingSeq \in Nat /\ uncommitted \in Nat
  /\ pc \in {"ask", "stage", "commit", "save", "ack"}
  /\ exiting \in BOOLEAN
  /\ made \in Nat /\ engineExits \in Nat /\ appExits \in Nat /\ faults \in Nat

\* A document in the spool is never lost: the index holds it or a newer version of
\* its page, or the spool still holds one past the saved cursor, where this or the
\* next run of the app will find it ("replays rather than loses pages").
NoDocLost ==
  \A d \in published :
    \/ index[d.url] >= d.id
    \/ \E e \in spool : e.url = d.url /\ e.id >= d.id /\ e.seq > cursor

\* The depth the dashboard shows is never less than what the spool holds.
SpoolDepth == IF tail < head THEN 0 ELSE tail - head
DepthCovers == Cardinality(spool) <= SpoolDepth

\* Every document of the spool is in the end in the index, in its own or a newer
\* version, and stays there.
EveryDocIndexed ==
  \A n \in 1 .. MaxDocs, u \in Urls :
    (\E d \in published : d.id = n /\ d.url = u) ~> [](index[u] >= n)

HO == INSTANCE Handoff WITH owed <- {[url |-> d.url, id |-> d.id] : d \in spool}

\* The two processes implement the handoff: replays, lost or late acks, failed commits
\* and restarts only ever make the index fall back to what the engine still owes.
ImplementsHandoff == HO!Spec
=============================================================================
