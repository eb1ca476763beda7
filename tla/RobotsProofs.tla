---------------------------- MODULE RobotsProofs ----------------------------
(***************************************************************************)
(* Proofs about Robots.tla for any hosts, workers and ways a site may      *)
(* answer, any 24 hours, any number of starts, changes and buttons; and    *)
(* about RobotsRules.tla for any file, patterns and paths (second half).   *)
(*                                                                         *)
(* RulesHaveReason holds of what is in use because it holds of everything  *)
(* that can come into use: the records and the rules a worker carries      *)
(* (Sourced below).  CopyAgeBounded rests on how much older than a copy    *)
(* its origin may be (BornBefore).                                         *)
(***************************************************************************)
EXTENDS Robots, RobotsRules, SequenceTheorems, WellFoundedInduction, TLAPS

-----------------------------------------------------------------------------
(* Types.                                                                  *)

LEMMA AgesType ==
  /\ TTL \in Nat /\ TTL > 0 /\ 0 \in Age
  /\ \A age \in Age : age \in Nat /\ Older(age) \in Age
<1>1. TTL \in Nat /\ TTL > 0
  BY TimeAssumption
<1> QED BY <1>1 DEF Age, Older

LEMMA AnswersType ==
  /\ \A a : FromAnswer(a) \in Rules
  /\ \A a : \A age \in Age : RecordOf(a, age) \in RecordType
  /\ \A rec \in RecordType : FromRecord(rec) \in Rules
  BY DEF FromAnswer, RecordOf, FromRecord, Rules, RecordType

LEMMA OutcomesType ==
  ASSUME TypeOK, NEW h \in Hosts, NEW r, NEW a \in Outcomes(h, r)
  PROVE  /\ a \in Answers \union {"down"}
         /\ a \in {"rules", "none", "trouble", "down"}
<1>1. site[h] \in Answers
  BY DEF TypeOK
<1>2. a = site[h] \/ a = "down"
  BY DEF Outcomes
<1> QED BY <1>1, <1>2, AnswerAssumption

LEMMA AbsentType == Absent \in EntryType
  BY DEF Absent, EntryType

LEMMA RunType == TypeOK => MaxRuns \in Nat /\ run \in Nat /\ run <= MaxRuns
  BY RunsAssumption DEF TypeOK

LEMMA InitType == Init => TypeOK
<1> SUFFICES ASSUME Init PROVE TypeOK
  OBVIOUS
<1>1. clearing \in BOOLEAN /\ overlapped \in BOOLEAN
  BY DEF Init
<1>2. entry \in [Hosts -> EntryType]
  BY AbsentType DEF Init
<1>3. run \in 0 .. MaxRuns
  BY RunsAssumption DEF Init
<1> QED BY <1>1, <1>2, <1>3 DEF Init, TypeOK

\* The steps that change one thing about one host.
LEMMA CrawlerType ==
  ASSUME TypeOK,
         \/ \E h \in Hosts : HostLocked(h) \/ PickNoRobots(h)
         \/ \E h \in Hosts, r \in Runs : PickRobots(h, r) \/ DropJob(h, r)
         \/ \E h \in Hosts, r \in Runs, w \in Workers, q \in Runs : Take(h, r, w, q)
         \/ \E w \in Workers : Worker(w)
  PROVE  TypeOK'
<1>t. /\ record \in [Hosts -> RecordType \union {NoRecord}] /\ entry \in [Hosts -> EntryType]
      /\ job \in [Workers -> JobType \union {Idle}]
      /\ gave \in [Hosts -> SUBSET (Answers \union {"down", "ignored"})]
      /\ waiting \in [Hosts \X Runs -> Nat]
  BY DEF TypeOK
<1>1. ASSUME NEW h \in Hosts, HostLocked(h) PROVE TypeOK'
  <2>1. [entry[h] EXCEPT !.state = "needRobots"] \in EntryType
    BY <1>t DEF EntryType
  <2>2. entry' = [entry EXCEPT ![h] = [entry[h] EXCEPT !.state = "needRobots"]]
    BY <1>1, <1>t DEF HostLocked
  <2>3. entry' \in [Hosts -> EntryType]
    BY <1>t, <2>1, <2>2
  <2> QED BY <1>1, <2>3 DEF HostLocked, TypeOK, discovery, control, lifecycle
<1>2. ASSUME NEW h \in Hosts, PickNoRobots(h) PROVE TypeOK'
  <2>1. [state |-> "ready", rules |-> "all"] \in EntryType
    BY DEF EntryType, Rules
  <2>2. entry' \in [Hosts -> EntryType]
    BY <1>2, <1>t, <2>1 DEF PickNoRobots
  <2>3. gave' \in [Hosts -> SUBSET (Answers \union {"down", "ignored"})]
    BY <1>2, <1>t DEF PickNoRobots
  <2> QED BY <1>2, <2>2, <2>3 DEF PickNoRobots, TypeOK, discovery, control, lifecycle
<1>3. ASSUME NEW h \in Hosts, NEW r \in Runs, PickRobots(h, r) PROVE TypeOK'
  <2>1. [entry[h] EXCEPT !.state = "fetchingRobots"] \in EntryType
    BY <1>t DEF EntryType
  <2>2. entry' \in [Hosts -> EntryType]
    BY <1>3, <1>t, <2>1 DEF PickRobots
  <2>3. <<h, r>> \in Hosts \X Runs
    OBVIOUS
  <2>4. waiting' \in [Hosts \X Runs -> Nat]
    BY <1>3, <1>t, <2>3 DEF PickRobots
  <2> QED BY <1>3, <2>2, <2>4 DEF PickRobots, TypeOK, discovery, control, lifecycle
<1>7. ASSUME NEW h \in Hosts, NEW r \in Runs, waiting[<<h, r>>] > 0,
             waiting' = [waiting EXCEPT ![<<h, r>>] = @ - 1]
      PROVE  waiting' \in [Hosts \X Runs -> Nat]
  <2>1. <<h, r>> \in Hosts \X Runs
    OBVIOUS
  <2>2. waiting[<<h, r>>] - 1 \in Nat
    BY <1>7, <1>t, <2>1
  <2> QED BY <1>7, <1>t, <2>1, <2>2
<1>8. ASSUME NEW h \in Hosts, NEW r \in Runs, NEW w \in Workers, NEW q \in Runs,
             Take(h, r, w, q)
      PROVE  TypeOK'
  <2>1. [host |-> h, run |-> q, step |-> "read", age |-> 0, rules |-> "nil"] \in JobType
    BY AgesType DEF JobType
  <2>2. job' \in [Workers -> JobType \union {Idle}]
    BY <1>8, <1>t, <2>1 DEF Take
  <2>3. waiting' \in [Hosts \X Runs -> Nat]
    BY <1>7, <1>8 DEF Take
  <2> QED BY <1>8, <2>2, <2>3 DEF Take, TypeOK, discovery, control, lifecycle
<1>9. ASSUME NEW h \in Hosts, NEW r \in Runs, DropJob(h, r) PROVE TypeOK'
  <2>1. waiting' \in [Hosts \X Runs -> Nat]
    BY <1>7, <1>9 DEF DropJob
  <2> QED BY <1>9, <2>1 DEF DropJob, TypeOK, discovery, control, lifecycle
<1>4. ASSUME NEW w \in Workers, FetchRobots(w) PROVE TypeOK'
  <2> DEFINE rec == record[job[w].host]
             next == IF Fresh(rec) THEN [job[w] EXCEPT !.step = "apply", !.rules = FromRecord(rec)]
                     ELSE [job[w] EXCEPT !.step = "fetch", !.age = 0]
  <2>1. job[w] \in JobType /\ job[w].host \in Hosts
    BY <1>4, <1>t DEF FetchRobots, JobType
  <2>2. Fresh(rec) => FromRecord(rec) \in Rules
    BY <1>t, <2>1, AnswersType DEF Fresh
  <2>3. job' = [job EXCEPT ![w] = next]
    BY <1>4, <1>t DEF FetchRobots
  <2> HIDE DEF rec
  <2>4. next \in JobType
    BY <2>1, <2>2, AgesType DEF JobType
  <2> HIDE DEF next
  <2>5. job' \in [Workers -> JobType \union {Idle}]
    BY <1>t, <2>3, <2>4
  <2> QED BY <1>4, <2>5 DEF FetchRobots, TypeOK, discovery, control, lifecycle
<1>5. ASSUME NEW w \in Workers, LoadRobots(w) PROVE TypeOK'
  <2>1. job[w] \in JobType /\ job[w].host \in Hosts /\ job[w].age \in Age
    BY <1>5, <1>t DEF LoadRobots, JobType
  <2>2. PICK a \in Outcomes(job[w].host, job[w].run) :
          /\ job' = [job EXCEPT ![w].step = "apply", ![w].rules = FromAnswer(a)]
          /\ record' = [record EXCEPT ![job[w].host] = RecordOf(a, job[w].age)]
          /\ gave' = [gave EXCEPT ![job[w].host] = @ \union {a}]
    BY <1>5 DEF LoadRobots
  <2>3. a \in Answers \union {"down", "ignored"}
    BY <2>1, OutcomesType
  <2>4. gave' \in [Hosts -> SUBSET (Answers \union {"down", "ignored"})]
    BY <1>t, <2>1, <2>2, <2>3
  <2>r. RecordOf(a, job[w].age) \in RecordType
    BY <2>1, AnswersType
  <2>5. record' \in [Hosts -> RecordType \union {NoRecord}]
    BY <1>t, <2>1, <2>2, <2>r
  <2>6. job' \in [Workers -> JobType \union {Idle}]
    <3> DEFINE next == [job[w] EXCEPT !.step = "apply", !.rules = FromAnswer(a)]
    <3>1. next \in JobType
      BY <2>1, AnswersType DEF JobType
    <3>2. job' = [job EXCEPT ![w] = next]
      BY <1>t, <2>2
    <3> HIDE DEF next
    <3> QED BY <1>t, <3>1, <3>2
  <2> QED BY <1>5, <2>4, <2>5, <2>6 DEF LoadRobots, TypeOK, discovery, control, lifecycle
<1>6. ASSUME NEW w \in Workers, ApplyRules(w) PROVE TypeOK'
  <2>1. job[w] \in JobType /\ job[w].host \in Hosts /\ job[w].rules \in Rules \union {"nil"}
    BY <1>6, <1>t DEF ApplyRules, JobType
  <2>2. [state |-> "ready", rules |-> job[w].rules] \in EntryType
    BY <2>1 DEF EntryType
  <2>3. entry' \in [Hosts -> EntryType]
    BY <1>6, <1>t, <2>1, <2>2 DEF ApplyRules
  <2>4. job' \in [Workers -> JobType \union {Idle}]
    BY <1>6, <1>t DEF ApplyRules
  <2> QED BY <1>6, <2>3, <2>4 DEF ApplyRules, TypeOK, discovery, control, lifecycle
<1> QED BY <1>1, <1>2, <1>3, <1>4, <1>5, <1>6, <1>8, <1>9 DEF Worker

LEMMA DiscoveryType ==
  ASSUME TypeOK, Discoverer \/ \E h \in Hosts, r \in Runs \union {0} : AskAllowed(h, r)
  PROVE  TypeOK'
<1>t. /\ record \in [Hosts -> RecordType \union {NoRecord}]
      /\ copy \in [Hosts -> CopyType \union {NoRecord}]
      /\ disc \in DiscType \union {Idle}
      /\ gave \in [Hosts -> SUBSET (Answers \union {"down", "ignored"})]
  BY DEF TypeOK
<1>d. disc # Idle => disc \in DiscType /\ disc.host \in Hosts /\ disc.age \in Age
  BY <1>t DEF DiscType
<1>1. ASSUME NEW h \in Hosts, NEW r \in Runs \union {0}, AskAllowed(h, r) PROVE TypeOK'
  <2>1. [host |-> h, run |-> r, step |-> "read", age |-> 0] \in DiscType
    BY AgesType DEF DiscType
  <2> QED BY <1>1, <2>1 DEF AskAllowed, TypeOK, crawler, control, lifecycle
<1>2. CASE ReadRecord
  <2> DEFINE rec == record[disc.host]
             new == [age |-> 0, rules |-> FromRecord(rec), born |-> rec.age]
  <2>1. disc \in DiscType /\ disc.host \in Hosts
    BY <1>2, <1>d DEF ReadRecord
  <2>2. CASE Fresh(rec)
    <3>1. copy' = [copy EXCEPT ![disc.host] = new] /\ disc' = Idle
      BY <1>2, <2>2 DEF ReadRecord
    <3>2. new \in CopyType
      <4>1. rec \in RecordType /\ rec.age \in Age
        BY <1>t, <2>1, <2>2 DEF Fresh, RecordType
      <4> QED BY <4>1, AgesType, AnswersType DEF CopyType
    <3> HIDE DEF new
    <3>3. copy' \in [Hosts -> CopyType \union {NoRecord}] /\ disc' \in DiscType \union {Idle}
      BY <1>t, <3>1, <3>2
    <3> QED BY <1>2, <3>3 DEF ReadRecord, TypeOK, crawler, control, lifecycle
  <2>3. CASE ~Fresh(rec)
    <3>1. disc' = [disc EXCEPT !.step = "fetch", !.age = 0] /\ copy' = copy
      BY <1>2, <2>3 DEF ReadRecord
    <3>2. disc' \in DiscType
      BY <2>1, <3>1, AgesType DEF DiscType
    <3> QED BY <1>2, <3>1, <3>2 DEF ReadRecord, TypeOK, crawler, control, lifecycle
  <2> QED BY <2>2, <2>3
<1>3. CASE DiscFetchRobots
  <2>1. disc \in DiscType /\ disc.host \in Hosts /\ disc.age \in Age
    BY <1>3, <1>d DEF DiscFetchRobots
  <2>2. PICK a \in Outcomes(disc.host, disc.run) :
          /\ record' = [record EXCEPT ![disc.host] = RecordOf(a, disc.age)]
          /\ copy' = [copy EXCEPT ![disc.host] =
                        [age |-> 0, rules |-> FromAnswer(a), born |-> disc.age]]
          /\ gave' = [gave EXCEPT ![disc.host] = @ \union {a}]
    BY <1>3 DEF DiscFetchRobots
  <2>3. a \in Answers \union {"down", "ignored"}
    BY <2>1, OutcomesType
  <2>4. gave' \in [Hosts -> SUBSET (Answers \union {"down", "ignored"})]
    BY <1>t, <2>1, <2>2, <2>3
  <2>r. RecordOf(a, disc.age) \in RecordType
    BY <2>1, AnswersType
  <2>5. record' \in [Hosts -> RecordType \union {NoRecord}]
    BY <1>t, <2>1, <2>2, <2>r
  <2>6. [age |-> 0, rules |-> FromAnswer(a), born |-> disc.age] \in CopyType
    BY <2>1, AgesType, AnswersType DEF CopyType
  <2>7. copy' \in [Hosts -> CopyType \union {NoRecord}]
    BY <1>t, <2>1, <2>2, <2>6
  <2> QED BY <1>3, <2>4, <2>5, <2>7 DEF DiscFetchRobots, TypeOK, crawler, control, lifecycle
<1> QED BY <1>1, <1>2, <1>3 DEF Discoverer

\* What time makes of things: each is as old as Older says, and otherwise as it was.
LEMMA Aged ==
  ASSUME TypeOK, Tick
  PROVE  /\ \A h \in Hosts :
              /\ record[h] = NoRecord => record'[h] = NoRecord
              /\ record[h] # NoRecord =>
                   /\ record'[h] \in RecordType /\ record'[h] = [record[h] EXCEPT !.age = Older(@)]
                   /\ FromRecord(record'[h]) = FromRecord(record[h])
              /\ copy[h] = NoRecord => copy'[h] = NoRecord
              /\ copy[h] # NoRecord =>
                   /\ copy'[h] \in CopyType /\ copy'[h].rules = copy[h].rules
                   /\ copy'[h].age = Older(copy[h].age) /\ copy'[h].born = Older(copy[h].born)
         /\ \A w \in Workers :
              /\ job[w] = Idle => job'[w] = Idle
              /\ job[w] # Idle =>
                   /\ job'[w] \in JobType /\ job'[w].host = job[w].host
                   /\ job'[w].step = job[w].step /\ job'[w].rules = job[w].rules
         /\ disc = Idle => disc' = Idle
         /\ disc # Idle => /\ disc' \in DiscType
                           /\ disc.age = 0 /\ disc'.age = 1
<1>r. \A h \in Hosts : record'[h] = Ages(record[h], NoRecord)
  BY DEF Tick
<1>c. \A h \in Hosts : copy'[h] = BothAge(copy[h])
  BY DEF Tick
<1>j. \A w \in Workers : job'[w] = Ages(job[w], Idle)
  BY DEF Tick
<1>d. disc' = Ages(disc, Idle) /\ (disc # Idle => disc.age = 0)
  BY DEF Tick
<1>1. ASSUME NEW h \in Hosts
      PROVE  /\ record[h] = NoRecord => record'[h] = NoRecord
             /\ record[h] # NoRecord =>
                  /\ record'[h] \in RecordType /\ record'[h] = [record[h] EXCEPT !.age = Older(@)]
                  /\ FromRecord(record'[h]) = FromRecord(record[h])
  <2>1. /\ record[h] = NoRecord => record'[h] = NoRecord
        /\ record[h] # NoRecord => record'[h] = [record[h] EXCEPT !.age = Older(@)]
    BY <1>r DEF Ages
  <2>2. ASSUME record[h] # NoRecord
        PROVE  /\ record'[h] \in RecordType
               /\ FromRecord(record'[h]) = FromRecord(record[h])
    <3>1. record[h] \in RecordType
      BY <2>2 DEF TypeOK
    <3>2. /\ record'[h] \in RecordType /\ record'[h].ok = record[h].ok
          /\ record'[h].body = record[h].body
      BY <2>1, <2>2, <3>1, AgesType DEF RecordType
    <3> QED BY <3>2 DEF FromRecord
  <2> QED BY <2>1, <2>2
<1>2. ASSUME NEW h \in Hosts
      PROVE  /\ copy[h] = NoRecord => copy'[h] = NoRecord
             /\ copy[h] # NoRecord =>
                  /\ copy'[h] \in CopyType /\ copy'[h].rules = copy[h].rules
                  /\ copy'[h].age = Older(copy[h].age) /\ copy'[h].born = Older(copy[h].born)
  <2>0. BothAge(NoRecord) = NoRecord
    BY Zenon DEF BothAge
  <2>1. /\ copy[h] = NoRecord => copy'[h] = NoRecord
        /\ copy[h] # NoRecord => copy'[h] = BothAge(copy[h])
    BY <1>c, <2>0
  <2>2. ASSUME NEW c \in CopyType, c # NoRecord
        PROVE  /\ BothAge(c) \in CopyType /\ BothAge(c).rules = c.rules
               /\ BothAge(c).age = Older(c.age) /\ BothAge(c).born = Older(c.born)
    BY <2>2, AgesType DEF BothAge, CopyType
  <2>3. copy[h] # NoRecord => copy[h] \in CopyType
    BY DEF TypeOK
  <2> QED BY <2>1, <2>2, <2>3
<1>3. ASSUME NEW w \in Workers
      PROVE  /\ job[w] = Idle => job'[w] = Idle
             /\ job[w] # Idle =>
                  /\ job'[w] \in JobType /\ job'[w].host = job[w].host
                  /\ job'[w].step = job[w].step /\ job'[w].rules = job[w].rules
  <2>1. /\ job[w] = Idle => job'[w] = Idle
        /\ job[w] # Idle => job'[w] = [job[w] EXCEPT !.age = Older(@)]
    BY <1>j DEF Ages
  <2>2. job[w] # Idle => job[w] \in JobType
    BY DEF TypeOK
  <2> QED BY <2>1, <2>2, AgesType DEF JobType
<1>4. /\ disc = Idle => disc' = Idle
      /\ disc # Idle => disc' \in DiscType /\ disc.age = 0 /\ disc'.age = 1
  <2>1. disc = Idle => disc' = Idle
    BY <1>d DEF Ages
  <2>2. disc # Idle => disc \in DiscType /\ disc.age = 0 /\ disc' = [disc EXCEPT !.age = Older(@)]
    BY <1>d DEF Ages, TypeOK
  <2>3. Older(0) = 1
    BY AgesType DEF Older
  <2> QED BY <2>1, <2>2, <2>3, AgesType DEF DiscType
<1> QED BY <1>1, <1>2, <1>3, <1>4

LEMMA WorldType ==
  ASSUME TypeOK,
         \/ \E h \in Hosts : SiteChanges(h)
         \/ DropBuffered \/ ClearRobotsBegin \/ ClearRobotsEnd \/ Start \/ Crash
         \/ \E r \in Runs : Stopping(r)
         \/ Tick
  PROVE  TypeOK'
<1>e. [h \in Hosts |-> Absent] \in [Hosts -> EntryType]
  BY AbsentType
<1>1. ASSUME NEW h \in Hosts, SiteChanges(h) PROVE TypeOK'
  <2>1. PICK a \in Answers \ {site[h]} : site' = [site EXCEPT ![h] = a]
    BY <1>1 DEF SiteChanges
  <2>2. site' \in [Hosts -> Answers] /\ changes' \in Nat
    BY <1>1, <2>1 DEF SiteChanges, TypeOK
  <2> QED BY <1>1, <2>2 DEF SiteChanges, TypeOK, crawler, discovery, lifecycle
<1>2. CASE DropBuffered
  BY <1>2, <1>e DEF DropBuffered, TypeOK, discovery, lifecycle
<1>3. CASE ClearRobotsBegin
  BY <1>3, <1>e DEF ClearRobotsBegin, TypeOK, discovery, lifecycle
<1>4. CASE ClearRobotsEnd
  BY <1>4 DEF ClearRobotsEnd, TypeOK, discovery, crawler, lifecycle
<1>5. CASE Start
  <2>1. run' \in 0 .. MaxRuns
    BY <1>5, RunsAssumption DEF Start, TypeOK
  <2>2. overlapped' \in BOOLEAN
    BY <1>5, Zenon DEF Start, TypeOK
  <2> QED BY <1>5, <2>1, <2>2 DEF Start, TypeOK, discovery, crawler
<1>6. ASSUME NEW r \in Runs, Stopping(r) PROVE TypeOK'
  <2>1. PICK from, to \in {"no", "flagged", "cancelled", "left", "waited", "done"} :
          Stopped(r, from, to)
    BY <1>6 DEF Stopping, StopFlag, StopCancel, Leave, StopWait, StopClean
  <2>2. stop' \in [Runs -> {"no", "flagged", "cancelled", "left", "waited", "done"}]
    BY <2>1 DEF Stopped, TypeOK
  <2>3. entry' \in [Hosts -> EntryType] /\ waiting' \in [Hosts \X Runs -> Nat]
    BY <1>6, <1>e DEF Stopping, StopFlag, StopCancel, Leave, StopWait, StopClean, TypeOK
  <2> QED BY <2>1, <2>2, <2>3 DEF Stopped, TypeOK, discovery
<1>7. CASE Crash
  <2>1. /\ job' \in [Workers -> JobType \union {Idle}]
        /\ copy' \in [Hosts -> CopyType \union {NoRecord}] /\ disc' \in DiscType \union {Idle}
        /\ entry' \in [Hosts -> EntryType] /\ buttons' \in Nat
        /\ waiting' \in [Hosts \X Runs -> Nat]
    BY <1>7, <1>e DEF Crash, TypeOK
  <2>2. /\ clearing' = FALSE /\ overlapped' = FALSE /\ run' = 0
        /\ stop' = [r \in Runs |-> "no"]
    BY <1>7 DEF Crash
  <2>3. stop' \in [Runs -> {"no", "flagged", "cancelled", "left", "waited", "done"}]
    BY <2>2
  <2>4. UNCHANGED <<site, record, gave, changes>>
    BY <1>7 DEF Crash
  <2>5. clearing' \in BOOLEAN /\ overlapped' \in BOOLEAN
    BY <2>2
  <2>6. run' \in 0 .. MaxRuns
    BY <2>2, RunsAssumption
  <2> QED BY <2>1, <2>3, <2>4, <2>5, <2>6 DEF TypeOK
<1>8. CASE Tick
  <2>1. record' \in [Hosts -> RecordType \union {NoRecord}]
    BY <1>8, Aged DEF Tick
  <2>2. copy' \in [Hosts -> CopyType \union {NoRecord}]
    BY <1>8, Aged DEF Tick
  <2>3. job' \in [Workers -> JobType \union {Idle}]
    BY <1>8, Aged DEF Tick
  <2>4. disc' \in DiscType \union {Idle}
    BY <1>8, Aged
  <2>5. UNCHANGED <<entry, waiting, control, gave>>
    BY <1>8 DEF Tick
  <2> QED BY <2>1, <2>2, <2>3, <2>4, <2>5 DEF TypeOK, control, lifecycle
<1> QED BY <1>1, <1>2, <1>3, <1>4, <1>5, <1>6, <1>7, <1>8

LEMMA NextType == TypeOK /\ [Next]_vars => TypeOK'
<1>1. ASSUME TypeOK, UNCHANGED vars PROVE TypeOK'
  BY <1>1 DEF vars, TypeOK, crawler, discovery, control, lifecycle
<1> QED BY <1>1, CrawlerType, DiscoveryType, WorldType DEF Next

\* TypeOK: ages stay within what a comparison with 24 hours tells apart.
THEOREM TypeCorrect == Spec => []TypeOK
  BY InitType, NextType, PTL DEF Spec

-----------------------------------------------------------------------------
(* RulesHaveReason.                                                        *)

\* The host itself has answered so as to give these rules.
Answered(h, rules) == gave[h] \intersect (Reasons(rules) \ {"ignored"}) # {}

\* The rules in use, the records, the copies and what the workers carry.
Sourced ==
  /\ \A h \in Hosts :
       /\ entry[h].state = "ready" => gave[h] \intersect Reasons(entry[h].rules) # {}
       /\ record[h] # NoRecord => Answered(h, FromRecord(record[h]))
       /\ copy[h] # NoRecord => Answered(h, copy[h].rules)
  /\ \A w \in Workers : job[w] # Idle /\ job[w].step = "apply" =>
       Answered(job[w].host, job[w].rules)

LEMMA SourcedImpliesReason == Sourced => RulesHaveReason
  BY DEF Sourced, RulesHaveReason, Answered

\* An answer is a reason for the rules made of it at once, and for those made later of the
\* record it leaves.
LEMMA AnswerIsReason ==
  ASSUME NEW a \in {"rules", "none", "trouble", "down"}, NEW age
  PROVE  /\ a \in Reasons(FromAnswer(a)) \ {"ignored"}
         /\ a \in Reasons(FromRecord(RecordOf(a, age))) \ {"ignored"}
<1>1. /\ RecordOf(a, age).ok = (a \in {"rules", "none"})
      /\ RecordOf(a, age).body = IF a = "rules" THEN "rules" ELSE "empty"
  BY DEF RecordOf
<1>2. FromRecord(RecordOf(a, age)) = IF a = "rules" THEN "parsed" ELSE "all"
  BY <1>1 DEF FromRecord
<1> QED BY <1>2 DEF FromAnswer, Reasons

\* What was answered stays answered.
LEMMA StillAnswered ==
  ASSUME NEW h \in Hosts, gave[h] \subseteq gave'[h]
  PROVE  /\ \A rules : Answered(h, rules) => Answered(h, rules)'
         /\ \A rules : gave[h] \intersect Reasons(rules) # {} => gave'[h] \intersect Reasons(rules) # {}
  BY DEF Answered

LEMMA InitSourced == Init => Sourced
  BY DEF Init, Sourced, Absent

LEMMA CrawlerSourced ==
  ASSUME TypeOK, Sourced,
         \/ \E h \in Hosts : HostLocked(h) \/ PickNoRobots(h)
         \/ \E h \in Hosts, r \in Runs : PickRobots(h, r) \/ DropJob(h, r)
         \/ \E h \in Hosts, r \in Runs, w \in Workers, q \in Runs : Take(h, r, w, q)
         \/ \E w \in Workers : Worker(w)
  PROVE  Sourced'
<1>t. /\ record \in [Hosts -> RecordType \union {NoRecord}] /\ entry \in [Hosts -> EntryType]
      /\ job \in [Workers -> JobType \union {Idle}]
      /\ gave \in [Hosts -> SUBSET (Answers \union {"down", "ignored"})]
  BY DEF TypeOK
<1>1. ASSUME NEW h \in Hosts, HostLocked(h) PROVE Sourced'
  <2>1. /\ UNCHANGED <<record, job, copy, gave>>
        /\ \A g \in Hosts : entry'[g].state = "ready" => entry'[g] = entry[g]
    BY <1>1, <1>t DEF HostLocked, discovery, EntryType
  <2> QED BY <2>1 DEF Sourced, Answered
<1>2. ASSUME NEW h \in Hosts, PickNoRobots(h) PROVE Sourced'
  <2>1. UNCHANGED <<record, job, copy>>
    BY <1>2 DEF PickNoRobots, discovery
  <2>2. entry'[h] = [state |-> "ready", rules |-> "all"] /\ \A g \in Hosts \ {h} : entry'[g] = entry[g]
    BY <1>2, <1>t DEF PickNoRobots
  <2>3. "ignored" \in gave'[h] /\ \A g \in Hosts : gave[g] \subseteq gave'[g]
    BY <1>2, <1>t DEF PickNoRobots
  <2>4. gave'[h] \intersect Reasons("all") # {}
    BY <2>3 DEF Reasons
  <2>5. \A g \in Hosts : entry'[g].state = "ready" => gave'[g] \intersect Reasons(entry'[g].rules) # {}
    BY <2>2, <2>3, <2>4, StillAnswered DEF Sourced
  <2>6. \A w \in Workers : job[w] # Idle => job[w].host \in Hosts
    BY <1>t DEF JobType
  <2> QED BY <2>1, <2>3, <2>5, <2>6, StillAnswered DEF Sourced
<1>3. ASSUME NEW h \in Hosts, NEW r \in Runs, PickRobots(h, r) \/ DropJob(h, r)
      PROVE  Sourced'
  <2>1. /\ UNCHANGED <<record, copy, gave, job>>
        /\ \A g \in Hosts : entry'[g].state = "ready" => entry'[g] = entry[g]
    BY <1>3, <1>t DEF PickRobots, DropJob, discovery, EntryType
  <2> QED BY <2>1 DEF Sourced, Answered
<1>7. ASSUME NEW h \in Hosts, NEW r \in Runs, NEW w \in Workers, NEW q \in Runs,
             Take(h, r, w, q)
      PROVE  Sourced'
  <2>1. UNCHANGED <<record, copy, gave, entry>>
    BY <1>7 DEF Take, discovery
  <2>2. /\ job'[w].step = "read" /\ \A v \in Workers \ {w} : job'[v] = job[v]
    BY <1>7, <1>t DEF Take
  <2> QED BY <2>1, <2>2 DEF Sourced, Answered
<1>4. ASSUME NEW w \in Workers, FetchRobots(w) PROVE Sourced'
  <2> DEFINE rec == record[job[w].host]
  <2>1. job[w] \in JobType /\ job[w].host \in Hosts /\ UNCHANGED <<record, entry, copy, gave>>
    BY <1>4, <1>t DEF FetchRobots, JobType, discovery
  <2>2. job'[w] = (IF Fresh(rec) THEN [job[w] EXCEPT !.step = "apply", !.rules = FromRecord(rec)]
                   ELSE [job[w] EXCEPT !.step = "fetch", !.age = 0])
        /\ \A v \in Workers \ {w} : job'[v] = job[v]
    BY <1>4, <1>t DEF FetchRobots
  <2>3. job'[w].step = "apply" => /\ Fresh(rec) /\ job'[w].rules = FromRecord(rec)
                                  /\ job'[w].host = job[w].host
    BY <2>1, <2>2 DEF JobType
  <2>4. job'[w].step = "apply" => Answered(job'[w].host, job'[w].rules)
    BY <2>1, <2>3 DEF Sourced, Fresh
  <2> QED BY <2>1, <2>2, <2>4 DEF Sourced, Answered
<1>5. ASSUME NEW w \in Workers, LoadRobots(w) PROVE Sourced'
  <2>h. PICK h \in Hosts : h = job[w].host
    BY <1>5, <1>t DEF LoadRobots, JobType
  <2>1. job[w] \in JobType /\ UNCHANGED <<entry, copy>>
    BY <1>5, <1>t DEF LoadRobots, JobType, discovery
  <2>2. PICK a \in Outcomes(h, job[w].run) :
          /\ job' = [job EXCEPT ![w].step = "apply", ![w].rules = FromAnswer(a)]
          /\ record' = [record EXCEPT ![h] = RecordOf(a, job[w].age)]
          /\ gave' = [gave EXCEPT ![h] = @ \union {a}]
    BY <1>5, <2>h DEF LoadRobots
  <2>3. /\ job'[w].rules = FromAnswer(a) /\ job'[w].host = h
        /\ \A v \in Workers \ {w} : job'[v] = job[v]
    BY <1>t, <2>1, <2>2, <2>h DEF JobType
  <2>4. record'[h] = RecordOf(a, job[w].age) /\ \A g \in Hosts \ {h} : record'[g] = record[g]
    BY <1>t, <2>1, <2>2
  <2>5. a \in gave'[h] /\ \A g \in Hosts : gave[g] \subseteq gave'[g]
    BY <1>t, <2>1, <2>2
  <2>6. /\ a \in Reasons(FromAnswer(a)) \ {"ignored"}
        /\ a \in Reasons(FromRecord(RecordOf(a, job[w].age))) \ {"ignored"}
    BY <2>1, <2>2, OutcomesType, AnswerIsReason
  <2>7. Answered(h, FromAnswer(a))' /\ Answered(h, FromRecord(record[h]))'
    BY <2>4, <2>5, <2>6 DEF Answered
  <2>8. \A v \in Workers : job[v] # Idle => job[v].host \in Hosts
    BY <1>t DEF JobType
  <2>9. \A v \in Workers : job'[v] # Idle /\ job'[v].step = "apply" => Answered(job[v].host, job[v].rules)'
    <3>1. Answered(job[w].host, job[w].rules)'
      BY <2>3, <2>7 DEF Answered
    <3>2. ASSUME NEW v \in Workers \ {w}, job'[v] # Idle, job'[v].step = "apply"
          PROVE  Answered(job[v].host, job[v].rules)'
      BY <2>3, <2>5, <2>8, <3>2, StillAnswered DEF Sourced
    <3> QED BY <3>1, <3>2
  <2>10. \A g \in Hosts : record'[g] # NoRecord => Answered(g, FromRecord(record[g]))'
    BY <2>4, <2>5, <2>7, StillAnswered DEF Sourced
  <2> QED BY <2>1, <2>5, <2>9, <2>10, StillAnswered DEF Sourced
<1>6. ASSUME NEW w \in Workers, ApplyRules(w) PROVE Sourced'
  <2>1. /\ job[w] \in JobType /\ job[w].host \in Hosts
        /\ job[w] # Idle /\ job[w].step = "apply" /\ UNCHANGED <<record, copy, gave>>
    BY <1>6, <1>t DEF ApplyRules, JobType, discovery
  <2>2. job'[w] = Idle /\ \A v \in Workers \ {w} : job'[v] = job[v]
    BY <1>6, <1>t DEF ApplyRules
  <2>3. \A g \in Hosts : entry'[g] # entry[g] =>
          g = job[w].host /\ entry'[g] = [state |-> "ready", rules |-> job[w].rules]
    BY <1>6, <1>t, <2>1 DEF ApplyRules
  <2>4. Answered(job[w].host, job[w].rules)
    BY <2>1 DEF Sourced
  <2>5. gave[job[w].host] \intersect Reasons(job[w].rules) # {}
    BY <2>4 DEF Answered
  <2>6. \A g \in Hosts : entry'[g].state = "ready" => gave'[g] \intersect Reasons(entry'[g].rules) # {}
    BY <2>1, <2>3, <2>5 DEF Sourced
  <2> QED BY <2>1, <2>2, <2>6 DEF Sourced, Answered
<1> QED BY <1>1, <1>2, <1>3, <1>4, <1>5, <1>6, <1>7 DEF Worker

LEMMA DiscoverySourced ==
  ASSUME TypeOK, Sourced, Discoverer \/ \E h \in Hosts, r \in Runs \union {0} : AskAllowed(h, r)
  PROVE  Sourced'
<1>t. /\ record \in [Hosts -> RecordType \union {NoRecord}]
      /\ copy \in [Hosts -> CopyType \union {NoRecord}]
      /\ disc \in DiscType \union {Idle}
      /\ job \in [Workers -> JobType \union {Idle}]
      /\ gave \in [Hosts -> SUBSET (Answers \union {"down", "ignored"})]
  BY DEF TypeOK
<1>d. disc # Idle => disc \in DiscType /\ disc.host \in Hosts
  BY <1>t DEF DiscType
<1>1. CASE \E h \in Hosts, r \in Runs \union {0} : AskAllowed(h, r)
  BY <1>1 DEF AskAllowed, crawler, Sourced, Answered
<1>2. CASE ReadRecord
  <2> DEFINE rec == record[disc.host]
  <2>1. disc.host \in Hosts /\ UNCHANGED <<record, entry, job, gave>>
    BY <1>2, <1>d DEF ReadRecord, crawler
  <2>2. CASE Fresh(rec)
    <3>1. /\ copy'[disc.host].rules = FromRecord(rec)
          /\ \A g \in Hosts \ {disc.host} : copy'[g] = copy[g]
      BY <1>2, <1>t, <2>1, <2>2 DEF ReadRecord
    <3>2. Answered(disc.host, FromRecord(rec))
      BY <2>1, <2>2 DEF Sourced, Fresh
    <3> QED BY <2>1, <3>1, <3>2 DEF Sourced, Answered
  <2>3. CASE ~Fresh(rec)
    BY <1>2, <2>1, <2>3 DEF ReadRecord, Sourced, Answered
  <2> QED BY <2>2, <2>3
<1>3. CASE DiscFetchRobots
  <2>h. PICK h \in Hosts : h = disc.host
    BY <1>3, <1>d DEF DiscFetchRobots
  <2>1. UNCHANGED <<entry, job>>
    BY <1>3 DEF DiscFetchRobots, crawler
  <2>2. PICK a \in Outcomes(h, disc.run) :
          /\ record' = [record EXCEPT ![h] = RecordOf(a, disc.age)]
          /\ copy' = [copy EXCEPT ![h] = [age |-> 0, rules |-> FromAnswer(a), born |-> disc.age]]
          /\ gave' = [gave EXCEPT ![h] = @ \union {a}]
    BY <1>3, <2>h DEF DiscFetchRobots
  <2>3. record'[h] = RecordOf(a, disc.age) /\ \A g \in Hosts \ {h} : record'[g] = record[g]
    BY <1>t, <2>1, <2>2
  <2>4. copy'[h].rules = FromAnswer(a) /\ \A g \in Hosts \ {h} : copy'[g] = copy[g]
    BY <1>t, <2>1, <2>2
  <2>5. a \in gave'[h] /\ \A g \in Hosts : gave[g] \subseteq gave'[g]
    BY <1>t, <2>1, <2>2
  <2>6. /\ a \in Reasons(FromAnswer(a)) \ {"ignored"}
        /\ a \in Reasons(FromRecord(RecordOf(a, disc.age))) \ {"ignored"}
    BY <2>1, <2>2, OutcomesType, AnswerIsReason
  <2>7. Answered(h, copy[h].rules)' /\ Answered(h, FromRecord(record[h]))'
    BY <2>3, <2>4, <2>5, <2>6 DEF Answered
  <2>8. \A v \in Workers : job[v] # Idle => job[v].host \in Hosts
    BY <1>t DEF JobType
  <2>9. \A g \in Hosts : record'[g] # NoRecord => Answered(g, FromRecord(record[g]))'
    BY <2>3, <2>5, <2>7, StillAnswered DEF Sourced
  <2>10. \A g \in Hosts : copy'[g] # NoRecord => Answered(g, copy[g].rules)'
    BY <2>4, <2>5, <2>7, StillAnswered DEF Sourced
  <2> QED BY <2>1, <2>5, <2>8, <2>9, <2>10, StillAnswered DEF Sourced
<1> QED BY <1>1, <1>2, <1>3 DEF Discoverer

LEMMA WorldSourced ==
  ASSUME TypeOK, Sourced,
         \/ \E h \in Hosts : SiteChanges(h)
         \/ DropBuffered \/ ClearRobotsBegin \/ ClearRobotsEnd \/ Start \/ Crash
         \/ \E r \in Runs : Stopping(r)
         \/ Tick
  PROVE  Sourced'
<1>a. Absent.state # "ready"
  BY DEF Absent
<1>1. CASE \E h \in Hosts : SiteChanges(h)
  BY <1>1 DEF SiteChanges, crawler, discovery, Sourced, Answered
<1>2. CASE DropBuffered \/ ClearRobotsBegin
  <2>1. entry' = [h \in Hosts |-> Absent] /\ UNCHANGED <<record, job, copy, gave>>
    BY <1>2 DEF DropBuffered, ClearRobotsBegin, discovery
  <2> QED BY <1>a, <2>1 DEF Sourced, Answered
<1>3. CASE ClearRobotsEnd
  BY <1>3 DEF ClearRobotsEnd, crawler, discovery, Sourced, Answered
<1>4. CASE Start \/ \E r \in Runs : Stopping(r)
  <2>1. UNCHANGED <<record, job, copy, gave>> /\ (entry' = entry \/ entry' = [h \in Hosts |-> Absent])
    BY <1>4
    DEF Start, Stopping, StopFlag, StopCancel, Leave, StopWait, StopClean, Stopped, crawler,
        discovery
  <2> QED BY <1>a, <2>1 DEF Sourced, Answered
<1>5. CASE Crash
  BY <1>5, <1>a DEF Crash, Sourced, Answered
<1>6. CASE Tick
  <2>1. UNCHANGED <<entry, gave>>
    BY <1>6 DEF Tick
  <2>2. \A h \in Hosts : /\ record'[h] # NoRecord =>
                              record[h] # NoRecord /\ FromRecord(record[h])' = FromRecord(record[h])
                         /\ copy'[h] # NoRecord =>
                              copy[h] # NoRecord /\ copy'[h].rules = copy[h].rules
    <3>1. \A h \in Hosts : record[h] # NoRecord => FromRecord(record[h])' = FromRecord(record[h])
      BY <1>6, Aged DEF FromRecord
    <3> QED BY <1>6, <3>1, Aged
  <2>3. \A w \in Workers : job'[w] # Idle =>
          /\ job[w] # Idle /\ job'[w].host = job[w].host
          /\ job'[w].step = job[w].step /\ job'[w].rules = job[w].rules
    BY <1>6, Aged
  <2> QED BY <2>1, <2>2, <2>3 DEF Sourced, Answered
<1> QED BY <1>1, <1>2, <1>3, <1>4, <1>5, <1>6

\* RulesHaveReason: whatever workers, discovery, restarts, buttons and crashes interleave
\* to, the rules in use for a host and discovery's copy come from an answer of that host.
THEOREM RulesComeFromAnswers == Spec => []RulesHaveReason
<1>1. TypeOK /\ Sourced /\ [Next]_vars => Sourced'
  <2>1. ASSUME Sourced, UNCHANGED vars PROVE Sourced'
    BY <2>1 DEF vars, crawler, discovery, Sourced, Answered
  <2> QED BY <2>1, CrawlerSourced, DiscoverySourced, WorldSourced DEF Next
<1> QED BY <1>1, InitSourced, SourcedImpliesReason, TypeCorrect, PTL DEF Spec

-----------------------------------------------------------------------------
(* FetchingIsServed.                                                       *)

\* One run at a time: the numbers above the latest are unused, and unless a Start has come
\* too early, all runs before it are done and a table without a run has nobody waiting.
Orderly ==
  /\ \A r \in Runs : r > run => stop[r] = "no"
  /\ ~overlapped => \A q \in 1 .. run - 1 : stop[q] = "done"
  /\ ~overlapped /\ (run = 0 \/ stop[run] = "done") =>
       \A h \in Hosts : entry[h].state # "fetchingRobots"

Served == Orderly /\ FetchingIsServed

LEMMA InitServed == Init => Served
  BY DEF Init, Served, Orderly, FetchingIsServed, Running, Absent

\* The run of whatever goroutine is about, unless a Start has come too early.
LEMMA OnlyRun ==
  ASSUME TypeOK, Orderly, ~overlapped, NEW r \in Runs, r <= run, stop[r] # "done"
  PROVE  r = run /\ run > 0
<1>1. r \in Nat /\ r > 0 /\ run \in Nat
  BY RunType DEF Runs
<1>2. ~(r \in 1 .. run - 1)
  BY DEF Orderly
<1> QED BY <1>1, <1>2

\* The steps that are not a run's: who waits, waited before; the jobs stay, or change
\* their step.
LEMMA ServedStays ==
  ASSUME Served, UNCHANGED lifecycle,
         \A h \in Hosts : entry'[h].state = "fetchingRobots" =>
           /\ entry[h].state = "fetchingRobots"
           /\ (Running /\ waiting[<<h, run>>] > 0 =>
                \/ waiting'[<<h, run>>] > 0
                \/ \E w \in Workers : job'[w] # Idle /\ job'[w].host = h)
           /\ (\E w \in Workers : job[w] # Idle /\ job[w].host = h) =>
                \E w \in Workers : job'[w] # Idle /\ job'[w].host = h
  PROVE  Served'
<1>1. run' = run /\ stop' = stop /\ overlapped' = overlapped
  BY DEF lifecycle
<1>2. Orderly'
  BY <1>1 DEF Served, Orderly
<1>3. FetchingIsServed'
  BY <1>1 DEF Served, FetchingIsServed, Running
<1> QED BY <1>2, <1>3 DEF Served

LEMMA CrawlerServed ==
  ASSUME TypeOK, Served,
         \/ \E h \in Hosts : HostLocked(h) \/ PickNoRobots(h)
         \/ \E h \in Hosts, r \in Runs : PickRobots(h, r) \/ DropJob(h, r)
         \/ \E h \in Hosts, r \in Runs, w \in Workers, q \in Runs : Take(h, r, w, q)
         \/ \E w \in Workers : Worker(w)
  PROVE  Served'
<1>t. /\ entry \in [Hosts -> EntryType] /\ job \in [Workers -> JobType \union {Idle}]
      /\ waiting \in [Hosts \X Runs -> Nat]
  BY DEF TypeOK
<1>a. Absent.state = "absent"
  BY DEF Absent
<1>1. ASSUME NEW h \in Hosts, HostLocked(h) \/ PickNoRobots(h) PROVE Served'
  <2>1. /\ UNCHANGED <<job, waiting, lifecycle>> /\ \A g \in Hosts \ {h} : entry'[g] = entry[g]
    BY <1>1, <1>t DEF HostLocked, PickNoRobots, control
  <2>2. entry'[h].state # "fetchingRobots"
    <3>1. ASSUME NEW e \in EntryType PROVE [e EXCEPT !.state = "needRobots"].state = "needRobots"
      BY DEF EntryType
    <3>2. CASE HostLocked(h)
      <4>1. entry'[h] = [entry[h] EXCEPT !.state = "needRobots"] /\ entry[h] \in EntryType
        BY <1>t, <3>2 DEF HostLocked
      <4> QED BY <3>1, <4>1
    <3>3. CASE PickNoRobots(h)
      <4>1. entry'[h] = [state |-> "ready", rules |-> "all"]
        BY <1>t, <3>3 DEF PickNoRobots
      <4> QED BY <4>1
    <3> QED BY <1>1, <3>2, <3>3
  <2> QED BY <2>1, <2>2, ServedStays
<1>2. ASSUME NEW h \in Hosts, NEW r \in Runs, PickRobots(h, r) PROVE Served'
  <2>1. /\ job' = job /\ run' = run /\ stop' = stop /\ overlapped' = overlapped
        /\ r <= run /\ stop[r] # "done" /\ \A g \in Hosts \ {h} : entry'[g] = entry[g]
    BY <1>2, <1>t DEF PickRobots, control, lifecycle, Alive
  <2>2. waiting'[<<h, r>>] > 0
    <3>1. <<h, r>> \in Hosts \X Runs
      OBVIOUS
    <3>2. waiting'[<<h, r>>] = waiting[<<h, r>>] + 1 /\ waiting[<<h, r>>] \in Nat
      BY <1>2, <1>t, <3>1 DEF PickRobots
    <3> QED BY <3>2
  <2>3. ~overlapped => r = run /\ run > 0
    BY <2>1, OnlyRun DEF Served
  <2>4. Orderly'
    BY <2>1, <2>3, RunType DEF Served, Orderly
  <2>5. ASSUME NEW g \in Hosts \ {h} PROVE waiting'[<<g, run>>] = waiting[<<g, run>>]
    <3>1. <<g, run>> # <<h, r>>
      OBVIOUS
    <3> QED BY <1>2, <1>t, <3>1 DEF PickRobots
  <2>6. FetchingIsServed'
    BY <2>1, <2>2, <2>3, <2>5 DEF Served, FetchingIsServed, Running
  <2> QED BY <2>4, <2>6 DEF Served
<1>3. ASSUME NEW h \in Hosts, NEW r \in Runs, DropJob(h, r) PROVE Served'
  <2>1. UNCHANGED <<job, entry, lifecycle>> /\ stop[r] \notin {"no", "flagged"}
    BY <1>3 DEF DropJob, control, Cancelled
  <2>2. ASSUME NEW g \in Hosts, Running PROVE waiting'[<<g, run>>] = waiting[<<g, run>>]
    <3>1. <<g, run>> # <<h, r>>
      BY <2>1, <2>2 DEF Running
    <3> QED BY <1>3, <1>t, <3>1 DEF DropJob
  <2> QED BY <2>1, <2>2, ServedStays
<1>4. ASSUME NEW h \in Hosts, NEW r \in Runs, NEW w \in Workers, NEW q \in Runs,
             Take(h, r, w, q)
      PROVE  Served'
  <2>1. [host |-> h, run |-> q, step |-> "read", age |-> 0, rules |-> "nil"] \in JobType
    BY AgesType DEF JobType
  <2>2. /\ job[w] = Idle /\ job'[w] # Idle /\ job'[w].host = h
        /\ \A v \in Workers \ {w} : job'[v] = job[v]
    BY <1>4, <1>t, <2>1, NothingAssumption DEF Take
  <2>3. UNCHANGED <<entry, lifecycle>>
    BY <1>4 DEF Take, control
  <2>4. ASSUME NEW g \in Hosts \ {h} PROVE waiting'[<<g, run>>] = waiting[<<g, run>>]
    <3>1. <<g, run>> # <<h, r>>
      OBVIOUS
    <3> QED BY <1>4, <1>t, <3>1 DEF Take
  <2> QED BY <2>2, <2>3, <2>4, ServedStays
<1>5. ASSUME NEW w \in Workers, FetchRobots(w) \/ LoadRobots(w) PROVE Served'
  <2>1. job[w] \in JobType /\ UNCHANGED <<entry, waiting, lifecycle>>
    BY <1>5, <1>t DEF FetchRobots, LoadRobots, control
  <2>2. PICK next \in JobType : job' = [job EXCEPT ![w] = next] /\ next.host = job[w].host
    <3>1. CASE FetchRobots(w)
      <4> DEFINE rec == record[job[w].host]
                 then == IF Fresh(rec)
                         THEN [job[w] EXCEPT !.step = "apply", !.rules = FromRecord(rec)]
                         ELSE [job[w] EXCEPT !.step = "fetch", !.age = 0]
      <4>1. job[w].host \in Hosts
        BY <2>1 DEF JobType
      <4>2. Fresh(rec) => FromRecord(rec) \in Rules
        BY <4>1, AnswersType DEF Fresh, TypeOK
      <4>3. job' = [job EXCEPT ![w] = then]
        BY <1>t, <3>1 DEF FetchRobots
      <4> HIDE DEF rec
      <4>4. then \in JobType /\ then.host = job[w].host
        BY <2>1, <4>2, AgesType DEF JobType
      <4> HIDE DEF then
      <4> QED BY <4>3, <4>4
    <3>2. CASE LoadRobots(w)
      <4>1. PICK a : job' = [job EXCEPT ![w].step = "apply", ![w].rules = FromAnswer(a)]
        BY <3>2 DEF LoadRobots
      <4> DEFINE then == [job[w] EXCEPT !.step = "apply", !.rules = FromAnswer(a)]
      <4>2. job' = [job EXCEPT ![w] = then]
        BY <1>t, <4>1
      <4>3. then \in JobType /\ then.host = job[w].host
        BY <2>1, AnswersType DEF JobType
      <4> HIDE DEF then
      <4> QED BY <4>2, <4>3
    <3> QED BY <1>5, <3>1, <3>2
  <2>3. \A v \in Workers : job[v] # Idle => job'[v] # Idle /\ job'[v].host = job[v].host
    BY <1>t, <2>2, NothingAssumption
  <2> QED BY <2>1, <2>3, ServedStays
<1>6. ASSUME NEW w \in Workers, ApplyRules(w) PROVE Served'
  <2>1. job[w] \in JobType /\ job[w].host \in Hosts /\ UNCHANGED <<waiting, lifecycle>>
    BY <1>6, <1>t DEF ApplyRules, JobType, control
  <2>2. \A v \in Workers \ {w} : job'[v] = job[v]
    BY <1>6, <1>t DEF ApplyRules
  <2>3. /\ entry'[job[w].host].state # "fetchingRobots"
        /\ \A g \in Hosts \ {job[w].host} : entry'[g] = entry[g]
    BY <1>6, <1>a, <1>t, <2>1 DEF ApplyRules
  <2> QED BY <2>1, <2>2, <2>3, ServedStays
<1> QED BY <1>1, <1>2, <1>3, <1>4, <1>5, <1>6 DEF Worker

LEMMA WorldServed ==
  ASSUME TypeOK, Served,
         \/ \E h \in Hosts, r \in Runs \union {0} : AskAllowed(h, r)
         \/ \E h \in Hosts : SiteChanges(h)
         \/ Discoverer
         \/ DropBuffered \/ ClearRobotsBegin \/ ClearRobotsEnd \/ Tick \/ UNCHANGED vars
  PROVE  Served'
<1>a. Absent.state = "absent"
  BY DEF Absent
<1>1. UNCHANGED lifecycle /\ waiting' = waiting
  BY DEF AskAllowed, SiteChanges, Discoverer, ReadRecord, DiscFetchRobots, DropBuffered,
         ClearRobotsBegin, ClearRobotsEnd, Tick, vars, crawler, control
<1>2. \A h \in Hosts : entry'[h].state = "fetchingRobots" => entry[h].state = "fetchingRobots"
  <2>1. entry' = entry \/ entry' = [h \in Hosts |-> Absent]
    BY DEF AskAllowed, SiteChanges, Discoverer, ReadRecord, DiscFetchRobots, DropBuffered,
           ClearRobotsBegin, ClearRobotsEnd, Tick, vars, crawler
  <2> QED BY <1>a, <2>1
<1>3. \A w \in Workers : job[w] # Idle => job'[w] # Idle /\ job'[w].host = job[w].host
  <2>1. CASE Tick
    BY <2>1, Aged, NothingAssumption
  <2>2. CASE ~Tick
    <3>1. job' = job
      BY <2>2 DEF AskAllowed, SiteChanges, Discoverer, ReadRecord, DiscFetchRobots,
           DropBuffered, ClearRobotsBegin, ClearRobotsEnd, vars, crawler
    <3> QED BY <3>1
  <2> QED BY <2>1, <2>2
<1> QED BY <1>1, <1>2, <1>3, ServedStays

LEMMA LifeServed ==
  ASSUME TypeOK, Served, Start \/ Crash \/ \E r \in Runs : Stopping(r)
  PROVE  Served'
<1>a. Absent.state = "absent"
  BY DEF Absent
<1>r. MaxRuns \in Nat /\ run \in Nat /\ run <= MaxRuns
  BY RunType
<1>1. CASE Start
  <2>1. /\ run' = run + 1 /\ run < MaxRuns
        /\ UNCHANGED <<stop, entry, waiting, job>>
    BY <1>1 DEF Start, crawler
  <2>2. run + 1 \in Runs /\ stop[run + 1] = "no"
    BY <1>r, <2>1 DEF Runs, Served, Orderly
  <2>3. ~overlapped' => ~overlapped /\ \A r \in 1 .. run : stop[r] = "done"
    BY <1>1, Zenon DEF Start
  <2>4. ~overlapped' => \A h \in Hosts : entry[h].state # "fetchingRobots"
    <3>1. ~overlapped' => run = 0 \/ stop[run] = "done"
      BY <1>r, <2>3
    <3> QED BY <2>3, <3>1 DEF Served, Orderly
  <2>5. Orderly'
    <3>1. \A r \in Runs : r > run' => stop'[r] = "no"
      BY <1>r, <2>1 DEF Runs, Served, Orderly
    <3>2. ~overlapped' => \A q \in 1 .. run' - 1 : stop'[q] = "done"
      BY <1>r, <2>1, <2>3
    <3> QED BY <2>1, <2>4, <3>1, <3>2 DEF Orderly
  <2>6. FetchingIsServed'
    BY <2>1, <2>4 DEF FetchingIsServed
  <2> QED BY <2>5, <2>6 DEF Served
<1>2. CASE Crash
  <2>1. run' = 0 /\ stop' = [r \in Runs |-> "no"] /\ entry' = [h \in Hosts |-> Absent]
    BY <1>2 DEF Crash
  <2> QED BY <1>a, <2>1 DEF Served, Orderly, FetchingIsServed, Running
<1>3. ASSUME NEW r \in Runs, Stopping(r) PROVE Served'
  <2>1. PICK from \in {"no", "flagged", "cancelled", "left", "waited"},
             to \in {"flagged", "cancelled", "left", "waited", "done"} :
          /\ Stopped(r, from, to)
          /\ to = "done" => entry' = [h \in Hosts |-> Absent]
          /\ entry' = entry \/ entry' = [h \in Hosts |-> Absent]
    BY <1>3 DEF Stopping, StopFlag, StopCancel, Leave, StopWait, StopClean
  <2>2. /\ r <= run /\ stop[r] # "done" /\ run' = run /\ overlapped' = overlapped
        /\ stop' = [stop EXCEPT ![r] = to] /\ stop \in [Runs -> {"no", "flagged", "cancelled",
                                                               "left", "waited", "done"}]
    BY <2>1 DEF Stopped, TypeOK
  <2>3. ~overlapped => r = run /\ run > 0
    BY <2>2, OnlyRun DEF Served
  <2>4. stop'[r] = to /\ \A q \in Runs \ {r} : stop'[q] = stop[q]
    BY <2>2
  <2>5. Orderly'
    <3>1. \A q \in Runs : q > run' => stop'[q] = "no"
      BY <1>r, <2>2, <2>4 DEF Runs, Served, Orderly
    <3>2. ~overlapped' => \A q \in 1 .. run' - 1 : stop'[q] = "done"
      BY <1>r, <2>2, <2>3, <2>4 DEF Runs, Served, Orderly
    <3>3. ~overlapped' /\ (run' = 0 \/ stop'[run'] = "done") =>
            \A h \in Hosts : entry'[h].state # "fetchingRobots"
      BY <1>a, <2>1, <2>2, <2>3, <2>4
    <3> QED BY <3>1, <3>2, <3>3 DEF Orderly
  <2>6. FetchingIsServed'
    BY <2>2, <2>3, <2>4 DEF FetchingIsServed, Running
  <2> QED BY <2>5, <2>6 DEF Served
<1> QED BY <1>1, <1>2, <1>3

\* FetchingIsServed: no host of a run that goes on waits for rules that nobody brings,
\* unless a Start has come before a Stop was through.
THEOREM WaitingIsServed == Spec => []FetchingIsServed
<1>1. TypeOK /\ Served /\ [Next]_vars => Served'
  BY CrawlerServed, WorldServed, LifeServed DEF Next
<1>2. Served => FetchingIsServed
  BY DEF Served
<1> QED BY <1>1, <1>2, InitServed, TypeCorrect, PTL DEF Spec

-----------------------------------------------------------------------------
(* CopyAgeBounded.                                                         *)

\* A copy is made of a record in use or of an answer that took less than a tick: it is
\* younger than its origin by 24 hours at most.
BornBefore ==
  /\ disc # Idle => disc.age <= 1
  /\ \A h \in Hosts : copy[h] # NoRecord => copy[h].born <= copy[h].age + TTL

LEMMA BornImpliesBounded == TypeOK /\ BornBefore => CopyAgeBounded
<1> SUFFICES ASSUME TypeOK, BornBefore, NEW h \in Hosts, Fresh(copy[h]) PROVE copy[h].born < 2 * TTL
  BY DEF CopyAgeBounded
<1>1. copy[h] \in CopyType /\ copy[h].age < TTL /\ copy[h].born <= copy[h].age + TTL
  BY DEF TypeOK, BornBefore, Fresh
<1>2. copy[h].age \in Nat /\ copy[h].born \in Nat /\ TTL \in Nat
  BY <1>1, AgesType DEF CopyType
<1> QED BY <1>1, <1>2

LEMMA InitBorn == Init => BornBefore
  BY DEF Init, BornBefore

LEMMA NextBorn == TypeOK /\ BornBefore /\ [Next]_vars => BornBefore'
<1> SUFFICES ASSUME TypeOK, BornBefore, [Next]_vars PROVE BornBefore'
  OBVIOUS
<1>t. /\ record \in [Hosts -> RecordType \union {NoRecord}]
      /\ copy \in [Hosts -> CopyType \union {NoRecord}]
      /\ disc \in DiscType \union {Idle}
      /\ TTL \in Nat /\ TTL > 0
  BY AgesType DEF TypeOK
<1>d. disc # Idle => disc \in DiscType /\ disc.host \in Hosts /\ disc.age \in Nat /\ disc.age <= 1
  BY <1>t, AgesType DEF DiscType, BornBefore
<1>1. ASSUME disc' = disc \/ disc' = Idle, copy' = copy \/ copy' = [h \in Hosts |-> NoRecord]
      PROVE  BornBefore'
  BY <1>1 DEF BornBefore
<1>2. CASE \/ \E h \in Hosts : HostLocked(h) \/ PickNoRobots(h) \/ SiteChanges(h)
           \/ \E h \in Hosts, r \in Runs : PickRobots(h, r) \/ DropJob(h, r)
           \/ \E h \in Hosts, r \in Runs, w \in Workers, q \in Runs : Take(h, r, w, q)
  BY <1>1, <1>2
  DEF HostLocked, PickNoRobots, SiteChanges, PickRobots, DropJob, Take, discovery
<1>8. ASSUME NEW w \in Workers, Worker(w) PROVE BornBefore'
  <2>1. UNCHANGED discovery
    BY <1>8 DEF Worker, FetchRobots, LoadRobots, ApplyRules
  <2> QED BY <1>1, <2>1 DEF discovery
<1>3. CASE \/ DropBuffered \/ ClearRobotsBegin \/ ClearRobotsEnd \/ Start \/ Crash
           \/ \E r \in Runs : Stopping(r)
           \/ UNCHANGED vars
  BY <1>1, <1>3
  DEF DropBuffered, ClearRobotsBegin, ClearRobotsEnd, Start, Crash, Stopping, StopFlag,
      StopCancel, Leave, StopWait, StopClean, Stopped, vars, discovery
<1>4. ASSUME NEW h \in Hosts, NEW r \in Runs \union {0}, AskAllowed(h, r) PROVE BornBefore'
  BY <1>4 DEF AskAllowed, BornBefore
<1>5. CASE ReadRecord
  <2> DEFINE rec == record[disc.host]
  <2>1. disc \in DiscType /\ disc.host \in Hosts
    BY <1>5, <1>d DEF ReadRecord
  <2>2. CASE Fresh(rec)
    <3>1. /\ disc' = Idle /\ copy'[disc.host].age = 0 /\ copy'[disc.host].born = rec.age
          /\ \A g \in Hosts \ {disc.host} : copy'[g] = copy[g]
      BY <1>5, <1>t, <2>1, <2>2 DEF ReadRecord
    <3>2. rec.age \in Nat /\ rec.age < TTL
      BY <1>t, <2>1, <2>2, AgesType DEF Fresh, RecordType
    <3>3. copy'[disc.host].born <= copy'[disc.host].age + TTL
      BY <1>t, <3>1, <3>2
    <3> QED BY <3>1, <3>3 DEF BornBefore
  <2>3. CASE ~Fresh(rec)
    <3>1. disc' = [disc EXCEPT !.step = "fetch", !.age = 0] /\ copy' = copy
      BY <1>5, <2>3 DEF ReadRecord
    <3>2. disc'.age = 0
      BY <2>1, <3>1 DEF DiscType
    <3> QED BY <3>1, <3>2 DEF BornBefore
  <2> QED BY <2>2, <2>3
<1>6. CASE DiscFetchRobots
  <2>1. disc.host \in Hosts /\ disc.age \in Nat /\ disc.age <= 1 /\ disc' = Idle
    BY <1>6, <1>d DEF DiscFetchRobots
  <2>2. /\ copy'[disc.host].age = 0 /\ copy'[disc.host].born = disc.age
        /\ \A g \in Hosts \ {disc.host} : copy'[g] = copy[g]
    BY <1>6, <1>t, <2>1 DEF DiscFetchRobots
  <2>3. copy'[disc.host].born <= copy'[disc.host].age + TTL
    BY <1>t, <2>1, <2>2
  <2> QED BY <2>1, <2>2, <2>3 DEF BornBefore
<1>7. CASE Tick
  <2>1. disc' # Idle => disc'.age = 1
    BY <1>7, Aged
  <2>2. ASSUME NEW h \in Hosts, copy'[h] # NoRecord PROVE copy'[h].born <= copy'[h].age + TTL
    <3>1. /\ copy[h] # NoRecord /\ copy'[h].age = Older(copy[h].age)
          /\ copy'[h].born = Older(copy[h].born)
      BY <1>7, <2>2, Aged
    <3>2. copy[h].age \in Age /\ copy[h].born \in Age /\ copy[h].born <= copy[h].age + TTL
      BY <1>t, <3>1 DEF CopyType, BornBefore
    <3> QED BY <1>t, <3>1, <3>2 DEF Older, Age
  <2> QED BY <2>1, <2>2 DEF BornBefore
<1> QED BY <1>2, <1>3, <1>4, <1>5, <1>6, <1>7, <1>8 DEF Next, Discoverer

\* CopyAgeBounded: discovery goes by no answer that is twice 24 hours old, however often
\* records, copies and restarts follow each other.
THEOREM CopiesAgeOut == Spec => []CopyAgeBounded
  BY InitBorn, NextBorn, BornImpliesBounded, TypeCorrect, PTL DEF Spec

-----------------------------------------------------------------------------
(***************************************************************************)
(* robots.txt: what Parse, match and Allowed mean (RobotsRules).  The      *)
(* walk of match stays at or before every layout of the parts of a         *)
(* pattern; the groups of Parse are the lines under each head, at every    *)
(* line the file could end with.                                           *)
(***************************************************************************)

\* A set that holds 0 and, with every i, i + 1 holds all of 0 .. n.
LEMMA StepsReach ==
  ASSUME NEW n \in Nat, NEW S, 0 \in S,
         \A i \in 0 .. n - 1 : i \in S => i + 1 \in S
  PROVE  \A i \in 0 .. n : i \in S
<1> DEFINE Missed == {i \in 0 .. n : i \notin S}
<1> SUFFICES ASSUME Missed # {} PROVE FALSE
  OBVIOUS
<1>1. PICK m \in Missed : \A y \in Missed : ~(<<y, m>> \in OpToRel(<, Nat))
  <2>1. Missed \subseteq Nat
    OBVIOUS
  <2> HIDE DEF Missed
  <2> QED BY <2>1, NatLessThanWellFounded, WFMin
<1>2. \A y \in Missed : ~(y < m)
  <2>1. Missed \subseteq Nat
    OBVIOUS
  <2> HIDE DEF Missed
  <2> QED BY <1>1, <2>1 DEF OpToRel
<1>3. m # 0 /\ m \in 0 .. n /\ m - 1 \in 0 .. n - 1
  OBVIOUS
<1>4. m - 1 \in S
  BY <1>2, <1>3
<1>5. m \in S
  BY <1>3, <1>4
<1> QED BY <1>5

\* A function on 0 .. n can be defined by its first value and a step.
Defined(f, n, V, first, G) ==
  f \in [0 .. n -> V] /\ f[0] = first /\ \A i \in 1 .. n : f[i] = G[i][f[i - 1]]

\* A first value and a step define a function on 0 .. n.
LEMMA RecursionExists ==
  ASSUME NEW n \in Nat, NEW V, NEW first \in V, NEW G \in [1 .. n -> [V -> V]]
  PROVE  \E f : Defined(f, n, V, first, G)
<1> DEFINE Upto(k, f) == f[0] = first /\ \A i \in 1 .. k : f[i] = G[i][f[i - 1]]
           S == {k \in 0 .. n : \E f \in [0 .. k -> V] : Upto(k, f)}
<1>1. 0 \in S
  <2> HIDE DEF S
  <2> DEFINE f == [i \in 0 .. 0 |-> first]
  <2>1. f \in [0 .. 0 -> V] /\ f[0] = first
    OBVIOUS
  <2> HIDE DEF f
  <2>2. Upto(0, f)
    BY <2>1
  <2> QED BY <2>1, <2>2 DEF S
<1>2. ASSUME NEW k \in 0 .. n - 1, k \in S PROVE k + 1 \in S
  <2>1. PICK f \in [0 .. k -> V] : Upto(k, f)
    BY <1>2
  <2> DEFINE g == [i \in 0 .. k + 1 |-> IF i <= k THEN f[i] ELSE G[k + 1][f[k]]]
  <2>2. k + 1 \in 1 .. n /\ f[k] \in V /\ G[k + 1][f[k]] \in V
    OBVIOUS
  <2>3. g \in [0 .. k + 1 -> V]
    BY <2>2
  <2>4. ASSUME NEW i \in 1 .. k + 1 PROVE g[i] = G[i][g[i - 1]]
    <3>1. CASE i <= k
      BY <2>1, <3>1
    <3>2. CASE i = k + 1
      <4>1. g[k + 1] = G[k + 1][f[k]] /\ g[k] = f[k]
        OBVIOUS
      <4>2. i - 1 = k
        BY <3>2
      <4> HIDE DEF g
      <4> QED BY <3>2, <4>1, <4>2
    <3> QED BY <3>1, <3>2
  <2>5. g[0] = first
    BY <2>1
  <2> HIDE DEF g
  <2> QED BY <2>3, <2>4, <2>5
<1>3. n \in S
  <2> HIDE DEF S
  <2>1. \A i \in 0 .. n : i \in S
    BY <1>1, <1>2, StepsReach
  <2> QED BY <2>1
<1> QED BY <1>3 DEF Defined

\* What the walk of a pattern over a path can be at.
Spot(path) == {NoMatch} \union 0 .. Len(path)

\* The recursive definition of Walk has the values it says.
LEMMA WalkIs ==
  ASSUME NEW pat, NEW path, Len(pat.parts) \in Nat, Len(path) \in Nat,
         \A i \in 1 .. Len(pat.parts), pos \in Spot(path) :
           Advance(pat, path, i, pos) \in Spot(path)
  PROVE  /\ Walk(pat, path) \in [0 .. Len(pat.parts) -> Spot(path)]
         /\ Walk(pat, path)[0] = 0
         /\ \A i \in 1 .. Len(pat.parts) :
              Walk(pat, path)[i] = Advance(pat, path, i, Walk(pat, path)[i - 1])
<1> DEFINE Places == Spot(path)
           n == Len(pat.parts)
           G == [i \in 1 .. n |-> [pos \in Places |-> Advance(pat, path, i, pos)]]
           Next1(f) == [i \in 0 .. n |-> IF i = 0 THEN 0 ELSE Advance(pat, path, i, f[i - 1])]
           w == CHOOSE f : f = Next1(f)
<1>0. 0 \in Places
  BY DEF Spot
<1>1. G \in [1 .. n -> [Places -> Places]]
  OBVIOUS
<1>n. n \in Nat
  OBVIOUS
<1>2. PICK f : Defined(f, n, Places, 0, G)
  <2> HIDE DEF G, n, Places
  <2> QED BY <1>0, <1>1, <1>n, RecursionExists
<1>f. f \in [0 .. n -> Places] /\ f[0] = 0 /\ \A i \in 1 .. n : f[i] = G[i][f[i - 1]]
  <2> HIDE DEF G, n
  <2> QED BY <1>2 DEF Defined
<1>3. f = Next1(f)
  <2>1. ASSUME NEW i \in 1 .. n PROVE f[i] = Advance(pat, path, i, f[i - 1])
    <3>1. i - 1 \in 0 .. n
      OBVIOUS
    <3>2. f[i - 1] \in Places
      BY <1>f, <3>1
    <3>3. G[i][f[i - 1]] = Advance(pat, path, i, f[i - 1])
      BY <3>2
    <3> HIDE DEF G
    <3> QED BY <1>f, <3>3
  <2>2. \A i \in 0 .. n : f[i] = Next1(f)[i]
    BY <1>f, <2>1
  <2> QED BY <1>f, <2>2
<1>4. w = Next1(w)
  <2> HIDE DEF Next1
  <2> QED BY <1>3
<1>5. Walk(pat, path) = w
  BY DEF Walk
<1>6. w[0] = 0 /\ \A i \in 1 .. n : w[i] = Advance(pat, path, i, w[i - 1])
  <2> HIDE DEF w
  <2>1. \A i \in 0 .. n : w[i] = IF i = 0 THEN 0 ELSE Advance(pat, path, i, w[i - 1])
    BY <1>4
  <2> QED BY <1>n, <2>1
<1>7. w = [i \in 0 .. n |-> w[i]]
  <2> HIDE DEF w
  <2> QED BY <1>4
<1> DEFINE S == {i \in 0 .. n : w[i] \in Places}
<1>8. \A i \in 0 .. n : w[i] \in Places
  <2>1. 0 \in S
    BY <1>0, <1>6, <1>n
  <2>2. ASSUME NEW i \in 0 .. n - 1, i \in S PROVE i + 1 \in S
    <3> HIDE DEF w
    <3>1. i + 1 \in 1 .. n /\ (i + 1) - 1 = i /\ w[i] \in Places
      BY <1>n, <2>2
    <3>2. w[i + 1] = Advance(pat, path, i + 1, w[i])
      BY <1>6, <3>1
    <3> QED BY <3>1, <3>2
  <2> HIDE DEF S
  <2>3. \A i \in 0 .. n : i \in S
    BY <1>n, <2>1, <2>2, StepsReach
  <2> QED BY <2>3 DEF S
<1> HIDE DEF w
<1> QED BY <1>5, <1>6, <1>7, <1>8

-----------------------------------------------------------------------------
\* A set of natural numbers that is not empty has a least element.
LEMMA MinIs ==
  ASSUME NEW S \in SUBSET Nat, S # {}
  PROVE  Min(S) \in S /\ \A y \in S : Min(S) <= y
<1>0. S \subseteq Nat /\ S # {}
  OBVIOUS
<1>1. PICK m \in S : \A y \in S : ~(<<y, m>> \in OpToRel(<, Nat))
  BY <1>0, NatLessThanWellFounded, WFMin
<1>2. \A y \in S : ~(y < m)
  BY <1>0, <1>1 DEF OpToRel
<1>3. \A y \in S : m <= y
  BY <1>0, <1>2
<1> QED BY <1>3 DEF Min

PatternType(Chars) == [parts : Seq(Seq(Chars)) \ {<<>>}, anchored : BOOLEAN]

\* The parts of a pattern are words over its characters.
LEMMA PartsType ==
  ASSUME NEW Chars, NEW pat \in PatternType(Chars)
  PROVE  /\ pat.parts \in Seq(Seq(Chars)) /\ Len(pat.parts) \in Nat \ {0}
         /\ DOMAIN pat.parts = 1 .. Len(pat.parts)
         /\ \A i \in 1 .. Len(pat.parts) :
              pat.parts[i] \in Seq(Chars) /\ Len(pat.parts[i]) \in Nat
         /\ pat.anchored \in BOOLEAN
<1>1. pat.parts \in Seq(Seq(Chars)) /\ pat.parts # <<>> /\ pat.anchored \in BOOLEAN
  BY DEF PatternType
<1>2. Len(pat.parts) \in Nat \ {0} /\ DOMAIN pat.parts = 1 .. Len(pat.parts)
  BY <1>1, EmptySeq, LenProperties
<1>3. \A i \in 1 .. Len(pat.parts) : pat.parts[i] \in Seq(Chars)
  BY <1>1, ElementOfSeq
<1>4. \A i \in 1 .. Len(pat.parts) : Len(pat.parts[i]) \in Nat
  BY <1>3, LenProperties
<1> QED BY <1>1, <1>2, <1>3, <1>4

\* Occurrence, prefixes and suffixes, letter by letter.
LEMMA OccursIs ==
  ASSUME NEW Chars, NEW part \in Seq(Chars), NEW path \in Seq(Chars), NEW at \in Nat
  PROVE  Occurs(part, path, at) <=>
           /\ at + Len(part) <= Len(path)
           /\ \A k \in 1 .. Len(part) : path[at + k] = part[k]
<1>0. Len(part) \in Nat /\ Len(path) \in Nat
  BY LenProperties
<1> SUFFICES ASSUME at + Len(part) <= Len(path)
             PROVE  SubSeq(path, at + 1, at + Len(part)) = part
                      <=> \A k \in 1 .. Len(part) : path[at + k] = part[k]
  BY DEF Occurs
<1> DEFINE cut == SubSeq(path, at + 1, at + Len(part))
<1>1. cut \in Seq(Chars) /\ Len(cut) = Len(part)
      /\ \A k \in 1 .. Len(part) : cut[k] = path[at + k]
  BY <1>0
<1> HIDE DEF cut
<1>2. cut = part => \A k \in 1 .. Len(part) : path[at + k] = part[k]
  BY <1>1
<1>3. (\A k \in 1 .. Len(part) : path[at + k] = part[k]) => cut = part
  BY <1>1, SeqEqual
<1> QED BY <1>2, <1>3 DEF cut

LEMMA PrefixIs ==
  ASSUME NEW Chars, NEW s \in Seq(Chars), NEW t \in Seq(Chars)
  PROVE  IsPrefix(s, t) <=> Len(s) <= Len(t) /\ \A k \in 1 .. Len(s) : t[k] = s[k]
<1>0. Len(s) \in Nat /\ Len(t) \in Nat
  BY LenProperties
<1> SUFFICES ASSUME Len(s) <= Len(t)
             PROVE  SubSeq(s, 1, Len(s)) = SubSeq(t, 1, Len(s))
                      <=> \A k \in 1 .. Len(s) : t[k] = s[k]
  BY DEF IsPrefix
<1> DEFINE a == SubSeq(s, 1, Len(s))
           b == SubSeq(t, 1, Len(s))
<1>1. /\ a \in Seq(Chars) /\ Len(a) = Len(s) /\ \A k \in 1 .. Len(s) : a[k] = s[k]
      /\ b \in Seq(Chars) /\ Len(b) = Len(s) /\ \A k \in 1 .. Len(s) : b[k] = t[k]
  BY <1>0
<1> HIDE DEF a, b
<1>2. a = b => \A k \in 1 .. Len(s) : t[k] = s[k]
  BY <1>1
<1>3. (\A k \in 1 .. Len(s) : t[k] = s[k]) => a = b
  BY <1>1, SeqEqual
<1> QED BY <1>2, <1>3 DEF a, b

LEMMA PrefixOccurs ==
  ASSUME NEW Chars, NEW part \in Seq(Chars), NEW path \in Seq(Chars)
  PROVE  IsPrefix(part, path) <=> Occurs(part, path, 0)
<1>1. Len(part) \in Nat /\ Len(path) \in Nat
  BY LenProperties
<1> QED BY <1>1, PrefixIs, OccursIs

LEMMA SuffixOccurs ==
  ASSUME NEW Chars, NEW part \in Seq(Chars), NEW path \in Seq(Chars)
  PROVE  IsSuffix(part, path) <=>
           Len(part) <= Len(path) /\ Occurs(part, path, Len(path) - Len(part))
<1> DEFINE n == Len(part)
           m == Len(path)
           s == Reverse(part)
           t == Reverse(path)
<1>0. n \in Nat /\ m \in Nat
  BY LenProperties
<1>1. /\ s \in Seq(Chars) /\ Len(s) = n /\ \A k \in 1 .. n : s[k] = part[n - k + 1]
      /\ t \in Seq(Chars) /\ Len(t) = m /\ \A k \in 1 .. m : t[k] = path[m - k + 1]
  BY <1>0 DEF Reverse
<1>2. IsSuffix(part, path) <=> n <= m /\ \A k \in 1 .. n : t[k] = s[k]
  <2> HIDE DEF s, t
  <2>1. IsPrefix(s, t) <=> Len(s) <= Len(t) /\ \A k \in 1 .. Len(s) : t[k] = s[k]
    BY <1>1, PrefixIs
  <2> QED BY <1>1, <2>1 DEF IsSuffix, s, t
<1>3. ASSUME n <= m
      PROVE  (\A k \in 1 .. n : t[k] = s[k]) <=> \A k \in 1 .. n : path[m - n + k] = part[k]
  <2> HIDE DEF s, t
  <2>1. ASSUME \A k \in 1 .. n : t[k] = s[k], NEW k \in 1 .. n
        PROVE  path[m - n + k] = part[k]
    <3>1. n - k + 1 \in 1 .. n /\ n - k + 1 \in 1 .. m
      BY <1>0, <1>3
    <3>2. t[n - k + 1] = s[n - k + 1]
      BY <2>1, <3>1
    <3>3. t[n - k + 1] = path[m - (n - k + 1) + 1] /\ s[n - k + 1] = part[n - (n - k + 1) + 1]
      BY <1>1, <3>1
    <3>4. m - (n - k + 1) + 1 = m - n + k /\ n - (n - k + 1) + 1 = k
      BY <1>0
    <3> QED BY <3>2, <3>3, <3>4
  <2>2. ASSUME \A k \in 1 .. n : path[m - n + k] = part[k], NEW k \in 1 .. n
        PROVE  t[k] = s[k]
    <3>1. n - k + 1 \in 1 .. n /\ k \in 1 .. m
      BY <1>0, <1>3
    <3>2. path[m - n + (n - k + 1)] = part[n - k + 1]
      BY <2>2, <3>1
    <3>3. m - n + (n - k + 1) = m - k + 1
      BY <1>0
    <3> QED BY <1>1, <3>1, <3>2, <3>3
  <2> QED BY <2>1, <2>2
<1>4. n <= m => m - n \in Nat /\ (m - n) + n <= m
  BY <1>0
<1>5. n <= m => (Occurs(part, path, m - n) <=> \A k \in 1 .. n : path[m - n + k] = part[k])
  <2> HIDE DEF n, m
  <2>1. ASSUME n <= m
        PROVE  Occurs(part, path, m - n) <=>
                 /\ (m - n) + Len(part) <= Len(path)
                 /\ \A k \in 1 .. Len(part) : path[(m - n) + k] = part[k]
    BY <1>4, <2>1, OccursIs
  <2> QED BY <1>4, <2>1 DEF n, m
<1> HIDE DEF n, m, s, t
<1>6. IsSuffix(part, path) <=> n <= m /\ Occurs(part, path, m - n)
  BY <1>2, <1>3, <1>5
<1> QED BY <1>6 DEF n, m

-----------------------------------------------------------------------------
(* match decides Glob.                                                     *)

\* A path equals a part when the part occurs at its start and is as long.
LEMMA EqualIs ==
  ASSUME NEW Chars, NEW part \in Seq(Chars), NEW path \in Seq(Chars)
  PROVE  path = part <=> Len(part) = Len(path) /\ Occurs(part, path, 0)
<1>1. Len(part) \in Nat /\ Len(path) \in Nat
  BY LenProperties
<1>2. Occurs(part, path, 0) <=>
        /\ 0 + Len(part) <= Len(path)
        /\ \A k \in 1 .. Len(part) : path[0 + k] = part[k]
  BY OccursIs
<1>3. ASSUME path = part PROVE Len(part) = Len(path) /\ Occurs(part, path, 0)
  BY <1>1, <1>2, <1>3
<1>4. ASSUME Len(part) = Len(path), Occurs(part, path, 0) PROVE path = part
  <2>1. \A k \in 1 .. Len(part) : path[k] = part[k]
    BY <1>1, <1>2, <1>4
  <2> QED BY <1>4, <2>1, SeqEqual
<1> QED BY <1>3, <1>4

\* One step of the walk, from pos to: it stays on the path and keeps a failure, it puts the
\* part where it occurs and not before the place it was at, and it is never behind a place
\* where the part could be put.
StepOn(pat, path, i, pos, to) ==
  LET part == pat.parts[i] IN
  /\ to \in Spot(path)
  /\ pos = NoMatch => to = NoMatch
  /\ (i = 1 => pos = 0) /\ to # NoMatch =>
       /\ pos <= to - Len(part)
       /\ Occurs(part, path, to - Len(part))
       /\ i = 1 => to = Len(part)
  /\ \A at \in Nat :
       /\ pos # NoMatch /\ pos <= at /\ Occurs(part, path, at)
       /\ i = 1 => at = 0
       => to # NoMatch /\ to <= at + Len(part)

LEMMA AdvanceIs ==
  ASSUME NEW Chars, NEW pat \in PatternType(Chars), NEW path \in Seq(Chars),
         NEW i \in 1 .. Len(pat.parts), NEW pos \in Spot(path)
  PROVE  StepOn(pat, path, i, pos, Advance(pat, path, i, pos))
<1> DEFINE part  == pat.parts[i]
           to    == Advance(pat, path, i, pos)
           found == {at \in pos .. Len(path) : Occurs(part, path, at)}
           Good  == /\ to \in Spot(path)
                    /\ pos = NoMatch => to = NoMatch
                    /\ (i = 1 => pos = 0) /\ to # NoMatch =>
                         /\ pos <= to - Len(part)
                         /\ Occurs(part, path, to - Len(part))
                         /\ i = 1 => to = Len(part)
                    /\ \A at \in Nat :
                         /\ pos # NoMatch /\ pos <= at /\ Occurs(part, path, at)
                         /\ i = 1 => at = 0
                         => to # NoMatch /\ to <= at + Len(part)
<1>1. part \in Seq(Chars) /\ Len(part) \in Nat /\ Len(path) \in Nat
  BY PartsType, LenProperties
<1>2. to = IF pos = NoMatch \/ part = <<>> THEN pos
           ELSE IF i = 1 THEN (IF IsPrefix(part, path) THEN Len(part) ELSE NoMatch)
           ELSE IF found = {} THEN NoMatch ELSE Min(found) + Len(part)
  BY DEF Advance
<1>3. NoMatch = -1 /\ pos \in {-1} \union 0 .. Len(path)
  BY DEF NoMatch, Spot
<1>4. \A at \in Nat : Occurs(part, path, at) <=>
        /\ at + Len(part) <= Len(path)
        /\ \A k \in 1 .. Len(part) : path[at + k] = part[k]
  <2> HIDE DEF part
  <2> QED BY <1>1, OccursIs
<1>p. IsPrefix(part, path) <=> Occurs(part, path, 0)
  BY <1>1, PrefixOccurs
<1> SUFFICES Good
  BY DEF StepOn
<1>5. CASE pos = NoMatch
  <2>1. to = pos
    BY <1>2, <1>5
  <2> HIDE DEF to, part
  <2> QED BY <1>5, <2>1
<1>6. CASE pos # NoMatch /\ part = <<>>
  <2>1. to = pos /\ Len(part) = 0 /\ pos \in Nat /\ pos \in 0 .. Len(path)
    BY <1>1, <1>2, <1>3, <1>6, EmptySeq
  <2>2. Occurs(part, path, pos)
    BY <1>1, <1>4, <2>1
  <2> HIDE DEF to, part
  <2> QED BY <1>3, <1>6, <2>1, <2>2
<1>7. CASE pos # NoMatch /\ part # <<>> /\ i = 1
  <2>1. to = IF IsPrefix(part, path) THEN Len(part) ELSE NoMatch
    BY <1>2, <1>7
  <2>2. IsPrefix(part, path) => Len(part) <= Len(path)
    BY <1>1, <1>4, <1>p
  <2>3. Len(part) - Len(part) = 0
    BY <1>1
  <2> HIDE DEF to, part
  <2>4. to \in Spot(path)
    BY <1>1, <2>1, <2>2 DEF Spot
  <2>5. to # NoMatch => to = Len(part) /\ Occurs(part, path, to - Len(part)) /\ to - Len(part) = 0
    BY <1>p, <2>1, <2>3
  <2>6. Occurs(part, path, 0) => to # NoMatch /\ to <= 0 + Len(part)
    BY <1>1, <1>3, <1>p, <2>1
  <2> QED BY <1>7, <2>4, <2>5, <2>6
<1>8. CASE pos # NoMatch /\ part # <<>> /\ i # 1
  <2>1. to = IF found = {} THEN NoMatch ELSE Min(found) + Len(part)
    BY <1>2, <1>8
  <2>2. found \in SUBSET Nat
    BY <1>1, <1>3, <1>8
  <2>3. found # {} => Min(found) \in found /\ \A at \in found : Min(found) <= at
    BY <2>2, MinIs
  <2>4. \A at \in found : at \in Nat /\ pos <= at /\ Occurs(part, path, at)
                          /\ at + Len(part) <= Len(path)
    BY <1>1, <1>3, <1>4, <1>8
  <2>5. \A at \in Nat : pos <= at /\ Occurs(part, path, at) => at \in found
    BY <1>1, <1>3, <1>4, <1>8
  <2> HIDE DEF to, part, found
  <2>6. CASE found = {}
    BY <1>8, <2>1, <2>5, <2>6 DEF Spot
  <2>7. CASE found # {}
    <3> DEFINE m == Min(found)
    <3>1. m \in Nat /\ pos <= m /\ Occurs(part, path, m) /\ m + Len(part) <= Len(path)
          /\ to = m + Len(part) /\ \A at \in found : m <= at
      BY <2>1, <2>3, <2>4, <2>7
    <3> HIDE DEF m
    <3>2. to \in 0 .. Len(path) /\ to - Len(part) = m /\ to # NoMatch
      BY <1>1, <1>3, <3>1
    <3>3. \A at \in Nat : pos <= at /\ Occurs(part, path, at) => to <= at + Len(part)
      BY <1>1, <2>5, <3>1
    <3> QED BY <1>8, <3>1, <3>2, <3>3 DEF Spot
  <2> QED BY <2>6, <2>7
<1> QED BY <1>5, <1>6, <1>7, <1>8

\* The whole walk consists of such steps.
LEMMA WalkSteps ==
  ASSUME NEW Chars, NEW pat \in PatternType(Chars), NEW path \in Seq(Chars)
  PROVE  LET w == Walk(pat, path) IN
         /\ w \in [0 .. Len(pat.parts) -> Spot(path)]
         /\ w[0] = 0
         /\ \A i \in 1 .. Len(pat.parts) :
              (i = 1 => w[i - 1] = 0) /\ StepOn(pat, path, i, w[i - 1], w[i])
<1> DEFINE w == Walk(pat, path)
<1>1. Len(pat.parts) \in Nat /\ Len(path) \in Nat
  BY PartsType, LenProperties
<1>2. \A i \in 1 .. Len(pat.parts), pos \in Spot(path) :
        Advance(pat, path, i, pos) \in Spot(path)
  BY AdvanceIs DEF StepOn
<1>3. /\ w \in [0 .. Len(pat.parts) -> Spot(path)]
      /\ w[0] = 0
      /\ \A i \in 1 .. Len(pat.parts) : w[i] = Advance(pat, path, i, w[i - 1])
  BY <1>1, <1>2, WalkIs
<1> HIDE DEF w
<1>4. ASSUME NEW i \in 1 .. Len(pat.parts)
      PROVE  (i = 1 => w[i - 1] = 0) /\ StepOn(pat, path, i, w[i - 1], w[i])
  <2>1. i - 1 \in 0 .. Len(pat.parts) /\ (i = 1 => i - 1 = 0)
    BY <1>1
  <2>2. w[i - 1] \in Spot(path) /\ (i = 1 => w[i - 1] = 0)
    BY <1>3, <2>1
  <2>3. StepOn(pat, path, i, w[i - 1], Advance(pat, path, i, w[i - 1]))
    BY <2>2, AdvanceIs
  <2> QED BY <1>3, <2>2, <2>3
<1> QED BY <1>3, <1>4 DEF w

\* A layout of the parts that Glob accepts.
Layout(at, pat, path) ==
  LET n == Len(pat.parts) IN
  /\ at[1] = 0
  /\ \A i \in 1 .. n : Occurs(pat.parts[i], path, at[i])
  /\ \A i \in 1 .. n - 1 : at[i] + Len(pat.parts[i]) <= at[i + 1]
  /\ pat.anchored => at[n] + Len(pat.parts[n]) = Len(path)

\* A pattern of several parts that matches has a layout: the walk's own, with an anchored
\* last part moved to the end.
LEMMA MatchHasLayout ==
  ASSUME NEW Chars, NEW pat \in PatternType(Chars), NEW path \in Seq(Chars),
         Len(pat.parts) # 1, Match(pat, path)
  PROVE  \E at \in [1 .. Len(pat.parts) -> 0 .. Len(path)] : Layout(at, pat, path)
<1> DEFINE n == Len(pat.parts)
           w == Walk(pat, path)
           len == [i \in 1 .. n |-> Len(pat.parts[i])]
           last == pat.parts[n]
           end == Len(path) - len[n]
           at == [i \in 1 .. n |-> IF pat.anchored /\ i = n THEN end ELSE w[i] - len[i]]
<1>1. /\ n \in Nat /\ n >= 2 /\ Len(path) \in Nat
      /\ \A i \in 1 .. n : pat.parts[i] \in Seq(Chars) /\ len[i] \in Nat
  <2>1. n \in Nat /\ n >= 2 /\ Len(path) \in Nat
    <3>1. n \in Nat \ {0} /\ n # 1
      BY PartsType
    <3>2. Len(path) \in Nat
      BY LenProperties
    <3> HIDE DEF n
    <3> QED BY <3>1, <3>2
  <2>2. \A i \in 1 .. n : pat.parts[i] \in Seq(Chars) /\ Len(pat.parts[i]) \in Nat
    BY PartsType
  <2> QED BY <2>1, <2>2
<1>2. /\ w \in [0 .. n -> Spot(path)] /\ w[0] = 0
      /\ \A i \in 1 .. n : w[i] # NoMatch =>
           /\ w[i - 1] # NoMatch
           /\ w[i - 1] <= w[i] - len[i]
           /\ Occurs(pat.parts[i], path, w[i] - len[i])
           /\ i = 1 => w[i] = len[i]
  <2>1. /\ w \in [0 .. n -> Spot(path)] /\ w[0] = 0
        /\ \A i \in 1 .. n : w[i] # NoMatch =>
             /\ w[i - 1] # NoMatch
             /\ w[i - 1] <= w[i] - Len(pat.parts[i])
             /\ Occurs(pat.parts[i], path, w[i] - Len(pat.parts[i]))
             /\ i = 1 => w[i] = Len(pat.parts[i])
    BY WalkSteps DEF StepOn
  <2>2. \A i \in 1 .. n : len[i] = Len(pat.parts[i])
    OBVIOUS
  <2> HIDE DEF w, n, len
  <2> QED BY <2>1, <2>2
<1>3. w[n] # NoMatch /\ (pat.anchored => last = <<>> \/ IsSuffix(last, path))
  BY DEF Match, Position
<1>4. pat.anchored => end \in Nat /\ Occurs(last, path, end)
  <2> SUFFICES ASSUME pat.anchored PROVE len[n] <= Len(path) /\ Occurs(last, path, Len(path) - Len(last))
    <3>1. n \in 1 .. n /\ len[n] = Len(last) /\ len[n] \in Nat
      BY <1>1
    <3> HIDE DEF last, len
    <3> QED BY <1>1, <3>1
  <2>1. last \in Seq(Chars) /\ len[n] = Len(last)
    <3>1. n \in 1 .. n
      BY <1>1
    <3> QED BY <1>1, <3>1
  <2>2. CASE last = <<>>
    <3>1. Len(last) = 0 /\ Len(path) - Len(last) = Len(path)
      BY <1>1, <2>1, <2>2, EmptySeq
    <3>2. Occurs(last, path, Len(path))
      <4>1. Len(path) + Len(last) <= Len(path) /\ 1 .. Len(last) = {}
        BY <1>1, <3>1
      <4> HIDE DEF last
      <4> QED BY <1>1, <2>1, <4>1, OccursIs
    <3> QED BY <1>1, <2>1, <3>1, <3>2
  <2>3. CASE IsSuffix(last, path)
    BY <2>1, <2>3, SuffixOccurs
  <2> QED BY <1>3, <2>2, <2>3
<1>5. \A i \in 0 .. n : w[i] # NoMatch
  <2> DEFINE S == {k \in 0 .. n : w[n - k] # NoMatch}
  <2> HIDE DEF w, len
  <2>1. 0 \in S
    BY <1>1, <1>3
  <2>2. ASSUME NEW k \in 0 .. n - 1, k \in S PROVE k + 1 \in S
    <3>1. n - k \in 1 .. n /\ (n - k) - 1 = n - (k + 1) /\ k + 1 \in 0 .. n /\ w[n - k] # NoMatch
      BY <1>1, <2>2
    <3>2. w[(n - k) - 1] # NoMatch
      BY <1>2, <3>1
    <3> QED BY <3>1, <3>2
  <2>3. \A k \in 0 .. n : k \in S
    <3> HIDE DEF S, n
    <3> QED BY <1>1, <2>1, <2>2, StepsReach
  <2>4. ASSUME NEW i \in 0 .. n PROVE w[i] # NoMatch
    <3>1. n - i \in 0 .. n /\ n - (n - i) = i
      BY <1>1
    <3>2. n - i \in S
      BY <2>3, <3>1
    <3> QED BY <3>1, <3>2
  <2> QED BY <2>4
<1> HIDE DEF w, n, len
<1>6. \A i \in 1 .. n : /\ w[i] \in 0 .. Len(path) /\ i - 1 \in 0 .. n
                        /\ w[i - 1] \in 0 .. Len(path) /\ w[i - 1] <= w[i] - len[i]
                        /\ Occurs(pat.parts[i], path, w[i] - len[i])
                        /\ len[i] \in Nat /\ (i = 1 => w[i] = len[i])
  <2> TAKE i \in 1 .. n
  <2>1. i - 1 \in 0 .. n /\ i \in 0 .. n
    BY <1>1
  <2>2. w[i] \in Spot(path) \ {NoMatch} /\ w[i - 1] \in Spot(path) \ {NoMatch}
    BY <1>2, <1>5, <2>1
  <2>3. w[i] \in 0 .. Len(path) /\ w[i - 1] \in 0 .. Len(path)
    BY <2>2 DEF Spot
  <2> QED BY <1>1, <1>2, <1>5, <2>1, <2>3
<1>7. \A i \in 1 .. n : /\ at[i] = IF pat.anchored /\ i = n THEN end ELSE w[i] - len[i]
                        /\ at[i] \in 0 .. Len(path)
                        /\ w[i - 1] <= at[i]
                        /\ Occurs(pat.parts[i], path, at[i])
  <2> TAKE i \in 1 .. n
  <2>1. at[i] = IF pat.anchored /\ i = n THEN end ELSE w[i] - len[i]
    OBVIOUS
  <2> HIDE DEF at
  <2>2. CASE pat.anchored /\ i = n
    <3>1. at[i] = end /\ w[i] <= Len(path) /\ i = n /\ end = Len(path) - len[n]
      BY <1>6, <2>1, <2>2
    <3>2. end \in Nat /\ Occurs(pat.parts[i], path, at[i])
      BY <1>4, <2>1, <2>2
    <3>3. w[i - 1] \in Nat /\ w[i - 1] <= w[i] - len[i] /\ len[i] \in Nat /\ w[i] \in Nat
      BY <1>6
    <3> HIDE DEF end
    <3>4. w[i - 1] <= end /\ end <= Len(path)
      BY <1>1, <3>1, <3>2, <3>3
    <3> QED BY <1>1, <2>1, <3>1, <3>2, <3>4
  <2>3. CASE ~(pat.anchored /\ i = n)
    BY <1>1, <1>6, <2>1, <2>3
  <2> QED BY <2>2, <2>3
<1>8. at \in [1 .. n -> 0 .. Len(path)]
  BY <1>7
<1>9. at[1] = 0
  <2>1. 1 \in 1 .. n /\ 1 # n
    BY <1>1
  <2>2. w[1] = len[1] /\ len[1] \in Nat
    BY <1>6, <2>1
  <2> QED BY <1>7, <2>1, <2>2
<1>10. ASSUME NEW i \in 1 .. n - 1 PROVE at[i] + len[i] <= at[i + 1]
  <2>1. i \in 1 .. n /\ i + 1 \in 1 .. n /\ i # n /\ (i + 1) - 1 = i
    BY <1>1
  <2>2. w[i] <= at[i + 1] /\ at[i] = w[i] - len[i]
    <3> HIDE DEF at, end
    <3>1. w[(i + 1) - 1] <= at[i + 1]
      BY <1>7, <2>1
    <3>2. at[i] = IF pat.anchored /\ i = n THEN end ELSE w[i] - len[i]
      BY <1>7, <2>1
    <3> QED BY <2>1, <3>1, <3>2
  <2>3. w[i] \in Nat /\ len[i] \in Nat
    BY <1>1, <1>6, <2>1
  <2> QED BY <2>2, <2>3
<1>11. pat.anchored => at[n] + len[n] = Len(path)
  BY <1>1, <1>7
<1> HIDE DEF at
<1>12. Layout(at, pat, path)
  <2>1. \A i \in 1 .. n : len[i] = Len(pat.parts[i])
    BY DEF len
  <2>2. \A i \in 1 .. n - 1 : at[i] + Len(pat.parts[i]) <= at[i + 1]
    BY <1>1, <1>10, <2>1
  <2>3. pat.anchored => at[n] + Len(pat.parts[n]) = Len(path)
    BY <1>1, <1>11, <2>1
  <2> QED BY <1>7, <1>9, <2>2, <2>3 DEF Layout, n
<1> QED BY <1>8, <1>12 DEF n

\* The walk is never behind a layout: a path with a layout is matched.
LEMMA LayoutIsMatched ==
  ASSUME NEW Chars, NEW pat \in PatternType(Chars), NEW path \in Seq(Chars),
         Len(pat.parts) # 1,
         NEW at \in [1 .. Len(pat.parts) -> 0 .. Len(path)], Layout(at, pat, path)
  PROVE  Match(pat, path)
<1> DEFINE n == Len(pat.parts)
           w == Walk(pat, path)
           len == [i \in 1 .. n |-> Len(pat.parts[i])]
           last == pat.parts[n]
           S == {i \in 0 .. n : w[i] # NoMatch /\ (i = 0 \/ w[i] <= at[i] + len[i])}
<1>1. /\ n \in Nat /\ n >= 2 /\ Len(path) \in Nat
      /\ \A i \in 1 .. n : pat.parts[i] \in Seq(Chars) /\ len[i] \in Nat
  <2>1. n \in Nat /\ n >= 2 /\ Len(path) \in Nat
    <3>1. n \in Nat \ {0} /\ n # 1
      BY PartsType
    <3>2. Len(path) \in Nat
      BY LenProperties
    <3> HIDE DEF n
    <3> QED BY <3>1, <3>2
  <2>2. \A i \in 1 .. n : pat.parts[i] \in Seq(Chars) /\ Len(pat.parts[i]) \in Nat
    BY PartsType
  <2> QED BY <2>1, <2>2
<1>2. /\ w \in [0 .. n -> Spot(path)] /\ w[0] = 0
      /\ \A i \in 1 .. n : \A p \in Nat :
           /\ w[i - 1] # NoMatch /\ w[i - 1] <= p /\ Occurs(pat.parts[i], path, p)
           /\ i = 1 => p = 0
           => w[i] # NoMatch /\ w[i] <= p + len[i]
  <2>1. /\ w \in [0 .. n -> Spot(path)] /\ w[0] = 0
        /\ \A i \in 1 .. n : \A p \in Nat :
             /\ w[i - 1] # NoMatch /\ w[i - 1] <= p /\ Occurs(pat.parts[i], path, p)
             /\ i = 1 => p = 0
             => w[i] # NoMatch /\ w[i] <= p + Len(pat.parts[i])
    <3>1. /\ w \in [0 .. n -> Spot(path)] /\ w[0] = 0
          /\ \A i \in 1 .. n : StepOn(pat, path, i, w[i - 1], w[i])
      BY WalkSteps
    <3> HIDE DEF w, n
    <3> QED BY <3>1 DEF StepOn
  <2>2. \A i \in 1 .. n : len[i] = Len(pat.parts[i])
    OBVIOUS
  <2> HIDE DEF w, n, len
  <2> QED BY <2>1, <2>2
<1>3. /\ at[1] = 0
      /\ \A i \in 1 .. n : Occurs(pat.parts[i], path, at[i]) /\ at[i] \in Nat
      /\ \A i \in 1 .. n - 1 : at[i] + len[i] <= at[i + 1]
      /\ pat.anchored => at[n] + Len(last) = Len(path)
  <2>1. /\ at[1] = 0
        /\ \A i \in 1 .. n : Occurs(pat.parts[i], path, at[i])
        /\ \A i \in 1 .. n - 1 : at[i] + Len(pat.parts[i]) <= at[i + 1]
        /\ pat.anchored => at[n] + Len(last) = Len(path)
    BY DEF Layout
  <2>2. \A i \in 1 .. n - 1 : len[i] = Len(pat.parts[i])
    BY <1>1
  <2>3. \A i \in 1 .. n : at[i] \in Nat
    BY <1>1
  <2> HIDE DEF n, len, last
  <2> QED BY <2>1, <2>2, <2>3
<1> HIDE DEF w, n, len
<1>4. 0 \in S
  BY <1>1, <1>2 DEF NoMatch
<1>5. ASSUME NEW i \in 0 .. n - 1, i \in S PROVE i + 1 \in S
  <2>1. i + 1 \in 1 .. n /\ i + 1 \in 0 .. n /\ (i + 1) - 1 = i /\ i \in 0 .. n
    BY <1>1
  <2>2. w[i] # NoMatch /\ at[i + 1] \in Nat /\ Occurs(pat.parts[i + 1], path, at[i + 1])
        /\ (i + 1 = 1 => at[i + 1] = 0)
    BY <1>3, <1>5, <2>1
  <2>3. w[i] <= at[i + 1]
    <3>1. CASE i = 0
      BY <1>2, <1>3, <3>1
    <3>2. CASE i # 0
      <4>1. i \in 1 .. n - 1 /\ i \in 1 .. n
        BY <1>1, <3>2
      <4>2. w[i] <= at[i] + len[i] /\ at[i] + len[i] <= at[i + 1] /\ at[i] \in Nat /\ len[i] \in Nat
        BY <1>1, <1>3, <1>5, <3>2, <4>1
      <4>3. w[i] \in Int
        BY <1>1, <1>2, <2>1 DEF Spot, NoMatch
      <4> QED BY <2>2, <4>2, <4>3
    <3> QED BY <3>1, <3>2
  <2>4. w[i + 1] # NoMatch /\ w[i + 1] <= at[i + 1] + len[i + 1]
    BY <1>2, <2>1, <2>2, <2>3
  <2> QED BY <2>1, <2>4
<1>6. w[n] # NoMatch
  <2>1. \A i \in 0 .. n : i \in S
    <3> HIDE DEF S
    <3> QED BY <1>1, <1>4, <1>5, StepsReach
  <2> QED BY <1>1, <2>1
<1>7. pat.anchored => IsSuffix(last, path)
  <2> SUFFICES ASSUME pat.anchored PROVE IsSuffix(last, path)
    OBVIOUS
  <2>1. n \in 1 .. n /\ last \in Seq(Chars) /\ Len(last) \in Nat
    BY <1>1, LenProperties
  <2>2. at[n] \in Nat /\ at[n] + Len(last) = Len(path) /\ Occurs(last, path, at[n])
    BY <1>3, <2>1
  <2> HIDE DEF last
  <2>3. at[n] = Len(path) - Len(last) /\ Len(last) <= Len(path)
    <3> DEFINE a == at[n]
               l == Len(last)
    <3>1. a \in Nat /\ l \in Nat /\ a + l = Len(path)
      BY <2>1, <2>2
    <3> HIDE DEF a, l
    <3>2. a = Len(path) - l /\ l <= Len(path)
      BY <1>1, <3>1
    <3> QED BY <3>2 DEF a, l
  <2> QED BY <2>1, <2>2, <2>3, SuffixOccurs
<1> QED BY <1>6, <1>7 DEF Match, Position, n, w

\* match decides what a pattern means, for every pattern and every path, although it
\* never backtracks.
LEMMA MatchDecides ==
  ASSUME NEW Chars, NEW pat \in PatternType(Chars), NEW path \in Seq(Chars)
  PROVE  Match(pat, path) = Glob(pat, path)
<1>1. Glob(pat, path) <=>
        \E at \in [1 .. Len(pat.parts) -> 0 .. Len(path)] : Layout(at, pat, path)
  BY DEF Glob, Layout
<1>2. pat.anchored \in BOOLEAN /\ Len(path) \in Nat
  BY PartsType, LenProperties
<1>3. CASE Len(pat.parts) = 1
  <2> DEFINE part == pat.parts[1]
  <2>1. part \in Seq(Chars) /\ Len(part) \in Nat
    BY <1>3, PartsType, LenProperties
  <2>2. Match(pat, path) <=> IF pat.anchored THEN path = part ELSE IsPrefix(part, path)
    BY <1>3 DEF Match
  <2>3. Match(pat, path) <=> /\ Occurs(part, path, 0)
                             /\ pat.anchored => Len(part) = Len(path)
    <3> HIDE DEF part
    <3> QED BY <2>1, <2>2, EqualIs, PrefixOccurs
  <2>4. ASSUME Occurs(part, path, 0), pat.anchored => Len(part) = Len(path)
        PROVE  Glob(pat, path)
    <3> DEFINE at == [i \in 1 .. 1 |-> 0]
    <3>1. at \in [1 .. Len(pat.parts) -> 0 .. Len(path)]
      BY <1>2, <1>3
    <3>2. at[1] = 0 /\ 0 + Len(part) = Len(part)
      BY <2>1
    <3>3. Layout(at, pat, path)
      <4> HIDE DEF at
      <4> QED BY <1>3, <2>4, <3>2 DEF Layout
    <3> HIDE DEF at
    <3> QED BY <1>1, <3>1, <3>3
  <2>5. ASSUME Glob(pat, path)
        PROVE  Occurs(part, path, 0) /\ (pat.anchored => Len(part) = Len(path))
    <3>1. PICK at : Layout(at, pat, path)
      BY <1>1, <2>5
    <3> QED BY <1>3, <2>1, <3>1 DEF Layout
  <2>6. Match(pat, path) \in BOOLEAN /\ Glob(pat, path) \in BOOLEAN
    BY <1>3 DEF Match, Glob, IsPrefix
  <2> QED BY <2>3, <2>4, <2>5, <2>6
<1>4. CASE Len(pat.parts) # 1
  <2>1. Match(pat, path) <=> Glob(pat, path)
    BY <1>1, <1>4, MatchHasLayout, LayoutIsMatched
  <2>2. Match(pat, path) \in BOOLEAN /\ Glob(pat, path) \in BOOLEAN
    BY <1>4 DEF Match, Glob
  <2> QED BY <2>1, <2>2
<1> QED BY <1>3, <1>4

-----------------------------------------------------------------------------
(* The greatest of a bounded set of integers.                              *)

\* The greatest element of a set of integers with a bound.
LEMMA MaxIs ==
  ASSUME NEW S \in SUBSET Int, S # {}, NEW b \in Int, \A y \in S : y <= b
  PROVE  Max(S) \in S /\ \A y \in S : y <= Max(S)
<1> DEFINE T == {b - y : y \in S}
<1>1. T \in SUBSET Nat /\ T # {}
  <2>1. \A y \in S : b - y \in Nat
    OBVIOUS
  <2> QED BY <2>1
<1>2. Min(T) \in T /\ \A t \in T : Min(T) <= t
  BY <1>1, MinIs
<1>3. PICK x \in S : Min(T) = b - x
  BY <1>2
<1>4. \A y \in S : y <= x
  <2> TAKE y \in S
  <2>1. b - y \in T
    OBVIOUS
  <2>2. b - x <= b - y /\ x \in Int /\ y \in Int
    BY <1>2, <1>3, <2>1
  <2> QED BY <2>2
<1>5. \E m \in S : \A y \in S : y <= m
  BY <1>4
<1>6. \E m \in S : \A y \in S : m >= y
  BY <1>5
<1> QED BY <1>6 DEF Max

\* The values of a function on 1 .. n are bounded.
LEMMA ValuesBounded ==
  ASSUME NEW n \in Nat, NEW f \in [1 .. n -> Int]
  PROVE  \E b \in Nat : \A i \in 1 .. n : f[i] <= b
<1> DEFINE S == {k \in 0 .. n : \E b \in Nat : \A i \in 1 .. k : f[i] <= b}
<1>1. 0 \in S
  OBVIOUS
<1>2. ASSUME NEW k \in 0 .. n - 1, k \in S PROVE k + 1 \in S
  <2>1. PICK b \in Nat : \A i \in 1 .. k : f[i] <= b
    BY <1>2
  <2>2. k + 1 \in 1 .. n /\ f[k + 1] \in Int
    OBVIOUS
  <2>3. PICK c \in Nat : b <= c /\ f[k + 1] <= c
    <3> DEFINE v == f[k + 1]
    <3> HIDE DEF v
    <3>1. v \in Int
      BY <2>2 DEF v
    <3>2. (IF v <= b THEN b ELSE v) \in Nat
      BY <3>1
    <3>3. b <= (IF v <= b THEN b ELSE v) /\ v <= (IF v <= b THEN b ELSE v)
      BY <3>1
    <3>4. \E c \in Nat : b <= c /\ v <= c
      BY <3>2, <3>3
    <3> QED BY <3>4 DEF v
  <2>4. ASSUME NEW i \in 1 .. k + 1 PROVE f[i] <= c
    <3>1. CASE i <= k
      <4>1. i \in 1 .. k /\ f[i] \in Int
        BY <3>1
      <4> QED BY <2>1, <2>3, <4>1
    <3>2. CASE ~(i <= k)
      <4>1. i = k + 1
        BY <3>2
      <4> QED BY <2>3, <4>1
    <3> QED BY <3>1, <3>2
  <2> QED BY <2>2, <2>4
<1>3. \A k \in 0 .. n : k \in S
  <2> HIDE DEF S
  <2> QED BY <1>1, <1>2, StepsReach
<1>4. n \in S
  <2> HIDE DEF S
  <2> QED BY <1>3
<1> QED BY <1>4

-----------------------------------------------------------------------------
(* The head of a line.                                                     *)

Agent(read, j) == read[j].field = "user-agent"
Unbroken(read, j, k) == \A m \in j .. k : read[m].field \in {"user-agent", "junk"}

IsHead(read, i, x) ==
  \/ x = 0 /\ \A j \in 1 .. i : ~Agent(read, j)
  \/ \E last \in 1 .. i :
       /\ Agent(read, last) /\ \A j \in 1 .. i : Agent(read, j) => j <= last
       /\ x \in 1 .. last /\ Agent(read, x) /\ Unbroken(read, x, last)
       /\ \A j \in 1 .. last : Agent(read, j) /\ Unbroken(read, j, last) => x <= j

\* The definition of HeadOf gives a head.
LEMMA HeadIs ==
  ASSUME NEW read, NEW i \in Nat
  PROVE  IsHead(read, i, HeadOf(read, i)) /\ HeadOf(read, i) \in 0 .. i
<1> DEFINE agents == {j \in 1 .. i : Agent(read, j)}
           last   == Max(agents)
           heads  == {j \in agents : Unbroken(read, j, last)}
<1>1. HeadOf(read, i) = IF agents = {} THEN 0 ELSE Min(heads)
  BY DEF HeadOf, Agent, Unbroken
<1>2. CASE agents = {}
  <2>1. HeadOf(read, i) = 0
    BY <1>1, <1>2
  <2>2. \A j \in 1 .. i : ~Agent(read, j)
    BY <1>2
  <2> QED BY <2>1, <2>2 DEF IsHead
<1>3. CASE agents # {}
  <2>1. agents \in SUBSET Int /\ i \in Int /\ \A y \in agents : y <= i
    OBVIOUS
  <2> HIDE DEF agents
  <2>2. last \in agents /\ \A y \in agents : y <= last
    BY <1>3, <2>1, MaxIs
  <2> HIDE DEF last
  <2>3. last \in 1 .. i /\ Agent(read, last)
    BY <2>2 DEF agents
  <2>4. Unbroken(read, last, last)
    BY <2>3 DEF Unbroken, Agent
  <2>5. heads \in SUBSET Nat /\ heads # {}
    BY <2>2, <2>4 DEF agents
  <2> DEFINE x == Min(heads)
  <2>6. x \in heads /\ \A y \in heads : x <= y
    <3> HIDE DEF heads
    <3> QED BY <2>5, MinIs
  <2> HIDE DEF x
  <2>7. x \in 1 .. i /\ Agent(read, x) /\ x <= last /\ Unbroken(read, x, last)
    BY <2>2, <2>6 DEF agents
  <2>8. \A j \in 1 .. last : Agent(read, j) /\ Unbroken(read, j, last) => x <= j
    BY <2>3, <2>6 DEF agents
  <2>9. \A j \in 1 .. i : Agent(read, j) => j <= last
    BY <2>2 DEF agents
  <2>10. IsHead(read, i, x)
    <3>1. x \in 1 .. last
      BY <2>3, <2>7
    <3> QED BY <2>3, <2>7, <2>8, <2>9, <3>1 DEF IsHead
  <2>11. HeadOf(read, i) = x
    BY <1>1, <1>3 DEF x
  <2> QED BY <2>7, <2>10, <2>11
<1> QED BY <1>2, <1>3

\* A line has one head.
LEMMA HeadUnique ==
  ASSUME NEW read, NEW i \in Nat, NEW x, IsHead(read, i, x)
  PROVE  HeadOf(read, i) = x
<1> DEFINE y == HeadOf(read, i)
<1>1. IsHead(read, i, y)
  BY HeadIs
<1> HIDE DEF y
<1>2. CASE \A j \in 1 .. i : ~Agent(read, j)
  BY <1>1, <1>2 DEF IsHead, y
<1>3. CASE \E j \in 1 .. i : Agent(read, j)
  <2>1. PICK last \in 1 .. i :
          /\ Agent(read, last) /\ \A j \in 1 .. i : Agent(read, j) => j <= last
          /\ x \in 1 .. last /\ Agent(read, x) /\ Unbroken(read, x, last)
          /\ \A j \in 1 .. last : Agent(read, j) /\ Unbroken(read, j, last) => x <= j
    BY <1>3 DEF IsHead
  <2>2. PICK last2 \in 1 .. i :
          /\ Agent(read, last2) /\ \A j \in 1 .. i : Agent(read, j) => j <= last2
          /\ y \in 1 .. last2 /\ Agent(read, y) /\ Unbroken(read, y, last2)
          /\ \A j \in 1 .. last2 : Agent(read, j) /\ Unbroken(read, j, last2) => y <= j
    BY <1>1, <1>3 DEF IsHead
  <2>3. last = last2
    BY <2>1, <2>2
  <2>4. x <= y /\ y <= x
    BY <2>1, <2>2, <2>3
  <2> QED BY <2>1, <2>2, <2>4 DEF y
<1> QED BY <1>2, <1>3

\* An unbroken run of User-agent lines that reaches the end of what is read.
Open(read) ==
  \E j \in 1 .. Len(read) : Agent(read, j) /\ Unbroken(read, j, Len(read))

\* A sequence with one more element.
LEMMA AppendIs ==
  ASSUME NEW Line, NEW read \in Seq(Line), NEW l \in Line
  PROVE  LET more == Append(read, l) IN
         /\ Len(read) \in Nat /\ DOMAIN read = 1 .. Len(read)
         /\ more \in Seq(Line) /\ Len(more) = Len(read) + 1
         /\ DOMAIN more = 1 .. Len(read) + 1
         /\ \A j \in 1 .. Len(read) : more[j] = read[j]
         /\ more[Len(read) + 1] = l
  BY AppendProperties, LenProperties

\* More lines do not change the head of a line.
LEMMA HeadStable ==
  ASSUME NEW Line, NEW read \in Seq(Line), NEW l \in Line, NEW i \in 0 .. Len(read)
  PROVE  HeadOf(Append(read, l), i) = HeadOf(read, i)
<1> DEFINE more == Append(read, l)
           x == HeadOf(read, i)
<1>1. Len(read) \in Nat /\ \A j \in 1 .. Len(read) : more[j] = read[j]
  BY AppendIs
<1>2. IsHead(read, i, x)
  BY <1>1, HeadIs
<1> HIDE DEF more, x
<1>3. \A j \in 1 .. i : Agent(more, j) <=> Agent(read, j)
  BY <1>1 DEF Agent
<1>4. \A k \in 1 .. i : \A j \in 1 .. k : Unbroken(more, j, k) <=> Unbroken(read, j, k)
  BY <1>1 DEF Unbroken
<1>5. IsHead(more, i, x)
  <2>1. CASE x = 0 /\ \A j \in 1 .. i : ~Agent(read, j)
    BY <1>3, <2>1 DEF IsHead
  <2>2. CASE \E last \in 1 .. i :
               /\ Agent(read, last) /\ \A j \in 1 .. i : Agent(read, j) => j <= last
               /\ x \in 1 .. last /\ Agent(read, x) /\ Unbroken(read, x, last)
               /\ \A j \in 1 .. last : Agent(read, j) /\ Unbroken(read, j, last) => x <= j
    <3>1. PICK last \in 1 .. i :
               /\ Agent(read, last) /\ \A j \in 1 .. i : Agent(read, j) => j <= last
               /\ x \in 1 .. last /\ Agent(read, x) /\ Unbroken(read, x, last)
               /\ \A j \in 1 .. last : Agent(read, j) /\ Unbroken(read, j, last) => x <= j
      BY <2>2
    <3>2. 1 .. last \subseteq 1 .. i
      BY <1>1
    <3>3. /\ Agent(more, last) /\ \A j \in 1 .. i : Agent(more, j) => j <= last
          /\ x \in 1 .. last /\ Agent(more, x) /\ Unbroken(more, x, last)
          /\ \A j \in 1 .. last : Agent(more, j) /\ Unbroken(more, j, last) => x <= j
      BY <1>3, <1>4, <3>1, <3>2
    <3> QED BY <3>3 DEF IsHead
  <2> QED BY <1>2, <2>1, <2>2 DEF IsHead
<1>6. i \in Nat
  BY <1>1
<1> QED BY <1>5, <1>6, HeadUnique DEF more, x

\* The head of a new line: its own if it is a User-agent line that no run reaches, else
\* the head of the line before it.
LEMMA HeadNext ==
  ASSUME NEW Line, NEW read \in Seq(Line), NEW l \in Line
  PROVE  HeadOf(Append(read, l), Len(read) + 1) =
           IF l.field = "user-agent" /\ ~Open(read) THEN Len(read) + 1
           ELSE HeadOf(read, Len(read))
<1> DEFINE more == Append(read, l)
           n == Len(read)
           x == HeadOf(read, n)
<1>1. n \in Nat /\ (\A j \in 1 .. n : more[j] = read[j]) /\ more[n + 1] = l
  BY AppendIs
<1>2. IsHead(read, n, x)
  BY <1>1, HeadIs
<1> HIDE DEF more, n, x
<1>3. /\ \A j \in 1 .. n : Agent(more, j) <=> Agent(read, j)
      /\ Agent(more, n + 1) <=> l.field = "user-agent"
  BY <1>1 DEF Agent
<1>4. \A k \in 1 .. n : \A j \in 1 .. k : Unbroken(more, j, k) <=> Unbroken(read, j, k)
  BY <1>1 DEF Unbroken
<1>5. l.field = "user-agent" => \A j \in 1 .. n : Unbroken(more, j, n + 1) <=> Unbroken(read, j, n)
  BY <1>1 DEF Unbroken
<1>6. CASE l.field # "user-agent"
  <2>1. \A j \in 1 .. n + 1 : Agent(more, j) => j \in 1 .. n /\ Agent(read, j)
    BY <1>1, <1>3, <1>6
  <2>2. IsHead(more, n + 1, x)
    <3>1. CASE x = 0 /\ \A j \in 1 .. n : ~Agent(read, j)
      BY <2>1, <3>1 DEF IsHead
    <3>2. CASE \E last \in 1 .. n :
                 /\ Agent(read, last) /\ \A j \in 1 .. n : Agent(read, j) => j <= last
                 /\ x \in 1 .. last /\ Agent(read, x) /\ Unbroken(read, x, last)
                 /\ \A j \in 1 .. last : Agent(read, j) /\ Unbroken(read, j, last) => x <= j
      <4>1. PICK last \in 1 .. n :
                 /\ Agent(read, last) /\ \A j \in 1 .. n : Agent(read, j) => j <= last
                 /\ x \in 1 .. last /\ Agent(read, x) /\ Unbroken(read, x, last)
                 /\ \A j \in 1 .. last : Agent(read, j) /\ Unbroken(read, j, last) => x <= j
        BY <3>2
      <4>2. 1 .. last \subseteq 1 .. n /\ last \in 1 .. n + 1
        BY <1>1
      <4>3. /\ Agent(more, last) /\ \A j \in 1 .. n + 1 : Agent(more, j) => j <= last
            /\ x \in 1 .. last /\ Agent(more, x) /\ Unbroken(more, x, last)
            /\ \A j \in 1 .. last : Agent(more, j) /\ Unbroken(more, j, last) => x <= j
        BY <1>3, <1>4, <2>1, <4>1, <4>2
      <4> QED BY <4>2, <4>3 DEF IsHead
    <3> QED BY <1>2, <3>1, <3>2 DEF IsHead
  <2>3. HeadOf(more, n + 1) = x
    BY <1>1, <2>2, HeadUnique
  <2> QED BY <1>6, <2>3 DEF more, n, x
<1>7. CASE l.field = "user-agent" /\ ~Open(read)
  <2>1. \A j \in 1 .. n + 1 : Agent(more, j) /\ Unbroken(more, j, n + 1) => n + 1 <= j
    <3> TAKE j \in 1 .. n + 1
    <3>1. CASE j \in 1 .. n
      BY <1>3, <1>5, <1>7, <3>1 DEF Open, n
    <3>2. CASE j = n + 1
      BY <1>1, <3>2
    <3> QED BY <1>1, <3>1, <3>2
  <2>2. Agent(more, n + 1) /\ Unbroken(more, n + 1, n + 1)
    BY <1>1, <1>7 DEF Agent, Unbroken
  <2>3. IsHead(more, n + 1, n + 1)
    <3>1. n + 1 \in 1 .. n + 1 /\ \A j \in 1 .. n + 1 : j <= n + 1
      BY <1>1
    <3> QED BY <2>1, <2>2, <3>1 DEF IsHead
  <2>4. HeadOf(more, n + 1) = n + 1
    BY <1>1, <2>3, HeadUnique
  <2> QED BY <1>7, <2>4 DEF more, n, x
<1>8. CASE l.field = "user-agent" /\ Open(read)
  <2>1. PICK k \in 1 .. n : Agent(read, k) /\ Unbroken(read, k, n)
    BY <1>8 DEF Open, n
  <2>2. PICK last \in 1 .. n :
          /\ Agent(read, last) /\ \A j \in 1 .. n : Agent(read, j) => j <= last
          /\ x \in 1 .. last /\ Agent(read, x) /\ Unbroken(read, x, last)
          /\ \A j \in 1 .. last : Agent(read, j) /\ Unbroken(read, j, last) => x <= j
    BY <1>2, <2>1 DEF IsHead
  <2>3. x \in 1 .. n /\ x \in 1 .. n + 1 /\ Agent(more, x)
    BY <1>1, <1>3, <2>2
  <2>4. Unbroken(read, x, n)
    BY <1>1, <2>1, <2>2 DEF Unbroken
  <2>5. Unbroken(more, x, n + 1)
    BY <1>5, <1>8, <2>3, <2>4
  <2>6. ASSUME NEW j \in 1 .. n + 1, Agent(more, j), Unbroken(more, j, n + 1)
        PROVE  x <= j
    <3>1. CASE j \in 1 .. n
      <4>1. Agent(read, j) /\ Unbroken(read, j, n)
        BY <1>3, <1>5, <1>8, <2>6, <3>1
      <4>2. j \in 1 .. last /\ Unbroken(read, j, last)
        BY <1>1, <2>2, <3>1, <4>1 DEF Unbroken
      <4> QED BY <2>2, <4>1, <4>2
    <3>2. CASE j = n + 1
      BY <1>1, <2>3, <3>2
    <3> QED BY <1>1, <3>1, <3>2
  <2>7. IsHead(more, n + 1, x)
    <3>1. n + 1 \in 1 .. n + 1 /\ (\A j \in 1 .. n + 1 : j <= n + 1) /\ Agent(more, n + 1)
      BY <1>1, <1>3, <1>8
    <3> QED BY <2>3, <2>5, <2>6, <3>1 DEF IsHead
  <2>8. HeadOf(more, n + 1) = x
    BY <1>1, <2>7, HeadUnique
  <2> QED BY <1>8, <2>8 DEF more, n, x
<1> QED BY <1>6, <1>7, <1>8

\* How a new line changes whether a run of User-agent lines reaches the end.
LEMMA OpenNext ==
  ASSUME NEW Line, NEW read \in Seq(Line), NEW l \in Line
  PROVE  Open(Append(read, l)) <=>
           l.field = "user-agent" \/ (l.field = "junk" /\ Open(read))
<1> DEFINE more == Append(read, l)
           n == Len(read)
<1>1. n \in Nat /\ Len(more) = n + 1 /\ (\A j \in 1 .. n : more[j] = read[j]) /\ more[n + 1] = l
  BY AppendIs
<1> HIDE DEF more, n
<1>2. Open(more) <=> \E j \in 1 .. n + 1 : Agent(more, j) /\ Unbroken(more, j, n + 1)
  BY <1>1 DEF Open
<1>3. Open(read) <=> \E j \in 1 .. n : Agent(read, j) /\ Unbroken(read, j, n)
  BY DEF Open, n
<1>4. ASSUME l.field = "user-agent" PROVE Open(more)
  <2>1. n + 1 \in 1 .. n + 1 /\ Agent(more, n + 1) /\ Unbroken(more, n + 1, n + 1)
    BY <1>1, <1>4 DEF Agent, Unbroken
  <2> QED BY <1>2, <2>1
<1>5. ASSUME l.field = "junk", Open(read) PROVE Open(more)
  <2>1. PICK j \in 1 .. n : Agent(read, j) /\ Unbroken(read, j, n)
    BY <1>3, <1>5
  <2>2. j \in 1 .. n + 1 /\ Agent(more, j) /\ Unbroken(more, j, n + 1)
    BY <1>1, <1>5, <2>1 DEF Agent, Unbroken
  <2> QED BY <1>2, <2>2
<1>6. ASSUME Open(more), l.field # "user-agent" PROVE l.field = "junk" /\ Open(read)
  <2>1. PICK j \in 1 .. n + 1 : Agent(more, j) /\ Unbroken(more, j, n + 1)
    BY <1>2, <1>6
  <2>2. l.field = "junk" /\ j # n + 1
    BY <1>1, <1>6, <2>1 DEF Agent, Unbroken
  <2>3. j \in 1 .. n /\ Agent(read, j) /\ Unbroken(read, j, n)
    BY <1>1, <2>1, <2>2 DEF Agent, Unbroken
  <2> QED BY <1>3, <2>2, <2>3
<1> QED BY <1>4, <1>5, <1>6 DEF more

-----------------------------------------------------------------------------
(* Parse keeps what the lines under each head say.                         *)

\* A new line adds its value under its own head and nothing else.
LEMMA UnderNext ==
  ASSUME NEW Line, NEW read \in Seq(Line), NEW l \in Line, NEW field, NEW head
  PROVE  Under(Append(read, l), field, head) =
           Under(read, field, head) \union
           (IF l.field = field /\ HeadOf(Append(read, l), Len(read) + 1) = head
            THEN {l.value} ELSE {})
<1> DEFINE more == Append(read, l)
           n == Len(read)
           added == IF l.field = field /\ HeadOf(more, n + 1) = head THEN {l.value} ELSE {}
<1>1. /\ n \in Nat /\ DOMAIN read = 1 .. n /\ DOMAIN more = 1 .. n + 1
      /\ (\A j \in 1 .. n : more[j] = read[j]) /\ more[n + 1] = l
  BY AppendIs
<1>2. \A j \in 1 .. n : HeadOf(more, j) = HeadOf(read, j)
  <2>1. \A j \in 1 .. n : j \in 0 .. Len(read)
    BY <1>1
  <2> QED BY <2>1, HeadStable
<1> HIDE DEF more, n
<1>3. \A v : v \in Under(more, field, head) <=>
        \E j \in 1 .. n + 1 : more[j].field = field /\ HeadOf(more, j) = head /\ v = more[j].value
  BY <1>1 DEF Under
<1>4. \A v : v \in Under(read, field, head) <=>
        \E j \in 1 .. n : read[j].field = field /\ HeadOf(read, j) = head /\ v = read[j].value
  BY <1>1 DEF Under
<1>5. \A v : v \in added <=> more[n + 1].field = field /\ HeadOf(more, n + 1) = head
                             /\ v = more[n + 1].value
  BY <1>1
<1> HIDE DEF added
<1>6. ASSUME NEW v \in Under(more, field, head)
      PROVE  v \in Under(read, field, head) \union added
  <2>1. PICK j \in 1 .. n + 1 :
          more[j].field = field /\ HeadOf(more, j) = head /\ v = more[j].value
    BY <1>3
  <2>2. CASE j \in 1 .. n
    BY <1>1, <1>2, <1>4, <2>1, <2>2
  <2>3. CASE j = n + 1
    BY <1>5, <2>1, <2>3
  <2> QED BY <1>1, <2>2, <2>3
<1>7. ASSUME NEW v \in Under(read, field, head) PROVE v \in Under(more, field, head)
  <2>1. PICK j \in 1 .. n : read[j].field = field /\ HeadOf(read, j) = head /\ v = read[j].value
    BY <1>4
  <2>2. j \in 1 .. n + 1
    BY <1>1
  <2> QED BY <1>1, <1>2, <1>3, <2>1, <2>2
<1>8. ASSUME NEW v \in added PROVE v \in Under(more, field, head)
  <2>1. n + 1 \in 1 .. n + 1
    BY <1>1
  <2> QED BY <1>3, <1>5, <2>1
<1>9. Under(more, field, head) = Under(read, field, head) \union added
  BY <1>6, <1>7, <1>8
<1> QED BY <1>9 DEF more, n, added

\* A new line adds its head to the heads.
LEMMA HeadsNext ==
  ASSUME NEW Line, NEW read \in Seq(Line), NEW l \in Line
  PROVE  Heads(Append(read, l)) =
           (Heads(read) \union {HeadOf(Append(read, l), Len(read) + 1)}) \ {0}
<1> DEFINE more == Append(read, l)
           n == Len(read)
<1>1. n \in Nat /\ DOMAIN read = 1 .. n /\ DOMAIN more = 1 .. n + 1
  BY AppendIs
<1>2. \A j \in 1 .. n : HeadOf(more, j) = HeadOf(read, j)
  <2>1. \A j \in 1 .. n : j \in 0 .. Len(read)
    BY <1>1
  <2> QED BY <2>1, HeadStable
<1> HIDE DEF more, n
<1>3. 1 .. n + 1 = 1 .. n \union {n + 1}
  BY <1>1
<1>4. {HeadOf(more, j) : j \in 1 .. n + 1}
        = {HeadOf(read, j) : j \in 1 .. n} \union {HeadOf(more, n + 1)}
  BY <1>2, <1>3
<1> QED BY <1>1, <1>4 DEF Heads, more, n

\* The heads are lines that are read.
LEMMA HeadsType ==
  ASSUME NEW Line, NEW read \in Seq(Line)
  PROVE  Heads(read) \subseteq 1 .. Len(read) /\ Len(read) \in Nat
<1>1. Len(read) \in Nat /\ DOMAIN read = 1 .. Len(read)
  BY LenProperties
<1>2. ASSUME NEW i \in 1 .. Len(read), HeadOf(read, i) # 0
      PROVE  HeadOf(read, i) \in 1 .. Len(read)
  <2>1. i \in Nat
    BY <1>1
  <2>2. HeadOf(read, i) \in 0 .. i
    BY <2>1, HeadIs
  <2> QED BY <1>1, <1>2, <2>1, <2>2
<1> QED BY <1>1, <1>2 DEF Heads

\* Groups(V): what the loop collects, when the lines' values are in V.
Groups(V) == [agents : SUBSET V, allow : SUBSET V, disallow : SUBSET V]

\* The groups are the lines under the heads h[1] < h[2] < ... , and the last of them is the
\* head of the last line.
Ordered(h, n) == \A j, k \in 1 .. n : j < k => h[j] < h[k]

Collects(read, groups, h) ==
  /\ h \in [1 .. Len(groups) -> 1 .. Len(read)]
  /\ Ordered(h, Len(groups))
  /\ Heads(read) = {h[k] : k \in 1 .. Len(groups)}
  /\ HeadOf(read, Len(read)) = IF Len(groups) = 0 THEN 0 ELSE h[Len(groups)]
  /\ \A k \in 1 .. Len(groups) :
       groups[k] = [agents   |-> Under(read, "user-agent", h[k]),
                    allow    |-> Under(read, "allow", h[k]),
                    disallow |-> Under(read, "disallow", h[k])]

Fits(read, st, V) ==
  /\ st \in [inAgents : BOOLEAN, groups : Seq(Groups(V))]
  /\ st.inAgents <=> Open(read)
  /\ \E h : Collects(read, st.groups, h)

LEMMA OneAgent ==
  ASSUME NEW none, NEW names
  PROVE  [[agents |-> none, allow |-> none, disallow |-> none] EXCEPT !.agents = names]
           = [agents |-> names, allow |-> none, disallow |-> none]
  OBVIOUS

\* A User-agent line after the end of a run opens a group of its own.
LEMMA NewGroupFits ==
  ASSUME NEW V, NEW Line, NEW read \in Seq(Line), NEW l \in Line, l.value \in V,
         NEW groups \in Seq(Groups(V)), NEW h, Collects(read, groups, h),
         l.field = "user-agent", ~Open(read)
  PROVE  LET grown == Append(groups, [NoRules EXCEPT !.agents = {l.value}]) IN
         /\ grown \in Seq(Groups(V))
         /\ \E g : Collects(Append(read, l), grown, g)
<1> DEFINE more  == Append(read, l)
           n     == Len(read)
           new   == [agents |-> {l.value}, allow |-> {}, disallow |-> {}]
           grown == Append(groups, new)
           last  == Len(groups)
           g     == [k \in 1 .. last + 1 |-> IF k = last + 1 THEN n + 1 ELSE h[k]]
<1>1. n \in Nat /\ Len(more) = n + 1
  BY AppendIs
<1>2. [NoRules EXCEPT !.agents = {l.value}] = new /\ new \in Groups(V)
  <2>1. [NoRules EXCEPT !.agents = {l.value}] = new
    BY OneAgent DEF NoRules
  <2>2. {l.value} \in SUBSET V /\ {} \in SUBSET V
    OBVIOUS
  <2> QED BY <2>1, <2>2 DEF Groups
<1>3. /\ last \in Nat /\ grown \in Seq(Groups(V)) /\ Len(grown) = last + 1
      /\ (\A k \in 1 .. last : grown[k] = groups[k]) /\ grown[last + 1] = new
  BY <1>2, AppendIs
<1>4. HeadOf(more, n + 1) = n + 1
  BY HeadNext
<1>5. /\ h \in [1 .. last -> 1 .. n] /\ Ordered(h, last)
      /\ Heads(read) = {h[k] : k \in 1 .. last}
      /\ \A k \in 1 .. last :
           groups[k] = [agents   |-> Under(read, "user-agent", h[k]),
                        allow    |-> Under(read, "allow", h[k]),
                        disallow |-> Under(read, "disallow", h[k])]
  BY DEF Collects
<1>6. \A field, head : Under(more, field, head) =
        Under(read, field, head) \union
        (IF l.field = field /\ n + 1 = head THEN {l.value} ELSE {})
  BY <1>4, UnderNext
<1>7. \A field : Under(read, field, n + 1) = {}
  <2>1. \A j \in DOMAIN read : HeadOf(read, j) # n + 1
    <3>1. DOMAIN read = 1 .. n
      BY AppendIs
    <3>2. ASSUME NEW j \in 1 .. n PROVE HeadOf(read, j) # n + 1
      <4>1. j \in Nat
        BY <1>1
      <4>2. HeadOf(read, j) \in 0 .. j
        BY <4>1, HeadIs
      <4> QED BY <1>1, <4>1, <4>2
    <3> QED BY <3>1, <3>2
  <2> QED BY <2>1 DEF Under
<1>8. Heads(more) = (Heads(read) \union {n + 1}) \ {0}
  BY <1>4, HeadsNext
<1> HIDE DEF more, n, new, grown, last
<1>9. /\ g \in [1 .. last + 1 -> 1 .. n + 1] /\ g[last + 1] = n + 1
      /\ \A k \in 1 .. last : g[k] = h[k] /\ g[k] \in 1 .. n
  <2>1. \A k \in 1 .. last + 1 : k # last + 1 => k \in 1 .. last
    BY <1>3
  <2>2. \A k \in 1 .. last : k \in 1 .. last + 1 /\ k # last + 1 /\ h[k] \in 1 .. n
    BY <1>3, <1>5
  <2>3. last + 1 \in 1 .. last + 1 /\ n + 1 \in 1 .. n + 1 /\ 1 .. n \subseteq 1 .. n + 1
    BY <1>1, <1>3
  <2> QED BY <2>1, <2>2, <2>3
<1> HIDE DEF g
<1>10. Ordered(g, last + 1)
  <2> SUFFICES ASSUME NEW j \in 1 .. last + 1, NEW k \in 1 .. last + 1, j < k PROVE g[j] < g[k]
    BY DEF Ordered
  <2>1. j \in 1 .. last /\ g[j] = h[j] /\ h[j] \in 1 .. n
    BY <1>3, <1>5, <1>9
  <2>2. CASE k = last + 1
    BY <1>1, <1>9, <2>1, <2>2
  <2>3. CASE k \in 1 .. last
    BY <1>5, <1>9, <2>1, <2>3 DEF Ordered
  <2> QED BY <1>3, <2>2, <2>3
<1>11. Heads(more) = {g[k] : k \in 1 .. last + 1}
  <2>1. 1 .. last + 1 = 1 .. last \union {last + 1}
    BY <1>3
  <2>2. {g[k] : k \in 1 .. last + 1} = {h[k] : k \in 1 .. last} \union {n + 1}
    BY <1>9, <2>1
  <2>3. 0 \notin {h[k] : k \in 1 .. last} \union {n + 1}
    BY <1>1, <1>5
  <2> QED BY <1>5, <1>8, <2>2, <2>3
<1>12. ASSUME NEW k \in 1 .. last + 1
       PROVE  grown[k] = [agents   |-> Under(more, "user-agent", g[k]),
                          allow    |-> Under(more, "allow", g[k]),
                          disallow |-> Under(more, "disallow", g[k])]
  <2>1. CASE k = last + 1
    <3>1. grown[k] = new /\ g[k] = n + 1
      BY <1>3, <1>9, <2>1
    <3>2. /\ Under(more, "user-agent", n + 1) = {l.value}
          /\ Under(more, "allow", n + 1) = {} /\ Under(more, "disallow", n + 1) = {}
      BY <1>6, <1>7
    <3> QED BY <3>1, <3>2 DEF new
  <2>2. CASE k \in 1 .. last
    <3>1. grown[k] = groups[k] /\ g[k] = h[k] /\ g[k] # n + 1
      BY <1>1, <1>3, <1>9, <2>2
    <3>2. ASSUME NEW field PROVE Under(more, field, g[k]) = Under(read, field, g[k])
      <4>1. Under(more, field, g[k]) = Under(read, field, g[k]) \union
              (IF l.field = field /\ n + 1 = g[k] THEN {l.value} ELSE {})
        BY <1>6
      <4> QED BY <3>1, <4>1
    <3> QED BY <1>5, <2>2, <3>1, <3>2
  <2> QED BY <1>3, <2>1, <2>2
<1>13. Collects(more, grown, g)
  <2>1. HeadOf(more, Len(more)) = g[last + 1] /\ last + 1 # 0
    BY <1>1, <1>3, <1>4, <1>9
  <2> QED BY <1>1, <1>3, <1>9, <1>10, <1>11, <1>12, <2>1 DEF Collects
<1> QED BY <1>2, <1>3, <1>13 DEF more, grown

\* Any other line belongs to the last group, if there is one.
LEMMA SameGroupFits ==
  ASSUME NEW V, NEW Line, NEW read \in Seq(Line), NEW l \in Line,
         NEW groups \in Seq(Groups(V)), NEW h, Collects(read, groups, h),
         NEW grown \in Seq(Groups(V)), Len(grown) = Len(groups),
         HeadOf(Append(read, l), Len(read) + 1) = HeadOf(read, Len(read)),
         \A k \in 1 .. Len(groups) :
           LET add(f) == IF k = Len(groups) /\ l.field = f THEN {l.value} ELSE {} IN
           grown[k] = [agents   |-> groups[k].agents \union add("user-agent"),
                       allow    |-> groups[k].allow \union add("allow"),
                       disallow |-> groups[k].disallow \union add("disallow")]
  PROVE  Collects(Append(read, l), grown, h)
<1> DEFINE more == Append(read, l)
           n    == Len(read)
           last == Len(groups)
           head == HeadOf(read, n)
<1>1. n \in Nat /\ Len(more) = n + 1
  BY AppendIs
<1>2. last \in Nat
  BY LenProperties
<1>3. /\ h \in [1 .. last -> 1 .. n] /\ Ordered(h, last)
      /\ Heads(read) = {h[k] : k \in 1 .. last}
      /\ head = IF last = 0 THEN 0 ELSE h[last]
      /\ \A k \in 1 .. last :
           groups[k] = [agents   |-> Under(read, "user-agent", h[k]),
                        allow    |-> Under(read, "allow", h[k]),
                        disallow |-> Under(read, "disallow", h[k])]
  BY DEF Collects
<1>4. \A field, x : Under(more, field, x) =
        Under(read, field, x) \union (IF l.field = field /\ head = x THEN {l.value} ELSE {})
  BY UnderNext
<1>5. Heads(more) = (Heads(read) \union {head}) \ {0}
  BY HeadsNext
<1> DEFINE add(k, f) == IF k = last /\ l.field = f THEN {l.value} ELSE {}
<1>6. \A k \in 1 .. last :
        grown[k] = [agents   |-> groups[k].agents \union add(k, "user-agent"),
                    allow    |-> groups[k].allow \union add(k, "allow"),
                    disallow |-> groups[k].disallow \union add(k, "disallow")]
  OBVIOUS
<1>7. HeadOf(more, n + 1) = head
  OBVIOUS
<1> HIDE DEF more, n, head
<1>8. ASSUME NEW k \in 1 .. last PROVE head = h[k] <=> k = last
  <2>1. last # 0 /\ head = h[last] /\ last \in 1 .. last
    BY <1>2, <1>3
  <2>2. k # last => h[k] < h[last] /\ h[k] \in 1 .. n /\ h[last] \in 1 .. n
    BY <1>2, <1>3, <2>1 DEF Ordered
  <2> QED BY <1>1, <2>1, <2>2
<1>9. ASSUME NEW k \in 1 .. last
      PROVE  grown[k] = [agents   |-> Under(more, "user-agent", h[k]),
                         allow    |-> Under(more, "allow", h[k]),
                         disallow |-> Under(more, "disallow", h[k])]
  <2>1. \A f : Under(more, f, h[k]) = Under(read, f, h[k]) \union add(k, f)
    BY <1>4, <1>8
  <2>2. /\ groups[k].agents = Under(read, "user-agent", h[k])
        /\ groups[k].allow = Under(read, "allow", h[k])
        /\ groups[k].disallow = Under(read, "disallow", h[k])
    <3>1. groups[k] = [agents   |-> Under(read, "user-agent", h[k]),
                       allow    |-> Under(read, "allow", h[k]),
                       disallow |-> Under(read, "disallow", h[k])]
      BY <1>3
    <3> QED BY <3>1
  <2> HIDE DEF add
  <2> QED BY <1>6, <2>1, <2>2
<1>10. Heads(more) = {h[k] : k \in 1 .. last}
  <2>1. 0 \notin {h[k] : k \in 1 .. last}
    BY <1>1, <1>3
  <2>2. head \in {h[k] : k \in 1 .. last} \union {0}
    BY <1>2, <1>3
  <2> QED BY <1>3, <1>5, <2>1, <2>2
<1>11. h \in [1 .. last -> 1 .. n + 1]
  <2>1. 1 .. n \subseteq 1 .. n + 1
    BY <1>1
  <2> QED BY <1>3, <2>1
<1> QED BY <1>1, <1>3, <1>7, <1>9, <1>10, <1>11 DEF Collects, more

\* Where a run of User-agent lines reaches the end, the last line has a head.
LEMMA OpenHasHead ==
  ASSUME NEW Line, NEW read \in Seq(Line), Open(read)
  PROVE  HeadOf(read, Len(read)) # 0
<1>1. Len(read) \in Nat
  BY LenProperties
<1>2. IsHead(read, Len(read), HeadOf(read, Len(read)))
  BY <1>1, HeadIs
<1>3. \E j \in 1 .. Len(read) : Agent(read, j)
  BY DEF Open
<1> QED BY <1>2, <1>3 DEF IsHead

\* Changing one group leaves the others alone.
LEMMA GrowAt ==
  ASSUME NEW G, NEW groups \in Seq(G), NEW n \in 1 .. Len(groups), NEW g \in G
  PROVE  LET grown == [groups EXCEPT ![n] = g] IN
         /\ grown \in Seq(G) /\ Len(grown) = Len(groups)
         /\ \A k \in 1 .. Len(groups) : grown[k] = IF k = n THEN g ELSE groups[k]
<1>1. Len(groups) \in Nat /\ DOMAIN groups = 1 .. Len(groups)
  BY LenProperties
<1> QED BY <1>1, ExceptSeq

\* What a line adds to the group it belongs to.
Grown(g, field, value) ==
  LET add(f) == IF field = f THEN {value} ELSE {} IN
  [agents   |-> g.agents \union add("user-agent"),
   allow    |-> g.allow \union add("allow"),
   disallow |-> g.disallow \union add("disallow")]

\* The changes the loop body makes to a group, one kind of line at a time.
LEMMA GrownAgents ==
  ASSUME NEW V, NEW g \in Groups(V), NEW v \in V
  PROVE  [g EXCEPT !.agents = @ \union {v}] = Grown(g, "user-agent", v)
<1> DEFINE r == [g EXCEPT !.agents = @ \union {v}]
<1>1. {v} \in SUBSET V
  OBVIOUS
<1>2. r \in Groups(V)
  BY <1>1 DEF Groups
<1>3. r.agents = g.agents \union {v} /\ r.allow = g.allow /\ r.disallow = g.disallow
  BY DEF Groups
<1> HIDE DEF r
<1>4. r = [agents |-> r.agents, allow |-> r.allow, disallow |-> r.disallow]
  BY <1>2 DEF Groups
<1>5. r = Grown(g, "user-agent", v)
  BY <1>3, <1>4 DEF Grown
<1> QED BY <1>5 DEF r

LEMMA GrownAllow ==
  ASSUME NEW V, NEW g \in Groups(V), NEW v \in V
  PROVE  [g EXCEPT !["allow"] = @ \union {v}] = Grown(g, "allow", v)
<1> DEFINE r == [g EXCEPT !["allow"] = @ \union {v}]
<1>1. {v} \in SUBSET V
  OBVIOUS
<1>2. r \in Groups(V)
  BY <1>1 DEF Groups
<1>3. r.agents = g.agents /\ r.allow = g.allow \union {v} /\ r.disallow = g.disallow
  BY DEF Groups
<1> HIDE DEF r
<1>4. r = [agents |-> r.agents, allow |-> r.allow, disallow |-> r.disallow]
  BY <1>2 DEF Groups
<1>5. r = Grown(g, "allow", v)
  BY <1>3, <1>4 DEF Grown
<1> QED BY <1>5 DEF r

LEMMA GrownDisallow ==
  ASSUME NEW V, NEW g \in Groups(V), NEW v \in V
  PROVE  [g EXCEPT !["disallow"] = @ \union {v}] = Grown(g, "disallow", v)
<1> DEFINE r == [g EXCEPT !["disallow"] = @ \union {v}]
<1>1. {v} \in SUBSET V
  OBVIOUS
<1>2. r \in Groups(V)
  BY <1>1 DEF Groups
<1>3. r.agents = g.agents /\ r.allow = g.allow /\ r.disallow = g.disallow \union {v}
  BY DEF Groups
<1> HIDE DEF r
<1>4. r = [agents |-> r.agents, allow |-> r.allow, disallow |-> r.disallow]
  BY <1>2 DEF Groups
<1>5. r = Grown(g, "disallow", v)
  BY <1>3, <1>4 DEF Grown
<1> QED BY <1>5 DEF r

LEMMA GrownType ==
  ASSUME NEW V, NEW g \in Groups(V), NEW v \in V, NEW f
  PROVE  Grown(g, f, v) \in Groups(V)
<1> DEFINE add(x) == IF f = x THEN {v} ELSE {}
<1>1. /\ g.agents \in SUBSET V /\ g.allow \in SUBSET V /\ g.disallow \in SUBSET V
  BY DEF Groups
<1>2. \A x : add(x) \subseteq V
  OBVIOUS
<1>3. Grown(g, f, v) = [agents   |-> g.agents \union add("user-agent"),
                        allow    |-> g.allow \union add("allow"),
                        disallow |-> g.disallow \union add("disallow")]
  BY DEF Grown
<1> HIDE DEF add
<1>4. /\ g.agents \union add("user-agent") \in SUBSET V
      /\ g.allow \union add("allow") \in SUBSET V
      /\ g.disallow \union add("disallow") \in SUBSET V
  BY <1>1, <1>2
<1> QED BY <1>3, <1>4 DEF Groups

\* The loop body keeps what the groups mean.
LEMMA ReadLineFits ==
  ASSUME NEW V, NEW Line, NEW read \in Seq(Line), NEW l \in Line, l.value \in V,
         NEW st, Fits(read, st, V)
  PROVE  Fits(Append(read, l), ReadLine(st, l), V)
<1> DEFINE more == Append(read, l)
           n    == Len(st.groups)
           new  == [NoRules EXCEPT !.agents = {l.value}]
           to   == ReadLine(st, l)
<1>1. /\ st \in [inAgents : BOOLEAN, groups : Seq(Groups(V))]
      /\ st.inAgents \in BOOLEAN /\ st.groups \in Seq(Groups(V)) /\ n \in Nat
      /\ st.inAgents <=> Open(read)
  <2>1. st \in [inAgents : BOOLEAN, groups : Seq(Groups(V))] /\ (st.inAgents <=> Open(read))
    BY DEF Fits
  <2>2. st.inAgents \in BOOLEAN /\ st.groups \in Seq(Groups(V))
    BY <2>1
  <2> QED BY <2>1, <2>2, LenProperties
<1>2. PICK h : Collects(read, st.groups, h)
  BY DEF Fits
<1>3. Open(more) <=> l.field = "user-agent" \/ (l.field = "junk" /\ Open(read))
  BY OpenNext
<1>4. HeadOf(more, Len(read) + 1) =
        IF l.field = "user-agent" /\ ~Open(read) THEN Len(read) + 1
        ELSE HeadOf(read, Len(read))
  BY HeadNext
<1>5. n = 0 => ~Open(read)
  BY <1>2, OpenHasHead DEF Collects
<1>6. to = CASE l.field = "user-agent" ->
                  [inAgents |-> TRUE,
                   groups   |-> IF n = 0 \/ ~st.inAgents THEN Append(st.groups, new)
                                ELSE [st.groups EXCEPT ![n].agents = @ \union {l.value}]]
             [] l.field \in {"allow", "disallow"} /\ n > 0 ->
                  [inAgents |-> FALSE,
                   groups   |-> [st.groups EXCEPT ![n][l.field] = @ \union {l.value}]]
             [] l.field = "junk" -> st
             [] OTHER -> [st EXCEPT !.inAgents = FALSE]
  BY DEF ReadLine
<1> HIDE DEF more, new, to
<1>7. CASE l.field = "user-agent" /\ ~Open(read)
  <2>1. to = [inAgents |-> TRUE, groups |-> Append(st.groups, new)]
    BY <1>1, <1>6, <1>7
  <2>2. Append(st.groups, new) \in Seq(Groups(V))
        /\ \E g : Collects(more, Append(st.groups, new), g)
    BY <1>1, <1>2, <1>7, NewGroupFits DEF more, new
  <2> QED BY <1>3, <1>7, <2>1, <2>2 DEF Fits, more, to
<1>8. CASE n > 0 /\ \/ l.field = "user-agent" /\ Open(read)
                    \/ l.field \in {"allow", "disallow"}
  <2> DEFINE at    == st.groups[n]
             group == Grown(at, l.field, l.value)
             grown == [st.groups EXCEPT ![n] = group]
  <2>1. n \in 1 .. n /\ at \in Groups(V)
    BY <1>1, <1>8, ElementOfSeq
  <2>2. group \in Groups(V)
    <3> HIDE DEF at
    <3> QED BY <2>1, GrownType
  <2>3. to = [inAgents |-> l.field = "user-agent", groups |-> grown]
    <3>1. CASE l.field = "user-agent"
      <4>1. to = [inAgents |-> TRUE, groups |-> [st.groups EXCEPT ![n].agents = @ \union {l.value}]]
        <5>1. ~(n = 0 \/ ~st.inAgents)
          BY <1>1, <1>8, <3>1
        <5> HIDE DEF n
        <5> QED BY <1>6, <3>1, <5>1
      <4>2. group = [at EXCEPT !.agents = @ \union {l.value}]
        <5>1. group = Grown(at, "user-agent", l.value)
          BY <3>1
        <5> HIDE DEF at, group
        <5>2. [at EXCEPT !.agents = @ \union {l.value}] = Grown(at, "user-agent", l.value)
          BY <2>1, GrownAgents
        <5> QED BY <5>1, <5>2
      <4>3. [st.groups EXCEPT ![n].agents = @ \union {l.value}] = grown
        BY <4>2
      <4> QED BY <3>1, <4>1, <4>3
    <3>2. CASE l.field = "allow"
      <4>1. to = [inAgents |-> FALSE, groups |-> [st.groups EXCEPT ![n]["allow"] = @ \union {l.value}]]
        BY <1>1, <1>6, <1>8, <3>2
      <4>2. group = [at EXCEPT !["allow"] = @ \union {l.value}]
        <5>1. group = Grown(at, "allow", l.value)
          BY <3>2
        <5> HIDE DEF at, group
        <5>2. [at EXCEPT !["allow"] = @ \union {l.value}] = Grown(at, "allow", l.value)
          BY <2>1, GrownAllow
        <5> QED BY <5>1, <5>2
      <4>3. [st.groups EXCEPT ![n]["allow"] = @ \union {l.value}] = grown
        BY <4>2
      <4> QED BY <3>2, <4>1, <4>3
    <3>3. CASE l.field = "disallow"
      <4>1. to = [inAgents |-> FALSE, groups |-> [st.groups EXCEPT ![n]["disallow"] = @ \union {l.value}]]
        BY <1>1, <1>6, <1>8, <3>3
      <4>2. group = [at EXCEPT !["disallow"] = @ \union {l.value}]
        <5>1. group = Grown(at, "disallow", l.value)
          BY <3>3
        <5> HIDE DEF at, group
        <5>2. [at EXCEPT !["disallow"] = @ \union {l.value}] = Grown(at, "disallow", l.value)
          BY <2>1, GrownDisallow
        <5> QED BY <5>1, <5>2
      <4>3. [st.groups EXCEPT ![n]["disallow"] = @ \union {l.value}] = grown
        BY <4>2
      <4> QED BY <3>3, <4>1, <4>3
    <3> QED BY <1>8, <3>1, <3>2, <3>3
  <2> HIDE DEF group
  <2>4. /\ grown \in Seq(Groups(V)) /\ Len(grown) = n
        /\ \A k \in 1 .. n : grown[k] = IF k = n THEN group ELSE st.groups[k]
    BY <1>1, <2>1, <2>2, GrowAt
  <2> HIDE DEF grown
  <2>5. ASSUME NEW k \in 1 .. n
        PROVE  LET add(f) == IF k = n /\ l.field = f THEN {l.value} ELSE {} IN
               grown[k] = [agents   |-> st.groups[k].agents \union add("user-agent"),
                           allow    |-> st.groups[k].allow \union add("allow"),
                           disallow |-> st.groups[k].disallow \union add("disallow")]
    <3>1. CASE k = n
      BY <2>4, <3>1 DEF Grown, group
    <3>2. CASE k # n
      <4>1. grown[k] = st.groups[k]
        BY <2>4, <3>2
      <4>2. st.groups[k] \in Groups(V)
        BY <1>1, ElementOfSeq
      <4>3. st.groups[k] = [agents   |-> st.groups[k].agents,
                            allow    |-> st.groups[k].allow,
                            disallow |-> st.groups[k].disallow]
        BY <4>2 DEF Groups
      <4> QED BY <3>2, <4>1, <4>3
    <3> QED BY <3>1, <3>2
  <2>6. HeadOf(more, Len(read) + 1) = HeadOf(read, Len(read))
    BY <1>4, <1>8
  <2>7. Collects(more, grown, h)
    BY <1>1, <1>2, <2>4, <2>5, <2>6, SameGroupFits DEF more
  <2>8. Open(more) <=> l.field = "user-agent"
    BY <1>3, <1>8
  <2>9. /\ to \in [inAgents : BOOLEAN, groups : Seq(Groups(V))]
        /\ to.groups = grown /\ (to.inAgents <=> l.field = "user-agent")
    BY <2>3, <2>4
  <2> QED BY <2>7, <2>8, <2>9 DEF Fits, more, to
<1>9. CASE l.field # "user-agent" /\ ~(n > 0 /\ l.field \in {"allow", "disallow"})
  <2>1. to \in [inAgents : BOOLEAN, groups : Seq(Groups(V))] /\ to.groups = st.groups
        /\ (to.inAgents <=> l.field = "junk" /\ st.inAgents)
    <3>1. CASE l.field = "junk"
      BY <1>1, <1>6, <3>1
    <3>2. CASE l.field # "junk"
      <4>1. to = [st EXCEPT !.inAgents = FALSE]
        BY <1>6, <1>9, <3>2
      <4> QED BY <1>1, <3>2, <4>1
    <3> QED BY <3>1, <3>2
  <2>2. ASSUME NEW k \in 1 .. n
        PROVE  LET add(f) == IF k = n /\ l.field = f THEN {l.value} ELSE {} IN
               st.groups[k] = [agents   |-> st.groups[k].agents \union add("user-agent"),
                               allow    |-> st.groups[k].allow \union add("allow"),
                               disallow |-> st.groups[k].disallow \union add("disallow")]
    <3>1. l.field \notin {"user-agent", "allow", "disallow"}
      BY <1>1, <1>9
    <3>2. st.groups[k] \in Groups(V)
      BY <1>1, ElementOfSeq
    <3>3. st.groups[k] = [agents   |-> st.groups[k].agents,
                          allow    |-> st.groups[k].allow,
                          disallow |-> st.groups[k].disallow]
      BY <3>2 DEF Groups
    <3> QED BY <3>1, <3>3
  <2>3. HeadOf(more, Len(read) + 1) = HeadOf(read, Len(read))
    BY <1>4, <1>9
  <2>4. Collects(more, st.groups, h)
    BY <1>1, <1>2, <2>2, <2>3, SameGroupFits DEF more
  <2>5. Open(more) <=> l.field = "junk" /\ Open(read)
    BY <1>3, <1>9
  <2> QED BY <1>1, <2>1, <2>4, <2>5 DEF Fits, more, to
<1>10. l.field = "user-agent" /\ Open(read) => n > 0
  BY <1>1, <1>5
<1> QED BY <1>7, <1>8, <1>9, <1>10

-----------------------------------------------------------------------------
(* The group that binds us, and what it allows.                            *)

\* The length of a pattern is a number.
LEMMA PatternLenType ==
  ASSUME NEW Chars, NEW pat \in PatternType(Chars)
  PROVE  PatternLen(pat) \in Int
<1> DEFINE n == Len(pat.parts)
           G == [i \in 1 .. n |-> [sum \in Int |-> sum + Len(pat.parts[i])]]
           Step(f) == [i \in 0 .. n |-> IF i = 0 THEN n - 1 ELSE f[i - 1] + Len(pat.parts[i])]
           len == CHOOSE f : f = Step(f)
<1>1. n \in Nat \ {0} /\ (\A i \in 1 .. n : Len(pat.parts[i]) \in Nat) /\ n - 1 \in Int
  BY PartsType
<1>2. G \in [1 .. n -> [Int -> Int]]
  BY <1>1
<1>3. PICK f : Defined(f, n, Int, n - 1, G)
  <2> HIDE DEF G, n
  <2> QED BY <1>1, <1>2, RecursionExists
<1>4. f \in [0 .. n -> Int] /\ f[0] = n - 1 /\ \A i \in 1 .. n : f[i] = G[i][f[i - 1]]
  <2> HIDE DEF G, n
  <2> QED BY <1>3 DEF Defined
<1>5. f = Step(f)
  <2>1. ASSUME NEW i \in 1 .. n PROVE f[i] = f[i - 1] + Len(pat.parts[i])
    <3>1. i - 1 \in 0 .. n
      BY <1>1
    <3>2. f[i - 1] \in Int
      BY <1>4, <3>1
    <3>3. G[i][f[i - 1]] = f[i - 1] + Len(pat.parts[i])
      BY <3>2
    <3> HIDE DEF G
    <3> QED BY <1>4, <3>3
  <2>2. \A i \in 0 .. n : f[i] = Step(f)[i]
    BY <1>4, <2>1
  <2> QED BY <1>4, <2>2
<1>6. len = Step(len)
  <2> HIDE DEF Step
  <2> QED BY <1>5
<1>7. PatternLen(pat) = len[n] + (IF pat.anchored THEN 1 ELSE 0)
  BY DEF PatternLen
<1>8. len[0] = n - 1 /\ \A i \in 1 .. n : len[i] = len[i - 1] + Len(pat.parts[i])
  <2> HIDE DEF len
  <2>1. \A i \in 0 .. n : len[i] = IF i = 0 THEN n - 1 ELSE len[i - 1] + Len(pat.parts[i])
    BY <1>6
  <2> QED BY <1>1, <2>1
<1> DEFINE S == {i \in 0 .. n : len[i] \in Int}
<1> HIDE DEF len
<1>9. 0 \in S
  BY <1>1, <1>8
<1>10. ASSUME NEW i \in 0 .. n - 1, i \in S PROVE i + 1 \in S
  <2>1. i + 1 \in 1 .. n /\ (i + 1) - 1 = i /\ len[i] \in Int
    BY <1>1, <1>10
  <2>2. len[i + 1] = len[i] + Len(pat.parts[i + 1]) /\ Len(pat.parts[i + 1]) \in Nat
    BY <1>1, <1>8, <2>1
  <2> QED BY <2>1, <2>2
<1>11. n \in S
  <2> HIDE DEF S
  <2>1. \A i \in 0 .. n : i \in S
    BY <1>1, <1>9, <1>10, StepsReach
  <2> QED BY <1>1, <2>1
<1> QED BY <1>7, <1>11

\* The values in S are among those of the first n lines.
Listed(S, read) == \A v \in S : \E j \in 1 .. Len(read) : v = read[j].value

\* How well the names of a group of lines name us is a number.
LEMMA SpecificityType ==
  ASSUME NEW read, Len(read) \in Nat, NEW agents, Listed(agents, read)
  PROVE  Specificity(agents) \in Int
<1> DEFINE n == Len(read)
           lens == {AgentLen[a] : a \in agents \intersect DOMAIN AgentLen}
           S == lens \union (IF "*" \in agents THEN {0} ELSE {}) \union {-1}
           f == [j \in 1 .. n |-> IF read[j].value \in DOMAIN AgentLen
                                  THEN AgentLen[read[j].value] ELSE 0]
<1>1. \A a \in DOMAIN AgentLen : AgentLen[a] \in Nat
  BY AgentAssumption
<1>2. f \in [1 .. n -> Int]
  BY <1>1
<1>3. PICK b \in Nat : \A j \in 1 .. n : f[j] <= b
  <2> HIDE DEF f
  <2> QED BY <1>2, ValuesBounded
<1>4. S \in SUBSET Int /\ S # {}
  BY <1>1
<1>5. \A y \in lens : y <= b
  <2> TAKE y \in lens
  <2>1. PICK a \in agents \intersect DOMAIN AgentLen : y = AgentLen[a]
    OBVIOUS
  <2>2. PICK j \in 1 .. n : a = read[j].value
    BY <2>1 DEF Listed
  <2>3. f[j] = y
    BY <2>1, <2>2
  <2> HIDE DEF f
  <2> QED BY <1>3, <2>3
<1>6. \A y \in S : y <= b
  BY <1>5
<1> HIDE DEF S
<1>7. Max(S) \in S
  BY <1>4, <1>6, MaxIs
<1>8. Specificity(agents) = Max(S)
  BY DEF Specificity, S
<1> QED BY <1>4, <1>7, <1>8

Hits(pats, path) == {q \in pats : PatternLen(q) > 0 /\ Match(q, path)}

\* matchLen is the length of the longest pattern that matches.
LEMMA MatchLenIs ==
  ASSUME NEW Chars, NEW read, Len(read) \in Nat,
         NEW pats \in SUBSET PatternType(Chars), Listed(pats, read), NEW path
  PROVE  /\ MatchLen(pats, path) \in Int
         /\ Hits(pats, path) = {} => MatchLen(pats, path) < 0
         /\ Hits(pats, path) # {} =>
              \E q \in Hits(pats, path) : MatchLen(pats, path) = PatternLen(q)
         /\ \A q \in Hits(pats, path) : PatternLen(q) <= MatchLen(pats, path)
         /\ \A q \in Hits(pats, path) : PatternLen(q) \in Nat
<1> DEFINE n == Len(read)
           hits == Hits(pats, path)
           S == {PatternLen(p) : p \in hits} \union {-1}
           f == [j \in 1 .. n |-> IF read[j].value \in PatternType(Chars)
                                  THEN PatternLen(read[j].value) ELSE 0]
<1>1. \A p \in PatternType(Chars) : PatternLen(p) \in Int
  BY PatternLenType
<1>2. f \in [1 .. n -> Int]
  BY <1>1
<1>3. PICK b \in Nat : \A j \in 1 .. n : f[j] <= b
  <2> HIDE DEF f
  <2> QED BY <1>2, ValuesBounded
<1>4. \A q \in hits : q \in pats /\ PatternLen(q) \in Int /\ PatternLen(q) > 0
  BY <1>1 DEF Hits
<1>5. MatchLen(pats, path) = Max(S)
  BY DEF MatchLen, Hits
<1> HIDE DEF hits
<1>6. \A q \in hits : PatternLen(q) <= b
  <2> TAKE q \in hits
  <2>1. PICK j \in 1 .. n : q = read[j].value
    BY <1>4 DEF Listed
  <2>2. f[j] = PatternLen(q)
    BY <1>4, <2>1
  <2> HIDE DEF f
  <2> QED BY <1>3, <2>2
<1>7. S \in SUBSET Int /\ S # {} /\ \A y \in S : y <= b
  BY <1>4, <1>6
<1> DEFINE m == Max(S)
<1>8. m \in S /\ \A y \in S : y <= m
  <2> HIDE DEF S
  <2>1. b \in Int
    OBVIOUS
  <2> QED BY <1>7, <2>1, MaxIs
<1> HIDE DEF m
<1>9. m \in Int /\ \A q \in hits : PatternLen(q) <= m
  BY <1>7, <1>8
<1>10. hits = {} => m < 0
  BY <1>8
<1>11. hits # {} => \E q \in hits : m = PatternLen(q)
  <2> SUFFICES ASSUME hits # {} PROVE m # -1
    BY <1>8
  <2>1. PICK q \in hits : TRUE
    OBVIOUS
  <2> QED BY <1>4, <1>9, <2>1
<1>12. MatchLen(pats, path) = m
  BY <1>5 DEF m
<1> QED BY <1>4, <1>9, <1>10, <1>11, <1>12 DEF hits

\* Comparing the longest patterns decides whether every refusal is outweighed.
LEMMA AllowedIs ==
  ASSUME NEW Chars, NEW read, Len(read) \in Nat, NEW path, NEW rules,
         rules.allow \in SUBSET PatternType(Chars), Listed(rules.allow, read),
         rules.disallow \in SUBSET PatternType(Chars), Listed(rules.disallow, read)
  PROVE  Allowed(rules, path) <=>
           \A d \in Hits(rules.disallow, path) : \E a \in Hits(rules.allow, path) :
             PatternLen(a) >= PatternLen(d)
<1> DEFINE A == MatchLen(rules.allow, path)
           D == MatchLen(rules.disallow, path)
           as == Hits(rules.allow, path)
           ds == Hits(rules.disallow, path)
<1>1. /\ A \in Int /\ (as = {} => A < 0) /\ (as # {} => \E q \in as : A = PatternLen(q))
      /\ \A q \in as : PatternLen(q) <= A /\ PatternLen(q) \in Nat
  BY MatchLenIs
<1>2. /\ D \in Int /\ (ds = {} => D < 0) /\ (ds # {} => \E q \in ds : D = PatternLen(q))
      /\ \A q \in ds : PatternLen(q) <= D /\ PatternLen(q) \in Nat
  BY MatchLenIs
<1>3. Allowed(rules, path) <=> D < 0 \/ A >= D
  BY DEF Allowed
<1> HIDE DEF A, D, as, ds
<1>4. ASSUME D < 0 \/ A >= D, NEW d \in ds
      PROVE  \E a \in as : PatternLen(a) >= PatternLen(d)
  <2> DEFINE len == PatternLen(d)
  <2>1. len \in Nat /\ len <= D
    BY <1>2
  <2> HIDE DEF len
  <2>2. len <= A /\ ~(A < 0)
    BY <1>1, <1>2, <1>4, <2>1
  <2>3. PICK a \in as : A = PatternLen(a)
    BY <1>1, <2>2
  <2>4. PatternLen(a) >= len
    BY <1>1, <2>1, <2>2, <2>3
  <2> QED BY <2>4 DEF len
<1>5. ASSUME \A d \in ds : \E a \in as : PatternLen(a) >= PatternLen(d), ~(D < 0)
      PROVE  A >= D
  <2>1. PICK d \in ds : D = PatternLen(d)
    BY <1>2, <1>5
  <2>2. PICK a \in as : PatternLen(a) >= PatternLen(d)
    BY <1>5
  <2>3. PatternLen(a) <= A /\ PatternLen(a) \in Nat
    BY <1>1
  <2> QED BY <1>1, <1>2, <2>1, <2>2, <2>3
<1> QED BY <1>3, <1>4, <1>5 DEF as, ds

\* What is said under a head is said by a line.
LEMMA UnderListed ==
  ASSUME NEW Line, NEW read \in Seq(Line), NEW field, NEW head
  PROVE  Listed(Under(read, field, head), read)
<1>1. DOMAIN read = 1 .. Len(read)
  BY LenProperties
<1> QED BY <1>1 DEF Under, Listed

\* Parse returns the group of our head, and no rules when no head names us.
LEMMA ParseIs ==
  ASSUME NEW V, NEW Line, NEW read \in Seq(Line),
         NEW groups \in Seq(Groups(V)), NEW h, Collects(read, groups, h)
  PROVE  IF OurHead(read) = 0 THEN Parse(groups) = NoRules
         ELSE \E k \in 1 .. Len(groups) : OurHead(read) = h[k] /\ Parse(groups) = groups[k]
<1> DEFINE n == Len(groups)
           m == Len(read)
           sp(k) == Specificity(groups[k].agents)
           names == {Naming(read, x) : x \in Heads(read)} \union {-1}
           top == Max(names)
           best == {i \in 1 .. n :
                      /\ sp(i) >= 0
                      /\ \A j \in 1 .. n : sp(j) < sp(i) \/ (sp(j) = sp(i) /\ i <= j)}
           tops == {x \in Heads(read) : Naming(read, x) = top}
<1>1. n \in Nat /\ m \in Nat /\ DOMAIN groups = 1 .. n
  BY LenProperties
<1>2. /\ h \in [1 .. n -> 1 .. m] /\ Ordered(h, n) /\ Heads(read) = {h[k] : k \in 1 .. n}
      /\ \A k \in 1 .. n :
           groups[k] = [agents   |-> Under(read, "user-agent", h[k]),
                        allow    |-> Under(read, "allow", h[k]),
                        disallow |-> Under(read, "disallow", h[k])]
  BY DEF Collects
<1>3. \A k \in 1 .. n : sp(k) = Naming(read, h[k])
  <2> TAKE k \in 1 .. n
  <2>1. groups[k] = [agents   |-> Under(read, "user-agent", h[k]),
                     allow    |-> Under(read, "allow", h[k]),
                     disallow |-> Under(read, "disallow", h[k])]
    BY <1>2
  <2>2. groups[k].agents = Under(read, "user-agent", h[k])
    BY <2>1
  <2> QED BY <2>2 DEF Naming
<1>4. \A x : Naming(read, x) \in Int
  <2> TAKE x
  <2>1. Listed(Under(read, "user-agent", x), read)
    BY UnderListed
  <2> QED BY <1>1, <2>1, SpecificityType DEF Naming
<1>5. \A k \in 1 .. n : sp(k) \in Int
  <2> HIDE DEF sp
  <2> QED BY <1>3, <1>4
<1>6. Parse(groups) = IF best = {} THEN NoRules ELSE groups[CHOOSE i \in best : TRUE]
  <2>1. best = {i \in DOMAIN groups :
                  /\ Specificity(groups[i].agents) >= 0
                  /\ \A j \in DOMAIN groups :
                       \/ Specificity(groups[j].agents) < Specificity(groups[i].agents)
                       \/ Specificity(groups[j].agents) = Specificity(groups[i].agents)
                          /\ i <= j}
    BY <1>1
  <2> HIDE DEF best
  <2> QED BY <2>1 DEF Parse
<1>7. OurHead(read) = IF top < 0 THEN 0 ELSE Min(tops)
  BY DEF OurHead
<1> HIDE DEF n, m, sp
<1>8. names = {sp(k) : k \in 1 .. n} \union {-1}
  BY <1>2, <1>3
<1>9. PICK b \in Nat : \A k \in 1 .. n : sp(k) <= b
  <2> DEFINE f == [k \in 1 .. n |-> sp(k)]
  <2>1. f \in [1 .. n -> Int] /\ \A k \in 1 .. n : f[k] = sp(k)
    BY <1>5
  <2> HIDE DEF f
  <2>2. PICK b \in Nat : \A k \in 1 .. n : f[k] <= b
    BY <1>1, <2>1, ValuesBounded
  <2> QED BY <2>1, <2>2
<1>10. names \in SUBSET Int /\ names # {} /\ \A y \in names : y <= b
  <2> HIDE DEF names
  <2> QED BY <1>5, <1>8, <1>9
<1>11. top \in names /\ \A y \in names : y <= top
  <2> HIDE DEF names
  <2>1. b \in Int
    OBVIOUS
  <2> QED BY <1>10, <2>1, MaxIs
<1> HIDE DEF top
<1>12. /\ top \in Int /\ (top = -1 \/ \E k \in 1 .. n : sp(k) = top)
       /\ \A k \in 1 .. n : sp(k) <= top /\ sp(k) \in Int
  <2> HIDE DEF names
  <2> QED BY <1>5, <1>8, <1>10, <1>11
<1>13. CASE top < 0
  <2>1. best = {}
    BY <1>12, <1>13
  <2> HIDE DEF best
  <2> QED BY <1>6, <1>7, <1>13, <2>1
<1>14. CASE ~(top < 0)
  <2>1. PICK k1 \in 1 .. n : sp(k1) = top
    BY <1>12, <1>14
  <2>2. tops \in SUBSET Nat /\ tops # {}
    <3>1. Heads(read) \subseteq Nat
      BY <1>1, <1>2
    <3>2. h[k1] \in Heads(read) /\ Naming(read, h[k1]) = top
      BY <1>2, <1>3, <2>1
    <3> QED BY <3>1, <3>2
  <2>3. Min(tops) \in tops /\ \A x \in tops : Min(tops) <= x
    <3> HIDE DEF tops
    <3> QED BY <2>2, MinIs
  <2>4. PICK k \in 1 .. n : Min(tops) = h[k] /\ Naming(read, h[k]) = top
    BY <1>2, <2>3
  <2>5. sp(k) = top
    BY <1>3, <2>4
  <2>6. ASSUME NEW j \in 1 .. n, sp(j) = top PROVE k <= j
    <3>1. h[j] \in tops
      BY <1>2, <1>3, <2>6
    <3>2. h[k] <= h[j]
      <4> HIDE DEF tops
      <4> QED BY <2>3, <2>4, <3>1
    <3>3. h[k] \in Nat /\ h[j] \in Nat
      BY <1>1, <1>2
    <3>4. j < k => h[j] < h[k]
      BY <1>2 DEF Ordered
    <3>5. j \in Nat /\ k \in Nat
      BY <1>1
    <3>6. ~(j < k)
      <4> DEFINE a == h[j]
                 c == h[k]
      <4>1. a \in Nat /\ c \in Nat /\ c <= a /\ (j < k => a < c)
        BY <3>2, <3>3, <3>4
      <4> HIDE DEF a, c
      <4> QED BY <4>1
    <3> QED BY <3>5, <3>6
  <2>t. top \in Int
    BY <1>12
  <2>7. k \in best
    <3>1. \A j \in 1 .. n : sp(j) < sp(k) \/ (sp(j) = sp(k) /\ k <= j)
      <4> TAKE j \in 1 .. n
      <4>1. sp(j) \in Int /\ sp(j) <= top
        BY <1>12
      <4>2. CASE sp(j) = top
        BY <2>5, <2>6, <4>2
      <4>3. CASE sp(j) # top
        BY <2>t, <2>5, <4>1, <4>3
      <4> QED BY <4>2, <4>3
    <3> QED BY <1>12, <1>14, <2>5, <3>1
  <2>8. \A i \in best : i = k
    <3> TAKE i \in best
    <3>1. i \in 1 .. n /\ (sp(k) < sp(i) \/ (sp(k) = sp(i) /\ i <= k))
      OBVIOUS
    <3>2. sp(i) = top /\ i <= k
      BY <1>12, <2>5, <3>1
    <3> QED BY <1>1, <2>6, <3>1, <3>2
  <2> HIDE DEF best
  <2>9. (CHOOSE i \in best : TRUE) = k
    BY <2>7, <2>8
  <2>10. Parse(groups) = groups[k] /\ OurHead(read) = h[k]
    BY <1>6, <1>7, <1>14, <2>4, <2>7, <2>9
  <2>11. h[k] # 0
    BY <1>1, <1>2
  <2> QED BY <2>10, <2>11 DEF n
<1> QED BY <1>13, <1>14

\* The lines of a file: a rule has a pattern, any other line a word.
LineType(Chars) ==
  [field : {"allow", "disallow"}, value : PatternType(Chars)]
  \union [field : STRING \ {"allow", "disallow"}, value : STRING]

\* Whatever the groups mean, Parse and Allowed decide by position.
LEMMA FileDecides ==
  ASSUME NEW Chars, NEW read \in Seq(LineType(Chars)), NEW V, NEW st,
         Fits(read, st, V), NEW path \in Seq(Chars)
  PROVE  Allowed(Parse(st.groups), path) = RefAllowed(read, path)
<1> DEFINE rules == Parse(st.groups)
           ours == OurHead(read)
           says(f) == IF ours = 0 THEN {} ELSE Under(read, f, ours)
           hits(f) == {p \in Under(read, f, ours) :
                         ours # 0 /\ PatternLen(p) > 0 /\ Glob(p, path)}
<1>1. st.groups \in Seq(Groups(V)) /\ \E h : Collects(read, st.groups, h)
  BY DEF Fits
<1>2. PICK h : Collects(read, st.groups, h)
  BY <1>1
<1>3. rules.allow = says("allow") /\ rules.disallow = says("disallow")
  <2>1. CASE ours = 0
    <3>1. rules = NoRules
      BY <1>1, <1>2, <2>1, ParseIs
    <3> HIDE DEF rules
    <3> QED BY <2>1, <3>1 DEF NoRules
  <2>2. CASE ours # 0
    <3>1. PICK k \in 1 .. Len(st.groups) : ours = h[k] /\ rules = st.groups[k]
      BY <1>1, <1>2, <2>2, ParseIs
    <3>2. st.groups[k] = [agents   |-> Under(read, "user-agent", h[k]),
                          allow    |-> Under(read, "allow", h[k]),
                          disallow |-> Under(read, "disallow", h[k])]
      BY <1>2 DEF Collects
    <3> HIDE DEF rules, ours
    <3> QED BY <2>2, <3>1, <3>2
  <2> QED BY <2>1, <2>2
<1>4. Len(read) \in Nat /\ DOMAIN read = 1 .. Len(read)
  BY LenProperties
<1>5. \A f \in {"allow", "disallow"} : Under(read, f, ours) \in SUBSET PatternType(Chars)
  <2>1. \A j \in 1 .. Len(read) :
          read[j].field \in {"allow", "disallow"} => read[j].value \in PatternType(Chars)
    <3> TAKE j \in 1 .. Len(read)
    <3>1. read[j] \in LineType(Chars)
      BY ElementOfSeq
    <3> QED BY <3>1 DEF LineType
  <2> QED BY <1>4, <2>1 DEF Under
<1>6. \A f \in {"allow", "disallow"} :
        says(f) \in SUBSET PatternType(Chars) /\ Listed(says(f), read)
  <2>1. \A f : Listed(Under(read, f, ours), read)
    BY UnderListed
  <2>2. Listed({}, read)
    BY DEF Listed
  <2> HIDE DEF ours
  <2> QED BY <1>5, <2>1, <2>2
<1>7. \A f \in {"allow", "disallow"} : Hits(says(f), path) = hits(f)
  <2> TAKE f \in {"allow", "disallow"}
  <2>1. \A p \in Under(read, f, ours) : Match(p, path) = Glob(p, path)
    BY <1>5, MatchDecides
  <2> HIDE DEF ours
  <2> QED BY <2>1 DEF Hits
<1>8. RefAllowed(read, path) = \A d \in hits("disallow") : \E a \in hits("allow") :
                                 PatternLen(a) >= PatternLen(d)
  BY DEF RefAllowed
<1> HIDE DEF rules, says, hits
<1>9. Allowed(rules, path) <=>
        \A d \in Hits(rules.disallow, path) : \E a \in Hits(rules.allow, path) :
          PatternLen(a) >= PatternLen(d)
  <2>1. /\ rules.allow \in SUBSET PatternType(Chars) /\ Listed(rules.allow, read)
        /\ rules.disallow \in SUBSET PatternType(Chars) /\ Listed(rules.disallow, read)
    BY <1>3, <1>6
  <2> QED BY <1>4, <2>1, AllowedIs
<1>10. Allowed(rules, path) \in BOOLEAN
  BY DEF Allowed
<1> QED BY <1>3, <1>7, <1>8, <1>9, <1>10 DEF rules

-----------------------------------------------------------------------------
(* The files that are read.                                                *)

Words(Chars) == STRING \union PatternType(Chars)

\* What RulesSpec keeps: the lines have their type and the groups are what the lines say.
ParserInv(Chars) ==
  /\ doc \in Seq(LineType(Chars))
  /\ Fits(doc, parser, Words(Chars))

\* Before the first line.
LEMMA BeginsFits ==
  ASSUME NEW Chars, ParseBegins
  PROVE  ParserInv(Chars)
<1> DEFINE none == <<>>
           h == [k \in 1 .. 0 |-> 0]
<1>1. doc = none /\ parser = [inAgents |-> FALSE, groups |-> none]
  BY DEF ParseBegins
<1>2. none \in Seq(LineType(Chars)) /\ none \in Seq(Groups(Words(Chars)))
      /\ Len(none) = 0 /\ DOMAIN none = {}
  BY EmptySeq
<1> HIDE DEF none
<1>3. ~Open(none)
  BY <1>2 DEF Open
<1>4. HeadOf(none, 0) = 0
  BY HeadIs
<1>5. Heads(none) = {}
  BY <1>2 DEF Heads
<1>6. h \in [1 .. 0 -> 1 .. 0]
  OBVIOUS
<1> HIDE DEF h
<1>7. Collects(none, none, h)
  BY <1>2, <1>4, <1>5, <1>6 DEF Collects, Ordered
<1> QED BY <1>1, <1>2, <1>3, <1>7 DEF ParserInv, Fits

\* One more line.
LEMMA LineFits ==
  ASSUME NEW Chars, Lines(doc) \subseteq LineType(Chars), ParserInv(Chars), ParseLine
  PROVE  ParserInv(Chars)'
<1>1. PICK l \in Lines(doc) : doc' = Append(doc, l) /\ parser' = ReadLine(parser, l)
  BY DEF ParseLine
<1>2. l \in LineType(Chars) /\ l.value \in Words(Chars)
  BY <1>1 DEF LineType, Words
<1>3. doc \in Seq(LineType(Chars)) /\ Fits(doc, parser, Words(Chars))
  BY DEF ParserInv
<1>4. Append(doc, l) \in Seq(LineType(Chars))
  BY <1>2, <1>3, AppendIs
<1>5. Fits(Append(doc, l), ReadLine(parser, l), Words(Chars))
  BY <1>2, <1>3, ReadLineFits
<1>6. doc' \in Seq(LineType(Chars)) /\ Fits(doc', parser', Words(Chars))
  BY <1>1, <1>4, <1>5
<1> QED BY <1>6 DEF ParserInv

\* Every file of such lines is read into groups that mean what the lines say, at every line.
LEMMA ParserInvHolds ==
  ASSUME NEW Chars, \A read : Lines(read) \subseteq LineType(Chars)
  PROVE  RulesSpec => []ParserInv(Chars)
<1>1. ParseBegins => ParserInv(Chars)
  BY BeginsFits
<1>2. ParserInv(Chars) /\ [ParseLine]_rulesVars => ParserInv(Chars)'
  <2> SUFFICES ASSUME ParserInv(Chars), [ParseLine]_rulesVars PROVE ParserInv(Chars)'
    OBVIOUS
  <2>1. CASE ParseLine
    BY <2>1, LineFits
  <2>2. CASE UNCHANGED rulesVars
    BY <2>2 DEF rulesVars, ParserInv
  <2> QED BY <2>1, <2>2
<1> QED BY <1>1, <1>2, PTL DEF RulesSpec

\* match ('*', '$', prefixes) decides what a pattern means for every rule that is read, for
\* all patterns and paths over any characters, although it never backtracks.
THEOREM MatchingMeansPatterns ==
  ASSUME NEW Chars, \A read : Lines(read) \subseteq LineType(Chars), Paths \subseteq Seq(Chars)
  PROVE  RulesSpec => []MatchIsGlob
<1>1. ParserInv(Chars) => MatchIsGlob
  <2> SUFFICES ASSUME ParserInv(Chars), NEW i \in DOMAIN doc,
                      doc[i].field \in {"allow", "disallow"}, NEW path \in Paths
               PROVE  Match(doc[i].value, path) = Glob(doc[i].value, path)
    BY DEF MatchIsGlob
  <2>1. doc \in Seq(LineType(Chars)) /\ i \in 1 .. Len(doc) /\ path \in Seq(Chars)
    BY LenProperties DEF ParserInv
  <2>2. doc[i] \in LineType(Chars)
    BY <2>1, ElementOfSeq
  <2>3. doc[i].value \in PatternType(Chars)
    BY <2>2 DEF LineType
  <2> QED BY <2>1, <2>3, MatchDecides
<1> QED BY <1>1, ParserInvHolds, PTL

\* Parse and Allowed give every file its meaning by position, at every line it could end
\* with: the earliest group that names us best binds us, and of its rules the longest that
\* match decide.
THEOREM RulesMeanTheFile ==
  ASSUME NEW Chars, \A read : Lines(read) \subseteq LineType(Chars), Paths \subseteq Seq(Chars)
  PROVE  RulesSpec => []RulesByPosition
<1>1. ParserInv(Chars) => RulesByPosition
  <2> SUFFICES ASSUME ParserInv(Chars), NEW path \in Paths
               PROVE  Allowed(Parse(parser.groups), path) = RefAllowed(doc, path)
    BY DEF RulesByPosition
  <2>1. doc \in Seq(LineType(Chars)) /\ Fits(doc, parser, Words(Chars)) /\ path \in Seq(Chars)
    BY DEF ParserInv
  <2> QED BY <2>1, FileDecides
<1> QED BY <1>1, ParserInvHolds, PTL
=============================================================================
