------------------------------- MODULE Robots -------------------------------
(***************************************************************************)
(* The robots.txt of a host, where it is kept and who uses it.  The record *)
(* in the store (kv.go) is written and read by the crawler's workers       *)
(* (crawl/crawler.go, fetchRobots and loadRobots), which put the rules     *)
(* into the host table, and by discovery (discover/discover.go, allowed    *)
(* and fetchRobots), which keeps a second copy in memory.  Each reader     *)
(* takes several steps, and between them the user drops the host table,    *)
(* clears the records, stops the crawl or starts it again.                 *)
(* RobotsRules.tla has what the text of a file means; here it is "parsed". *)
(*                                                                         *)
(* Of a run (Lifecycle.tla has it in full) there is its Stop, and the time *)
(* its goroutines have left.  A job for a robots.txt waits in what pick    *)
(* returned or in the work channel until a worker takes it; a stop lets go *)
(* of it there.                                                            *)
(*                                                                         *)
(* Time is the age of things, in ticks of which TTL make 24 hours.         *)
(***************************************************************************)
EXTENDS Integers, FiniteSets

CONSTANTS
  Hosts,
  Workers,           \* the worker goroutines, of whatever run
  NoRecord, Idle,    \* no record or copy; a goroutine without a host
  TTL,               \* how long a record is used (24 h)
  Answers,           \* how a site may answer a request for robots.txt
  RespectRobots,     \* the values of the setting; the user may change it any time
  MaxChanges,        \* bound: changes of how a site answers
  MaxRuns,           \* bound: starts of the crawl in one process
  MaxButtons         \* bound: maintenance buttons and crashes

ASSUME TimeAssumption == TTL \in Nat \ {0}
ASSUME RunsAssumption == MaxRuns \in Nat \ {0}
ASSUME AnswerAssumption == Answers \subseteq {"rules", "none", "trouble", "down"}

VARIABLES
  site,              \* how each host answers now: a file, 404, 5xx, or not at all
  record,            \* the records in the store (r/)
  entry,             \* the crawler's host table
  waiting,           \* how many jobs for a host a run's scheduler has not handed over
  job,               \* what each worker does
  copy,              \* discovery's copies (robots)
  disc,              \* what discovery does; runMu lets one run at a time
  clearing,          \* ClearRobots has dropped the table and not yet the records
  run, stop,         \* the number of the latest run; how far the Stop of each is
  overlapped,        \* history: did a Start come before a Stop was through?
  gave,              \* history: the answers given so far, and whether rules were ignored
  changes, buttons   \* bounds

crawler == <<entry, waiting, job>>
discovery == <<copy, disc>>
lifecycle == <<run, stop, overlapped>>
control == <<site, clearing, lifecycle, changes, buttons>>
vars == <<record, crawler, discovery, control, gave>>

-----------------------------------------------------------------------------
Runs == 1 .. MaxRuns
Age == 0 .. 2 * TTL
Rules == {"parsed", "all", "deny"}
RecordType == [age : Age, ok : BOOLEAN, body : {"rules", "empty"}]
EntryType == [state : {"absent", "needRobots", "fetchingRobots", "ready"},
              rules : Rules \union {"nil"}]
JobType == [host : Hosts, run : Runs, step : {"read", "fetch", "apply"}, age : Age,
            rules : Rules \union {"nil"}]
CopyType == [age : Age, rules : Rules, born : Age]
DiscType == [host : Hosts, run : Runs \union {0}, step : {"read", "fetch"}, age : Age]

ASSUME NothingAssumption ==
  Idle \notin JobType \union DiscType /\ NoRecord \notin RecordType \union CopyType

Absent == [state |-> "absent", rules |-> "nil"]

\* Nothing tells ages beyond 48 hours apart.
Older(age) == IF age < 2 * TTL THEN age + 1 ELSE age

Ages(kept, none) == IF kept = none THEN none ELSE [kept EXCEPT !.age = Older(@)]
BothAge(kept) ==
  IF kept = NoRecord THEN NoRecord ELSE [kept EXCEPT !.age = Older(@), !.born = Older(@)]

\* Mutated form of Fresh: what is kept never gets old.
FreshForever(kept) == kept # NoRecord

Fresh(kept) == kept # NoRecord /\ kept.age < TTL

\* Mutated form of FromRecord: the rules are set only for a record that is OK.
FromRecordNil(rec) ==
  IF ~rec.ok THEN "nil" ELSE IF rec.body = "rules" THEN "parsed" ELSE "all"

\* What both readers make of a record: one that is not OK permits everything.
FromRecord(rec) ==
  IF ~rec.ok THEN "all" ELSE IF rec.body = "rules" THEN "parsed" ELSE "all"

\* The rules a request for robots.txt leads to, and the record it leaves.
FromAnswer(a) ==
  CASE a = "rules" -> "parsed" [] a = "trouble" -> "deny" [] OTHER -> "all"
\* Mutated form of RecordOf: the body is kept and OK is not set.
RecordOfNotOK(a, age) ==
  [age |-> age, ok |-> a = "none", body |-> IF a = "rules" THEN "rules" ELSE "empty"]

RecordOf(a, age) ==
  [age |-> age, ok |-> a \in {"rules", "none"},
   body |-> IF a = "rules" THEN "rules" ELSE "empty"]

Init ==
  /\ site \in [Hosts -> Answers]
  /\ record = [h \in Hosts |-> NoRecord]
  /\ entry = [h \in Hosts |-> Absent]
  /\ waiting = [p \in Hosts \X Runs |-> 0]
  /\ job = [w \in Workers |-> Idle]
  /\ copy = [h \in Hosts |-> NoRecord]
  /\ disc = Idle
  /\ clearing = FALSE
  /\ run = 0 /\ stop = [r \in Runs |-> "no"] /\ overlapped = FALSE
  /\ gave = [h \in Hosts |-> {}]
  /\ changes = 0 /\ buttons = 0

Running == run > 0 /\ stop[run] = "no"

\* A run with goroutines; they may go on a while after the cancel, for a select that is
\* offered ctx.Done() may take another case.
Alive(r) == r \in 1 .. run /\ stop[r] \in {"no", "flagged", "cancelled"}
Cancelled(r) == r \in Runs /\ stop[r] \notin {"no", "flagged"}

\* How a request under way may end: as the site answers, or cancelled by the stop of the
\* run it belongs to, which is an error like any other.
Outcomes(h, r) == {site[h]} \union (IF Cancelled(r) THEN {"down"} ELSE {})

-----------------------------------------------------------------------------
(* The crawler                                                             *)

\* refill leases a URL of a host the table does not have.
HostLocked(h) ==
  /\ \E r \in Runs : Alive(r)
  /\ entry[h] = Absent
  /\ entry' = [entry EXCEPT ![h].state = "needRobots"]
  /\ UNCHANGED <<record, waiting, job, discovery, control, gave>>

PickRobots(h, r) ==
  /\ Alive(r)
  /\ TRUE \in RespectRobots
  /\ entry[h].state = "needRobots"
  /\ entry' = [entry EXCEPT ![h].state = "fetchingRobots"]
  /\ waiting' = [waiting EXCEPT ![<<h, r>>] = @ + 1]
  /\ UNCHANGED <<record, job, discovery, control, gave>>

\* Scheduler and workers read c.work anew each time, so that a worker of any run may be
\* the one that gets the job.
Take(h, r, w, q) ==
  /\ waiting[<<h, r>>] > 0
  /\ Alive(q)
  /\ job[w] = Idle
  /\ waiting' = [waiting EXCEPT ![<<h, r>>] = @ - 1]
  /\ job' = [job EXCEPT ![w] = [host |-> h, run |-> q, step |-> "read", age |-> 0,
                                rules |-> "nil"]]
  /\ UNCHANGED <<record, entry, discovery, control, gave>>

\* The scheduler is cancelled before it has sent the job, or no worker comes to read the
\* channel any more.
DropJob(h, r) ==
  /\ waiting[<<h, r>>] > 0
  /\ Cancelled(r)
  /\ waiting' = [waiting EXCEPT ![<<h, r>>] = @ - 1]
  /\ UNCHANGED <<record, entry, job, discovery, control, gave>>

PickNoRobots(h) ==
  /\ \E r \in Runs : Alive(r)
  /\ FALSE \in RespectRobots
  /\ entry[h].state = "needRobots"
  /\ entry' = [entry EXCEPT ![h] = [state |-> "ready", rules |-> "all"]]
  /\ gave' = [gave EXCEPT ![h] = @ \union {"ignored"}]
  /\ UNCHANGED <<record, waiting, job, discovery, control>>

FetchRobots(w) ==
  /\ job[w] # Idle /\ job[w].step = "read"
  /\ LET rec == record[job[w].host] IN
     job' = [job EXCEPT ![w] = IF Fresh(rec)
               THEN [@ EXCEPT !.step = "apply", !.rules = FromRecord(rec)]
               ELSE [@ EXCEPT !.step = "fetch", !.age = 0]]
  /\ UNCHANGED <<record, entry, waiting, discovery, control, gave>>

LoadRobots(w) ==
  /\ job[w] # Idle /\ job[w].step = "fetch"
  /\ \E a \in Outcomes(job[w].host, job[w].run) :
       /\ job' = [job EXCEPT ![w].step = "apply", ![w].rules = FromAnswer(a)]
       /\ record' = [record EXCEPT ![job[w].host] = RecordOf(a, job[w].age)]
       /\ gave' = [gave EXCEPT ![job[w].host] = @ \union {a}]
  /\ UNCHANGED <<entry, waiting, discovery, control>>

\* Mutated form of ApplyRules: rules that come late are dropped unless the table asked.
ApplyRulesReadyFirst(w) ==
  /\ job[w] # Idle /\ job[w].step = "apply"
  /\ entry' = [h \in Hosts |-> IF h = job[w].host /\ entry[h].state = "ready"
                               THEN [entry[h] EXCEPT !.rules = job[w].rules] ELSE entry[h]]
  /\ job' = [job EXCEPT ![w] = Idle]
  /\ UNCHANGED <<record, waiting, discovery, control, gave>>

\* The worker is done with a host: its entry, if the table still has one (it need not be
\* the one that asked), gets the rules.
ApplyRules(w) ==
  /\ job[w] # Idle /\ job[w].step = "apply"
  /\ entry' = IF entry[job[w].host] = Absent THEN entry
              ELSE [entry EXCEPT ![job[w].host] = [state |-> "ready", rules |-> job[w].rules]]
  /\ job' = [job EXCEPT ![w] = Idle]
  /\ UNCHANGED <<record, waiting, discovery, control, gave>>

-----------------------------------------------------------------------------
(* Discovery                                                               *)

\* allowed: a copy that is not too old answers at once.  The cycle is one of a run's
\* maintenance goroutine, or of the user's own (DiscoverNow), which no stop cancels.
AskAllowed(h, r) ==
  /\ disc = Idle
  /\ r = 0 \/ Alive(r)
  /\ ~Fresh(copy[h])
  /\ disc' = [host |-> h, run |-> r, step |-> "read", age |-> 0]
  /\ UNCHANGED <<record, crawler, copy, control, gave>>

\* Mutated form of ReadRecord: a record is used however old it is.
ReadRecordAnyAge ==
  /\ disc # Idle /\ disc.step = "read"
  /\ LET rec == record[disc.host] IN
     IF rec # NoRecord
     THEN /\ copy' = [copy EXCEPT ![disc.host] =
                        [age |-> 0, rules |-> FromRecord(rec), born |-> rec.age]]
          /\ disc' = Idle
     ELSE /\ disc' = [disc EXCEPT !.step = "fetch", !.age = 0]
          /\ UNCHANGED copy
  /\ UNCHANGED <<record, crawler, control, gave>>

\* The record of either reader; the copy made of it counts its own 24 hours.
ReadRecord ==
  /\ disc # Idle /\ disc.step = "read"
  /\ LET rec == record[disc.host] IN
     IF Fresh(rec)
     THEN /\ copy' = [copy EXCEPT ![disc.host] =
                        [age |-> 0, rules |-> FromRecord(rec), born |-> rec.age]]
          /\ disc' = Idle
     ELSE /\ disc' = [disc EXCEPT !.step = "fetch", !.age = 0]
          /\ UNCHANGED copy
  /\ UNCHANGED <<record, crawler, control, gave>>

DiscFetchRobots ==
  /\ disc # Idle /\ disc.step = "fetch"
  /\ \E a \in Outcomes(disc.host, disc.run) :
       /\ record' = [record EXCEPT ![disc.host] = RecordOf(a, disc.age)]
       /\ copy' = [copy EXCEPT ![disc.host] =
                     [age |-> 0, rules |-> FromAnswer(a), born |-> disc.age]]
       /\ gave' = [gave EXCEPT ![disc.host] = @ \union {a}]
  /\ disc' = Idle
  /\ UNCHANGED <<crawler, control>>

-----------------------------------------------------------------------------
(* Buttons, stops, and the world                                           *)

\* ForgetHosts, FreeMemory, ClearQueue: the host table is thrown away.
DropBuffered ==
  /\ buttons < MaxButtons
  /\ entry' = [h \in Hosts |-> Absent]
  /\ buttons' = buttons + 1
  /\ UNCHANGED <<site, record, waiting, job, discovery, clearing, lifecycle, gave, changes>>

ClearRobotsBegin ==
  /\ ~clearing
  /\ clearing' = TRUE
  /\ buttons < MaxButtons
  /\ buttons' = buttons + 1
  /\ entry' = [h \in Hosts |-> Absent]
  /\ UNCHANGED <<site, record, waiting, job, discovery, lifecycle, gave, changes>>

ClearRobotsEnd ==
  /\ clearing
  /\ clearing' = FALSE
  /\ record' = [h \in Hosts |-> NoRecord]
  /\ UNCHANGED <<site, crawler, discovery, lifecycle, gave, changes, buttons>>

\* Start: new channels and goroutines; the host table is as it is.
Start ==
  /\ ~Running /\ run < MaxRuns
  /\ run' = run + 1
  /\ overlapped' = (overlapped \/ \E r \in 1 .. run : stop[r] # "done")
  /\ UNCHANGED <<site, record, crawler, discovery, clearing, stop, gave, changes, buttons>>

\* Stop: the flag, the cancel, the wait for the goroutines of every run, the table.
Stopped(r, from, to) ==
  /\ r <= run /\ stop[r] = from
  /\ stop' = [stop EXCEPT ![r] = to]
  /\ UNCHANGED <<site, record, discovery, job, clearing, run, overlapped, gave, changes,
                 buttons>>

StopFlag(r) ==
  Running /\ r = run /\ Stopped(r, "no", "flagged") /\ UNCHANGED <<entry, waiting>>

StopCancel(r) == Stopped(r, "flagged", "cancelled") /\ UNCHANGED <<entry, waiting>>

\* The goroutines of a run have returned; what they had not handed over is forgotten.
Leave(r) ==
  /\ \A w \in Workers : job[w] # Idle => job[w].run # r
  /\ disc # Idle => disc.run # r
  /\ Stopped(r, "cancelled", "left")
  /\ waiting' = [p \in Hosts \X Runs |-> IF p[2] = r THEN 0 ELSE waiting[p]]
  /\ UNCHANGED entry

StopWait(r) ==
  /\ \A q \in 1 .. run : ~Alive(q)
  /\ Stopped(r, "left", "waited")
  /\ UNCHANGED <<entry, waiting>>

StopClean(r) ==
  /\ Stopped(r, "waited", "done")
  /\ entry' = [h \in Hosts |-> Absent]
  /\ UNCHANGED waiting

\* The process ends: what is not in the store is gone.
Crash ==
  /\ buttons < MaxButtons
  /\ buttons' = buttons + 1
  /\ entry' = [h \in Hosts |-> Absent] /\ job' = [w \in Workers |-> Idle]
  /\ waiting' = [p \in Hosts \X Runs |-> 0]
  /\ copy' = [h \in Hosts |-> NoRecord] /\ disc' = Idle
  /\ clearing' = FALSE
  /\ run' = 0 /\ stop' = [r \in Runs |-> "no"] /\ overlapped' = FALSE
  /\ UNCHANGED <<site, record, gave, changes>>

SiteChanges(h) ==
  /\ changes < MaxChanges
  /\ changes' = changes + 1
  /\ \E a \in Answers \ {site[h]} : site' = [site EXCEPT ![h] = a]
  /\ UNCHANGED <<record, crawler, discovery, clearing, lifecycle, gave, buttons>>

\* Time passes; a request lasts no longer than its timeouts, far less than a tick.
Tick ==
  /\ \A w \in Workers : job[w] # Idle => job[w].age = 0
  /\ disc # Idle => disc.age = 0
  /\ record' = [h \in Hosts |-> Ages(record[h], NoRecord)]
  /\ copy' = [h \in Hosts |-> BothAge(copy[h])]
  /\ job' = [w \in Workers |-> Ages(job[w], Idle)]
  /\ disc' = Ages(disc, Idle)
  /\ UNCHANGED <<entry, waiting, control, gave>>

-----------------------------------------------------------------------------
Worker(w) == FetchRobots(w) \/ LoadRobots(w) \/ ApplyRules(w)
Discoverer == ReadRecord \/ DiscFetchRobots

Stopping(r) == StopFlag(r) \/ StopCancel(r) \/ Leave(r) \/ StopWait(r) \/ StopClean(r)

Next ==
  \/ \E h \in Hosts : HostLocked(h) \/ PickNoRobots(h) \/ SiteChanges(h)
  \/ \E h \in Hosts, r \in Runs : PickRobots(h, r) \/ DropJob(h, r)
  \/ \E h \in Hosts, r \in Runs, w \in Workers, q \in Runs : Take(h, r, w, q)
  \/ \E h \in Hosts, r \in Runs \union {0} : AskAllowed(h, r)
  \/ \E w \in Workers : Worker(w)
  \/ Discoverer
  \/ DropBuffered \/ ClearRobotsBegin \/ ClearRobotsEnd \/ Start \/ Crash
  \/ \E r \in Runs : Stopping(r)
  \/ Tick

Spec == Init /\ [][Next]_vars

\* Requests end, for they have timeouts; the steps of a stop that has begun are taken, and
\* goroutines that are offered ctx.Done() again and again leave; time passes; discovery
\* asks again and again.
Fairness ==
  /\ \A w \in Workers : WF_vars(Worker(w))
  /\ WF_vars(Discoverer) /\ WF_vars(ClearRobotsEnd) /\ WF_vars(Tick)
  /\ \A r \in Runs : WF_vars(StopCancel(r)) /\ SF_vars(Leave(r))
  /\ \A h \in Hosts : SF_vars(\E r \in Runs \union {0} : AskAllowed(h, r))

FairSpec == Spec /\ Fairness

-----------------------------------------------------------------------------
(* Properties                                                              *)

\* Every variable holds a value of its kind.
TypeOK ==
  /\ site \in [Hosts -> Answers]
  /\ record \in [Hosts -> RecordType \union {NoRecord}]
  /\ entry \in [Hosts -> EntryType]
  /\ job \in [Workers -> JobType \union {Idle}]
  /\ copy \in [Hosts -> CopyType \union {NoRecord}]
  /\ disc \in DiscType \union {Idle}
  /\ waiting \in [Hosts \X Runs -> Nat]
  /\ clearing \in BOOLEAN /\ run \in 0 .. MaxRuns /\ overlapped \in BOOLEAN
  /\ stop \in [Runs -> {"no", "flagged", "cancelled", "left", "waited", "done"}]
  /\ gave \in [Hosts -> SUBSET (Answers \union {"down", "ignored"})]
  /\ changes \in Nat /\ buttons \in Nat

\* What a site must have answered, at one time, for rules of each kind to be in use.
Reasons(rules) ==
  CASE rules = "parsed" -> {"rules"}
    [] rules = "deny"   -> {"trouble"}
    [] rules = "all"    -> {"none", "down", "trouble", "ignored"}

\* Whatever workers, discovery, restarts and buttons interleave to, the rules in use for
\* a host and the copy discovery has of them come from an answer of that host, or from a
\* pick while the user had robots.txt ignored; a site that has answered nothing but a
\* file is otherwise never crawled as if it had none.  ("trouble" among the reasons for
\* "all" is what TroubleBacksOff denies.)
RulesHaveReason ==
  \A h \in Hosts :
    /\ entry[h].state = "ready" => gave[h] \intersect Reasons(entry[h].rules) # {}
    /\ copy[h] # NoRecord =>
         gave[h] \intersect (Reasons(copy[h].rules) \ {"ignored"}) # {}

\* While a run goes on, a host that waits for its rules has a job under way that brings
\* them: neither a table thrown away, nor a job of an older table, nor the job that a stop
\* let go of leaves it waiting.  (After a Start that came before a Stop was through it may
\* wait: the Stop lets go of the job, and the entry is in the table both runs use.)
FetchingIsServed ==
  Running /\ ~overlapped =>
    \A h \in Hosts : entry[h].state = "fetchingRobots" =>
      \/ waiting[<<h, run>>] > 0
      \/ \E w \in Workers : job[w] # Idle /\ job[w].host = h

\* A copy made of a record counts its own 24 hours, so discovery may go by an answer older
\* than that, but not by one twice as old.
CopyAgeBounded == \A h \in Hosts : Fresh(copy[h]) => copy[h].born < 2 * TTL

\* When a site has come to publish a file and stays with it, and requests for it end in
\* time (one that the two minutes of a cycle cut short counts as a site that is down),
\* discovery comes to go by it for good: no late answer, cancelled request or restart brings
\* the old rules back.
NewRulesReach ==
  \A h \in Hosts :
    <>[](site[h] = "rules") => <>[](Fresh(copy[h]) => copy[h].rules = "parsed")

\* The crawler goes without rules only for a host that has none, or that cannot be reached,
\* or when told to: "Server trouble: back off rather than assume permission."
TroubleBacksOff ==
  \A h \in Hosts : entry[h].state = "ready" /\ entry[h].rules = "all" =>
    gave[h] \intersect {"none", "down", "ignored"} # {}
=============================================================================
