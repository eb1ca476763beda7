----------------------------- MODULE Discovery -----------------------------
(***************************************************************************)
(* discover/discover.go: a cycle asks Hacker News, then the Tranco list,   *)
(* then the user's feeds, each for what is left of the cycle's limit, and  *)
(* queues what it has got.  The walk along the list is kept in the store   *)
(* as two values, the list's name and the rank, written before the cycle   *)
(* queues anything; every cycle reads them again.                          *)
(*                                                                         *)
(* The timer, the pause and the button only decide when a cycle may begin, *)
(* runMu lets one run at a time.  What robots.txt allows is in Robots.tla; *)
(* a source it blocks is a source that fails.                              *)
(***************************************************************************)
EXTENDS Integers, Sequences, FiniteSets, FiniteSetsExt

CONSTANTS
  Domains, Junk,     \* rows of a list: a domain, or nothing with a dot in it
  Lists,             \* the lists of the days, one after the other
  Top,               \* rows of a list (topMillion)
  MaxPerCycle,       \* DiscoveryMaxPerCycle
  HNMax,             \* what Hacker News gives at most (hitsPerPage)
  FeedMax,           \* what a feed gives at most
  Fits,              \* rows in the MaxPageBytes the client reads; Source.MaxBytes is not used
  Idle,
  MaxCrashes         \* bound: the process ends

ASSUME ListAssumption ==
  /\ Top \in Nat \ {0} /\ Lists \in Seq([1 .. Top -> Domains \union {Junk}])
  /\ Lists # <<>> /\ Junk \notin Domains
ASSUME DomainsAssumption == IsFiniteSet(Domains)
ASSUME LimitAssumption ==
  /\ {MaxPerCycle, Fits} \subseteq Nat \ {0} /\ {HNMax, FeedMax, MaxCrashes} \subseteq Nat

VARIABLES
  today,             \* which list is out
  saved,             \* discoverTrancoID and discoverTrancoRank
  run,               \* the cycle under way
  offered,           \* history: the domains that came to the frontier
  excused,           \* history: those a crash, an error or a cut row lost on the way
  crashes            \* bound

vars == <<today, saved, run, offered, excused, crashes>>

-----------------------------------------------------------------------------
Days == DOMAIN Lists
Cursor == [id : Days \union {0}, rank : 0 .. Top]
RunType ==
  [pc : {"hackernews", "meta", "reset", "list", "feeds", "enqueue"},
   items : SUBSET Domains, id : Days \union {0}, rank : 0 .. Top]

ASSUME IdleAssumption == Idle \notin RunType

Limit(items) == MaxPerCycle - Cardinality(items)

\* The domains of the rows from lo + 1 to hi that parseTopCSV accepts.
Rows(id, lo, hi) == {Lists[id][r] : r \in lo + 1 .. hi} \ {Junk}

\* The source after this one, unless the limit is reached.
After(items, source) == IF Limit(items) <= 0 THEN "enqueue" ELSE source

Init ==
  /\ today = 1
  /\ saved = [id |-> 0, rank |-> 0]
  /\ run = Idle
  /\ offered = {} /\ excused = {}
  /\ crashes = 0

At(pc) == run # Idle /\ run.pc = pc

-----------------------------------------------------------------------------
Run ==
  /\ run = Idle
  /\ run' = [pc |-> "hackernews", items |-> {}, id |-> 0, rank |-> 0]
  /\ UNCHANGED <<today, saved, offered, excused, crashes>>

\* New stories, or nothing when the request fails.
HackerNews ==
  /\ At("hackernews")
  /\ \E urls \in SUBSET Domains :
       /\ Cardinality(urls) <= Min({HNMax, MaxPerCycle})
       /\ run' = [run EXCEPT !.items = urls, !.pc = After(urls, "meta")]
  /\ UNCHANGED <<today, saved, offered, excused, crashes>>

\* Mutated form of FetchMeta: a new list is walked from where the old one was left.
FetchMetaKeepsRank ==
  /\ At("meta")
  /\ run' = [run EXCEPT !.id = today, !.rank = saved.rank % Top, !.pc = "list"]
  /\ saved' = [saved EXCEPT !.id = today]
  /\ UNCHANGED <<today, offered, excused, crashes>>

\* Tranco.Collect: which list is today's.  A new one is noted, and walked from the top.
FetchMeta ==
  /\ At("meta")
  /\ run' = [run EXCEPT !.id = today,
                        !.rank = IF saved.id = today THEN saved.rank % Top ELSE 0,
                        !.pc = IF saved.id = today THEN "list" ELSE "reset"]
  /\ saved' = [saved EXCEPT !.id = today]
  /\ UNCHANGED <<today, offered, excused, crashes>>

ResetRank ==
  /\ At("reset")
  /\ saved' = [saved EXCEPT !.rank = 0]
  /\ run' = [run EXCEPT !.pc = "list"]
  /\ UNCHANGED <<today, offered, excused, crashes>>

\* Mutated form of Last: what Hacker News gave is not taken off.
LastOfFull == Min({run.rank + MaxPerCycle, Top})

Last == Min({run.rank + Limit(run.items), Top})

\* Mutated form of FetchList: the rank is kept in memory only.
FetchListUnsaved(fit, cut) ==
  /\ At("list")
  /\ LET items == run.items \union Rows(run.id, run.rank, Min({Last, fit}))
     IN run' = [run EXCEPT !.items = items, !.pc = After(items, "feeds")]
  /\ UNCHANGED <<today, saved, offered, excused, crashes>>

\* Mutated form of FetchList: the rank moves on by what was asked for.
FetchListByLimit(fit, cut) ==
  /\ At("list")
  /\ LET items == run.items \union Rows(run.id, run.rank, Min({Last, fit}))
     IN /\ saved' = [saved EXCEPT !.rank = run.rank + Limit(run.items)]
        /\ run' = [run EXCEPT !.items = items, !.pc = After(items, "feeds")]
  /\ UNCHANGED <<today, offered, excused, crashes>>

\* The list down to Last, of which the client keeps the first fit rows and may leave a cut
\* row that still looks like a domain.  The rank moves on by what was found.
FetchList(fit, cut) ==
  /\ At("list")
  /\ LET found == Rows(run.id, run.rank, Min({Last, fit}))
         part  == IF cut /\ fit < Last /\ run.rank <= fit
                  THEN {Lists[run.id][fit + 1]} \ {Junk} ELSE {}
         rank  == run.rank + Cardinality(found) + Cardinality(part)
         items == run.items \union found
     IN /\ saved' = [saved EXCEPT !.rank = IF rank >= Top THEN 0 ELSE rank]
        /\ run' = [run EXCEPT !.items = items, !.pc = After(items \union part, "feeds")]
        /\ excused' = excused \union part
  /\ UNCHANGED <<today, offered, crashes>>

\* Errors, refusals, timeouts: the cycle goes on to the next source.
TrancoFails ==
  /\ At("meta") \/ At("list")
  /\ run' = [run EXCEPT !.pc = "feeds"]
  /\ UNCHANGED <<today, saved, offered, excused, crashes>>

\* One of the user's feeds stands for all; the limit is above zero here.
FetchFeeds ==
  /\ At("feeds")
  /\ \E urls \in SUBSET Domains :
       /\ Cardinality(urls) <= Min({FeedMax, Limit(run.items)})
       /\ run' = [run EXCEPT !.items = @ \union urls, !.pc = "enqueue"]
  /\ UNCHANGED <<today, saved, offered, excused, crashes>>

Enqueue ==
  /\ At("enqueue")
  /\ offered' = offered \union run.items
  /\ run' = Idle
  /\ UNCHANGED <<today, saved, excused, crashes>>

\* An error of the store is logged; the cycle is over all the same.
EnqueueFails ==
  /\ At("enqueue")
  /\ excused' = excused \union run.items
  /\ run' = Idle
  /\ UNCHANGED <<today, saved, offered, crashes>>

-----------------------------------------------------------------------------
\* With the process goes what the cycle has in hand; and if only the name of a new list
\* was written, the rank of the old one is taken for its.
Crash ==
  /\ crashes < MaxCrashes
  /\ crashes' = crashes + 1
  /\ run' = Idle
  /\ excused' = excused
       \union (IF run = Idle THEN {} ELSE run.items)
       \union (IF At("reset") THEN Rows(saved.id, 0, saved.rank) ELSE {})
  /\ UNCHANGED <<today, saved, offered>>

NewDay ==
  /\ today < Len(Lists)
  /\ today' = today + 1
  /\ UNCHANGED <<saved, run, offered, excused, crashes>>

Cycle ==
  \/ Run \/ HackerNews
  \/ FetchMeta \/ ResetRank
  \/ \E fit \in 0 .. Fits, cut \in BOOLEAN : FetchList(fit, cut)
  \/ TrancoFails
  \/ FetchFeeds
  \/ Enqueue \/ EnqueueFails

Next == Cycle \/ Crash \/ NewDay

Spec == Init /\ [][Next]_vars

\* Cycles begin and end; the list's server answers again and again, and the client gets as
\* much of the answer as it reads of any.
Fairness == WF_vars(Cycle) /\ SF_vars(FetchMeta) /\ SF_vars(FetchList(Fits, FALSE))

FairSpec == Spec /\ Fairness

-----------------------------------------------------------------------------
(* Properties                                                              *)

\* Every variable holds a value of its kind.
TypeOK ==
  /\ today \in Days
  /\ saved \in Cursor
  /\ run \in RunType \union {Idle}
  /\ offered \subseteq Domains /\ excused \subseteq Domains
  /\ crashes \in Nat

\* The saved rank never runs ahead of the walk: a domain at or above it in the list it
\* belongs to has been queued, is in the hand of the cycle under way, or was lost by a
\* crash, a failed Enqueue or a cut row.  (The moment between the two writes is excepted.)
CursorCovered ==
  saved.id # 0 /\ ~At("reset") =>
    Rows(saved.id, 0, saved.rank) \subseteq
      offered \union excused \union (IF run = Idle THEN {} ELSE run.items)

\* The sources together give a cycle no more than it may queue, for each is asked for what
\* is left.  So Run's own cut-off, which is not modelled, has nothing to cut: it would drop
\* rows that the saved rank has passed already.
LimitKept == run # Idle => Cardinality(run.items) <= MaxPerCycle

\* Of a list that stays, every domain in the rows the client reads of it comes to be
\* offered, over any crashes, failing requests, short answers and new days: no cycle walks
\* over and over what an earlier one has walked.
WalkOffersWhatFits ==
  \A n \in Days :
    <>[](today = n) => <>(Rows(n, 0, Min({Fits, Top})) \subseteq offered \union excused)

=============================================================================
