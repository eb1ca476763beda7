-------------------------- MODULE LifecycleProofs --------------------------
(***************************************************************************)
(* Proofs about Lifecycle.tla for any URLs, handlers, workers and channels *)
(* and any number of calls and leases.                                     *)
(*                                                                         *)
(* StoppedIsQuiet rests on where the Stops are (Quiet below): while the    *)
(* flag is down either no goroutine is left and the table is empty, or a   *)
(* Stop that has yet to wait, or to clean an idle crawler, is under way.   *)
(* NoStuckWork rests on that, on the runs' numbers, and on the leases on   *)
(* disk: until an outcome is recorded a pending URL is queued or leased,   *)
(* and a Start that overlaps no Stop sweeps every lease.                   *)
(***************************************************************************)
EXTENDS Lifecycle, FiniteSetTheorems, TLAPS

-----------------------------------------------------------------------------
(* Types.                                                                  *)

DiskOK ==
  /\ seen \in [Urls -> {"pending", "done", "dead"}] /\ queue \in [Urls -> Nat]
  /\ leases \subseteq LeaseType /\ IsFiniteSet(leases) /\ seq \in Nat

MemoryOK ==
  /\ table \subseteq LeaseType /\ IsFiniteSet(table)
  /\ work \in [Runs -> SUBSET LeaseType] /\ results \in [Runs -> SUBSET LeaseType]

ProcsOK ==
  procs \subseteq ProcType /\ \A p \in procs : IsFiniteSet(p.has) /\ p.run <= run

CallsOK ==
  /\ calls \in [of : [Callers -> CallType], made : Nat]
  /\ \A c \in Callers : IsFiniteSet(calls.of[c].back)

\* The handlers that may start a run yet.
Starters == {c \in Callers : calls.of[c].at = "start" \/ calls.of[c].again}

\* A run is numbered by a call of its own, and its cancel is called after its flag is down.
RunsOK ==
  /\ running \in BOOLEAN /\ overlapped \in BOOLEAN
  /\ run \in Nat /\ cancelled \subseteq 1 .. run
  /\ running => run > 0 /\ run \notin cancelled
  /\ \A c \in Callers : At(c, "cancel") => calls.of[c].run \in 1 .. run /\ (running => calls.of[c].run # run)
  /\ IsFiniteSet(Starters) /\ run + Cardinality(Starters) <= calls.made
  /\ calls.made <= MaxCalls

TypeInv == DiskOK /\ MemoryOK /\ ProcsOK /\ CallsOK /\ RunsOK

LEMMA RunBounded ==
  ASSUME CallsOK, RunsOK
  PROVE  /\ run \in 0 .. MaxCalls /\ calls.made \in Nat /\ MaxCalls \in Nat
         /\ Starters # {} => run + 1 \in Runs
<1>1. /\ calls.made \in Nat /\ MaxCalls \in Nat /\ run \in Nat /\ Cardinality(Starters) \in Nat
      /\ run + Cardinality(Starters) <= calls.made /\ calls.made <= MaxCalls
  BY FS_CardinalityType, SizesAssumption DEF CallsOK, RunsOK
<1>2. Starters # {} => Cardinality(Starters) >= 1
  <2>1. ASSUME Starters # {} PROVE Cardinality(Starters) # 0
    BY <2>1, FS_EmptySet DEF RunsOK
  <2> QED BY <1>1, <2>1
<1> QED BY <1>1, <1>2 DEF Runs

LEMMA TypeInvImpliesTypeOK == TypeInv => TypeOK
<1> SUFFICES ASSUME TypeInv PROVE TypeOK
  OBVIOUS
<1>1. run \in 0 .. MaxCalls /\ MaxCalls \in Nat
  BY RunBounded DEF TypeInv
<1>2. cancelled \subseteq Runs
  BY <1>1 DEF TypeInv, RunsOK, Runs
<1> QED BY <1>1, <1>2 DEF TypeInv, DiskOK, MemoryOK, ProcsOK, CallsOK, RunsOK, TypeOK

LEMMA IdleType == Idle \in CallType /\ Idle.back = {} /\ Idle.at = "idle" /\ Idle.again = FALSE
  BY SizesAssumption DEF Idle, CallType

LEMMA InitTypeInv == Init => TypeInv
<1> SUFFICES ASSUME Init PROVE TypeInv
  OBVIOUS
<1>1. IsFiniteSet({}) /\ Cardinality({}) = 0
  BY FS_EmptySet
<1>2. /\ calls.of = [c \in Callers |-> Idle] /\ calls.made = 0
      /\ calls \in [of : [Callers -> CallType], made : Nat]
  <2>1. calls = [of |-> [c \in Callers |-> Idle], made |-> 0]
    BY DEF Init
  <2>2. [c \in Callers |-> Idle] \in [Callers -> CallType]
    BY IdleType
  <2> QED BY <2>1, <2>2
<1>3. Starters = {} /\ \A c \in Callers : ~At(c, "cancel") /\ calls.of[c].back = {}
  BY <1>2, IdleType DEF Starters, At
<1>4. DiskOK /\ MemoryOK /\ ProcsOK
  BY <1>1 DEF Init, DiskOK, MemoryOK, ProcsOK
<1>5. CallsOK
  BY <1>1, <1>2, <1>3 DEF CallsOK
<1>6. RunsOK
  <2>1. running = FALSE /\ overlapped = FALSE /\ run = 0 /\ cancelled = {}
    BY DEF Init
  <2>2. running \in BOOLEAN /\ overlapped \in BOOLEAN
    BY <2>1
  <2>3. run + Cardinality(Starters) <= calls.made /\ calls.made <= MaxCalls
    BY <1>1, <1>2, <1>3, <2>1, SizesAssumption
  <2> QED BY <1>1, <1>3, <2>1, <2>2, <2>3 DEF RunsOK
<1> QED BY <1>4, <1>5, <1>6 DEF TypeInv

-----------------------------------------------------------------------------
(* The goroutines.                                                         *)

LEMMA Became ==
  ASSUME ProcsOK, NEW p \in procs, NEW has \in SUBSET LeaseType, IsFiniteSet(has),
         Become(p, has), run' = run
  PROVE  ProcsOK'
<1> DEFINE q == [p EXCEPT !.has = has]
<1>1. p \in ProcType
  BY DEF ProcsOK
<1>2. q \in ProcType /\ q.has = has /\ q.run = p.run
  BY <1>1 DEF ProcType
<1>3. procs' = (procs \ {p}) \union {q}
  BY DEF Become
<1> HIDE DEF q
<1> QED BY <1>2, <1>3 DEF ProcsOK

LEMMA ApiKept ==
  ASSUME TypeInv, UNCHANGED <<calls, running, run, cancelled, overlapped>>
  PROVE  CallsOK' /\ RunsOK'
  BY DEF TypeInv, CallsOK, RunsOK, Starters, At

\* Complete records outcomes: the numbers of retries are numbers.
LEMMA CompleteOK ==
  ASSUME DiskOK, NEW batch \in SUBSET LeaseType, IsFiniteSet(batch), Complete(batch)
  PROVE  DiskOK'
<1>1. leases' \in SUBSET leases
  BY DEF Complete
<1>2. leases' \subseteq LeaseType /\ IsFiniteSet(leases')
  BY <1>1, FS_Subset DEF DiskOK
<1>3. \A u \in Urls : Cardinality({j \in batch : j.url = u /\ j.outcome = "retry"}) \in Nat
  <2> TAKE u \in Urls
  <2>1. {j \in batch : j.url = u /\ j.outcome = "retry"} \in SUBSET batch
    OBVIOUS
  <2> QED BY <2>1, FS_Subset, FS_CardinalityType
<1>4. queue' \in [Urls -> Nat]
  BY <1>3 DEF Complete, DiskOK
<1>5. seen' \in [Urls -> {"pending", "done", "dead"}]
  BY DEF Complete, DiskOK
<1> QED BY <1>2, <1>4, <1>5 DEF Complete, DiskOK

LEMMA GoroutineTypeInv ==
  ASSUME TypeInv, NEW p \in procs,
         SchedulerStep(p) \/ WorkerStep(p) \/ Leave(p) \/ CollectorStep(p)
  PROVE  TypeInv'
<1>t. /\ DiskOK /\ MemoryOK /\ ProcsOK /\ p.has \subseteq LeaseType /\ IsFiniteSet(p.has)
      /\ p \in ProcType
  BY DEF TypeInv, ProcsOK, ProcType
<1>f. \A x : IsFiniteSet({x}) /\ IsFiniteSet(p.has \ {x}) /\ IsFiniteSet(p.has \union {x})
  BY <1>t, FS_Singleton, FS_RemoveElement, FS_AddElement
<1>e. IsFiniteSet({})
  BY FS_EmptySet
<1>1. ASSUME NEW u \in Urls, Refill(p, u) PROVE TypeInv'
  <2> DEFINE l == Lease(u, seq')
  <2>1. seq' \in Nat /\ seq' = seq + 1
    BY <1>1, <1>t DEF Refill, DiskOK
  <2>2. l \in LeaseType
    BY <2>1 DEF Lease, LeaseType, Outcomes
  <2> HIDE DEF l
  <2>3. leases' = leases \union {l} /\ table' = table \union {l}
    BY <1>1 DEF Refill, l
  <2>4. IsFiniteSet(leases') /\ IsFiniteSet(table')
    BY <2>3, <1>t, FS_AddElement DEF DiskOK, MemoryOK
  <2>5. queue' \in [Urls -> Nat]
    BY <1>1, <1>t DEF Refill, DiskOK
  <2>6. DiskOK' /\ MemoryOK'
    BY <1>1, <1>t, <2>1, <2>2, <2>3, <2>4, <2>5 DEF Refill, DiskOK, MemoryOK
  <2>7. ProcsOK'
    BY <1>1, <1>t DEF Refill, ProcsOK
  <2> QED BY <1>1, <2>6, <2>7, ApiKept DEF Refill, TypeInv
<1>2. ASSUME NEW some \in SUBSET table, Pick(p, some) PROVE TypeInv'
  <2>1. some \in SUBSET LeaseType /\ IsFiniteSet(some) /\ IsFiniteSet(table \ some)
    BY <1>t, FS_Subset, FS_Difference DEF MemoryOK
  <2>2. ProcsOK'
    BY <1>2, <1>t, <2>1, Became DEF Pick
  <2>3. DiskOK' /\ MemoryOK'
    BY <1>2, <1>t, <2>1 DEF Pick, DiskOK, MemoryOK, disk
  <2> QED BY <1>2, <2>2, <2>3, ApiKept DEF Pick, TypeInv
<1>3. ASSUME NEW l \in p.has, NEW r \in Runs, Dispatch(p, l, r) PROVE TypeInv'
  <2>1. p.has \ {l} \in SUBSET LeaseType
    BY <1>t
  <2>2. ProcsOK'
    BY <1>3, <1>t, <1>f, <2>1, Became DEF Dispatch
  <2>3. DiskOK' /\ MemoryOK'
    BY <1>3, <1>t DEF Dispatch, DiskOK, MemoryOK, disk
  <2> QED BY <1>3, <2>2, <2>3, ApiKept DEF Dispatch, TypeInv
<1>4. ASSUME NEW r \in Runs, NEW j \in work[r], Take(p, j, r) PROVE TypeInv'
  <2>1. {Begun(p, j)} \in SUBSET LeaseType
    BY <1>t DEF MemoryOK, Begun, LeaseType, Outcomes
  <2>2. ProcsOK'
    BY <1>4, <1>t, <1>f, <2>1, Became DEF Take
  <2>3. DiskOK' /\ MemoryOK'
    BY <1>4, <1>t DEF Take, DiskOK, MemoryOK, disk
  <2> QED BY <1>4, <2>2, <2>3, ApiKept DEF Take, TypeInv
<1>5. ASSUME NEW j \in p.has, NEW outcome \in Outcomes \ {"none"}, Fetched(p, j, outcome) PROVE TypeInv'
  <2>1. {[j EXCEPT !.outcome = outcome]} \in SUBSET LeaseType
    BY <1>t DEF LeaseType
  <2>2. ProcsOK'
    BY <1>5, <1>t, <1>f, <2>1, Became DEF Fetched
  <2>3. DiskOK' /\ MemoryOK'
    BY <1>5, <1>t DEF Fetched, DiskOK, MemoryOK, disk
  <2> QED BY <1>5, <2>2, <2>3, ApiKept DEF Fetched, TypeInv
<1>6. ASSUME NEW j \in p.has, NEW r \in Runs, Send(p, j, r) PROVE TypeInv'
  <2>1. ProcsOK'
    BY <1>6, <1>t, <1>e, Became DEF Send
  <2>2. DiskOK' /\ MemoryOK'
    BY <1>6, <1>t DEF Send, DiskOK, MemoryOK, disk
  <2> QED BY <1>6, <2>1, <2>2, ApiKept DEF Send, TypeInv
<1>7. CASE Leave(p)
  <2>1. ProcsOK'
    BY <1>7, <1>t DEF Leave, ProcsOK
  <2>2. DiskOK' /\ MemoryOK'
    BY <1>7, <1>t DEF Leave, DiskOK, MemoryOK, disk
  <2> QED BY <1>7, <2>1, <2>2, ApiKept DEF Leave, TypeInv
<1>8. ASSUME NEW r \in Runs, NEW j \in results[r], Collect(p, j, r) PROVE TypeInv'
  <2>1. p.has \union {j} \in SUBSET LeaseType
    BY <1>t DEF MemoryOK
  <2>2. ProcsOK'
    BY <1>8, <1>t, <1>f, <2>1, Became DEF Collect
  <2>3. DiskOK' /\ MemoryOK'
    BY <1>8, <1>t DEF Collect, DiskOK, MemoryOK, disk
  <2> QED BY <1>8, <2>2, <2>3, ApiKept DEF Collect, TypeInv
<1>9. CASE Persist(p)
  <2>1. ProcsOK'
    BY <1>9, <1>t, <1>e, Became DEF Persist
  <2>2. DiskOK'
    BY <1>9, <1>t, CompleteOK DEF Persist
  <2>3. MemoryOK'
    BY <1>9, <1>t DEF Persist, MemoryOK
  <2> QED BY <1>9, <2>1, <2>2, <2>3, ApiKept DEF Persist, TypeInv
<1>10. ASSUME NEW r \in Runs, Drained(p, r) PROVE TypeInv'
  <2>1. ProcsOK'
    BY <1>10, <1>t DEF Drained, ProcsOK
  <2>2. DiskOK'
    BY <1>10, <1>t, CompleteOK DEF Drained
  <2>3. MemoryOK'
    BY <1>10, <1>t DEF Drained, MemoryOK
  <2> QED BY <1>10, <2>1, <2>2, <2>3, ApiKept DEF Drained, TypeInv
<1> QED
  BY <1>1, <1>2, <1>3, <1>4, <1>5, <1>6, <1>7, <1>8, <1>9, <1>10
  DEF SchedulerStep, WorkerStep, CollectorStep

-----------------------------------------------------------------------------
(* The handlers.                                                           *)

LEMMA Stepped ==
  ASSUME CallsOK, NEW c \in Callers, NEW call \in CallType, IsFiniteSet(call.back),
         Step(c, call)
  PROVE  /\ CallsOK' /\ calls'.of[c] = call /\ calls'.made = calls.made
         /\ \A d \in Callers \ {c} : calls'.of[d] = calls.of[d]
<1>1. calls \in [of : [Callers -> CallType], made : Nat]
  BY DEF CallsOK
<1>2. /\ calls'.of = [calls.of EXCEPT ![c] = call] /\ calls'.made = calls.made
      /\ calls' \in [of : [Callers -> CallType], made : Nat]
  BY <1>1 DEF Step
<1>3. calls'.of[c] = call /\ \A d \in Callers \ {c} : calls'.of[d] = calls.of[d]
  BY <1>1, <1>2
<1> QED BY <1>2, <1>3 DEF CallsOK

\* A handler on its way through Stop stays as ready to start a run as it was, and calls
\* cancel only when told.
LEMMA SteppedRuns ==
  ASSUME CallsOK, RunsOK, NEW c \in Callers, NEW call \in CallType, IsFiniteSet(call.back),
         Step(c, call), call.at # "cancel",
         call.at = "start" \/ call.again <=> c \in Starters,
         UNCHANGED <<running, run, cancelled, overlapped>>
  PROVE  CallsOK' /\ RunsOK'
<1>1. /\ CallsOK' /\ calls'.of[c] = call /\ calls'.made = calls.made
      /\ \A d \in Callers \ {c} : calls'.of[d] = calls.of[d]
  BY Stepped
<1>2. Starters' = Starters
  BY <1>1 DEF Starters
<1>3. \A d \in Callers : At(d, "cancel")' => At(d, "cancel") /\ calls'.of[d] = calls.of[d]
  BY <1>1 DEF At
<1> QED BY <1>1, <1>2, <1>3 DEF RunsOK

LEMMA AfterStopType ==
  ASSUME CallsOK, NEW c \in Callers, calls.of[c].at # "start"
  PROVE  /\ AfterStop(c) \in CallType /\ AfterStop(c).back = {} /\ AfterStop(c).at \in {"start", "idle"}
         /\ AfterStop(c).at = "start" \/ AfterStop(c).again <=> c \in Starters
<1>1. calls.of[c] \in CallType /\ calls.of[c].again \in BOOLEAN
  BY DEF CallsOK, CallType
<1>2. Idle \in CallType /\ Idle.back = {} /\ Idle.at = "idle" /\ Idle.again = FALSE
  BY IdleType
<1>3. LET s == [Idle EXCEPT !.at = "start"]
      IN s \in CallType /\ s.back = {} /\ s.at = "start" /\ s.again = FALSE
  BY <1>2 DEF CallType
<1> QED BY <1>1, <1>2, <1>3 DEF AfterStop, Starters

LEMMA CallTypeInv ==
  ASSUME TypeInv, NEW c \in Callers, Call(c)
  PROVE  TypeInv'
<1>t. CallsOK /\ RunsOK /\ calls \in [of : [Callers -> CallType], made : Nat]
  BY DEF TypeInv, CallsOK
<1>1. PICK call \in {[Idle EXCEPT !.at = "start"], [Idle EXCEPT !.at = "stop"],
                     [Idle EXCEPT !.at = "stop", !.again = TRUE]} :
        calls' = [of |-> [calls.of EXCEPT ![c] = call], made |-> calls.made + 1]
  BY DEF Call
<1>2. call \in CallType /\ call.back = {} /\ call.at \in {"start", "stop"}
  BY IdleType DEF CallType
<1>3. /\ calls'.of = [calls.of EXCEPT ![c] = call] /\ calls'.made = calls.made + 1
      /\ calls'.of \in [Callers -> CallType] /\ calls'.made \in Nat
      /\ calls' \in [of : [Callers -> CallType], made : Nat]
  BY <1>1, <1>2, <1>t
<1>4. calls'.of[c] = call /\ \A d \in Callers \ {c} : calls'.of[d] = calls.of[d]
  BY <1>3, <1>t
<1>5. CallsOK'
  BY <1>t, <1>2, <1>3, <1>4, FS_EmptySet DEF CallsOK
<1>6. IsFiniteSet(Starters') /\ Cardinality(Starters') <= Cardinality(Starters) + 1
      /\ Cardinality(Starters') \in Nat /\ Cardinality(Starters) \in Nat
  <2>1. IsFiniteSet(Starters) /\ Cardinality(Starters) \in Nat
    BY <1>t, FS_CardinalityType DEF RunsOK
  <2>2. /\ IsFiniteSet(Starters \union {c})
        /\ Cardinality(Starters \union {c}) =
             IF c \in Starters THEN Cardinality(Starters) ELSE Cardinality(Starters) + 1
    BY <2>1, FS_AddElement
  <2>3. Starters' \in SUBSET (Starters \union {c})
    BY <1>4 DEF Starters
  <2>4. IsFiniteSet(Starters') /\ Cardinality(Starters') <= Cardinality(Starters \union {c})
    BY <2>2, <2>3, FS_Subset
  <2> QED BY <2>1, <2>2, <2>4, FS_CardinalityType
<1>7. \A d \in Callers : At(d, "cancel")' => At(d, "cancel") /\ calls'.of[d] = calls.of[d]
  BY <1>2, <1>4 DEF At
<1>8. UNCHANGED <<disk, table, running, run, cancelled, procs, work, results, overlapped>>
      /\ calls.made < MaxCalls
  BY DEF Call
<1>9. run + Cardinality(Starters') <= calls'.made /\ calls'.made <= MaxCalls
  BY <1>t, <1>3, <1>6, <1>8, SizesAssumption DEF RunsOK
<1>10. RunsOK'
  BY <1>t, <1>6, <1>7, <1>8, <1>9 DEF RunsOK
<1> QED BY <1>5, <1>8, <1>10 DEF TypeInv, DiskOK, MemoryOK, ProcsOK, disk

LEMMA SweepOK ==
  ASSUME DiskOK, SweepLeases
  PROVE  queue' \in [Urls -> Nat] /\ leases' = {}
<1>1. \A u \in Urls : Cardinality({l \in leases : l.url = u}) \in Nat
  <2> TAKE u \in Urls
  <2>1. {l \in leases : l.url = u} \in SUBSET leases
    OBVIOUS
  <2> QED BY <2>1, FS_Subset, FS_CardinalityType DEF DiskOK
<1> QED BY <1>1 DEF SweepLeases, DiskOK

LEMMA StartTypeInv ==
  ASSUME TypeInv, NEW c \in Callers, Start(c)
  PROVE  TypeInv'
<1>t. DiskOK /\ MemoryOK /\ ProcsOK /\ CallsOK /\ RunsOK
  BY DEF TypeInv
<1>1. IsFiniteSet({})
  BY FS_EmptySet, IdleType
<1>2. /\ CallsOK' /\ calls'.of[c] = Idle /\ calls'.made = calls.made
      /\ \A d \in Callers \ {c} : calls'.of[d] = calls.of[d]
  BY <1>t, <1>1, IdleType, Stepped DEF Start
<1>3. c \in Starters /\ Starters' = Starters \ {c}
  BY <1>2, IdleType DEF Start, At, Starters
<1>4. /\ IsFiniteSet(Starters') /\ Cardinality(Starters') = Cardinality(Starters) - 1
      /\ Cardinality(Starters) \in Nat /\ Cardinality(Starters') \in Nat
  BY <1>t, <1>3, FS_RemoveElement, FS_CardinalityType DEF RunsOK
<1>5. \A d \in Callers : At(d, "cancel")' => At(d, "cancel") /\ calls'.of[d] = calls.of[d]
  BY <1>2, IdleType DEF At
<1>6. /\ UNCHANGED <<seen, seq, table, cancelled, work, results>>
  BY DEF Start
<1>m. run \in Nat /\ calls.made \in Nat /\ MaxCalls \in Nat
  BY <1>t, RunBounded DEF RunsOK
<1>7. CASE running
  <2>1. UNCHANGED <<queue, leases, running, run, procs, overlapped>>
    BY <1>7 DEF Start
  <2>2. run + Cardinality(Starters') <= calls'.made
    BY <1>t, <1>2, <1>4, <1>m DEF RunsOK
  <2>3. RunsOK'
    BY <1>t, <1>2, <1>4, <1>5, <1>6, <2>1, <2>2 DEF RunsOK
  <2> QED BY <1>t, <1>2, <1>6, <2>1, <2>3 DEF TypeInv, DiskOK, MemoryOK, ProcsOK
<1>8. CASE ~running
  <2>1. /\ SweepLeases /\ running' = TRUE /\ run' = run + 1
        /\ procs' = procs \union {[run |-> run + 1, role |-> x, has |-> {}] : x \in Roles}
        /\ overlapped' = (overlapped \/ Stopping # {})
    BY <1>8 DEF Start
  <2>2. DiskOK'
    BY <1>t, <1>1, <1>6, <2>1, SweepOK DEF DiskOK
  <2>3. run + 1 \in Runs
    BY <1>t, <1>3, RunBounded
  <2>4. ProcsOK'
    <3>1. \A x \in Roles : [run |-> run + 1, role |-> x, has |-> {}] \in ProcType
      BY <2>3 DEF ProcType
    <3>2. \A p \in procs : p.run \in Nat
      BY <1>t DEF ProcsOK, ProcType, Runs
    <3>3. ASSUME NEW p \in procs' PROVE p \in ProcType /\ IsFiniteSet(p.has) /\ p.run <= run'
      <4>1. CASE p \in procs
        BY <1>t, <1>m, <2>1, <3>2, <4>1 DEF ProcsOK
      <4>2. CASE p \notin procs
        <5>1. PICK x \in Roles : p = [run |-> run + 1, role |-> x, has |-> {}]
          BY <2>1, <4>2
        <5> QED BY <1>1, <1>m, <2>1, <3>1, <5>1
      <4> QED BY <4>1, <4>2
    <3> QED BY <3>3 DEF ProcsOK
  <2>5. run' + Cardinality(Starters') <= calls'.made
    BY <1>t, <1>2, <1>4, <1>m, <2>1 DEF RunsOK
  <2>6. cancelled' \subseteq 1 .. run' /\ run' \notin cancelled' /\ run' > 0 /\ run' \in Nat
    BY <1>t, <1>6, <1>m, <2>1 DEF RunsOK
  <2>7. \A d \in Callers : At(d, "cancel")' => calls'.of[d].run \in 1 .. run' /\ calls'.of[d].run # run'
    BY <1>t, <1>5, <1>m, <2>1 DEF RunsOK
  <2>8. running' \in BOOLEAN /\ overlapped' \in BOOLEAN
    BY <1>t, <2>1 DEF RunsOK
  <2>9. RunsOK'
    BY <1>t, <1>2, <1>4, <2>5, <2>6, <2>7, <2>8 DEF RunsOK
  <2> QED BY <1>t, <1>2, <1>6, <2>2, <2>4, <2>9 DEF TypeInv, MemoryOK
<1> QED BY <1>7, <1>8

LEMMA StopTypeInv ==
  ASSUME TypeInv, NEW c \in Callers, StopStep(c)
  PROVE  TypeInv'
<1>t. /\ DiskOK /\ MemoryOK /\ ProcsOK /\ CallsOK /\ RunsOK
      /\ calls.of[c] \in CallType /\ IsFiniteSet(calls.of[c].back)
  BY DEF TypeInv, CallsOK
<1>s. c \in Starters <=> calls.of[c].at = "start" \/ calls.of[c].again
  BY DEF Starters
<1>e. IsFiniteSet({})
  BY FS_EmptySet
<1>1. CASE StopFlag(c)
  <2>1. running' = FALSE /\ UNCHANGED <<disk, table, run, cancelled, procs, work, results, overlapped>>
        /\ calls.of[c].at = "stop"
    BY <1>1 DEF StopFlag, At
  <2>2. CASE running
    <3> DEFINE call == [calls.of[c] EXCEPT !.at = "cancel", !.run = run]
    <3>1. run \in 1 .. run /\ run \in 0 .. MaxCalls
      BY <1>t, <2>2, RunBounded DEF RunsOK
    <3>2. call \in CallType /\ call.back = calls.of[c].back /\ call.at = "cancel" /\ call.run = run
          /\ call.again = calls.of[c].again
      BY <1>t, <3>1 DEF CallType
    <3>3. Step(c, call)
      BY <1>1, <2>2 DEF StopFlag
    <3> HIDE DEF call
    <3>4. /\ CallsOK' /\ calls'.of[c] = call /\ calls'.made = calls.made
          /\ \A d \in Callers \ {c} : calls'.of[d] = calls.of[d]
      BY <1>t, <3>2, <3>3, Stepped
    <3>5. Starters' = Starters
      BY <1>s, <2>1, <3>2, <3>4 DEF Starters
    <3>6. \A d \in Callers : At(d, "cancel")' => calls'.of[d].run \in 1 .. run
      BY <1>t, <3>1, <3>2, <3>4 DEF At, RunsOK
    <3>7. RunsOK'
      BY <1>t, <2>1, <3>4, <3>5, <3>6 DEF RunsOK
    <3> QED BY <1>t, <2>1, <3>4, <3>7 DEF TypeInv, DiskOK, MemoryOK, ProcsOK, disk
  <2>3. CASE ~running
    <3>1. Step(c, AfterStop(c)) /\ running' = running
      BY <1>1, <1>t, <2>1, <2>3 DEF StopFlag, RunsOK
    <3>2. CallsOK' /\ RunsOK'
      BY <1>t, <1>e, <2>1, <3>1, AfterStopType, SteppedRuns
    <3> QED BY <1>t, <2>1, <3>2 DEF TypeInv, DiskOK, MemoryOK, ProcsOK, disk
  <2> QED BY <2>2, <2>3
<1>2. CASE StopCancel(c)
  <2> DEFINE call == [calls.of[c] EXCEPT !.at = "wait"]
  <2>1. /\ UNCHANGED <<disk, table, running, run, procs, work, results, overlapped>>
        /\ cancelled' = cancelled \union {calls.of[c].run} /\ calls.of[c].at = "cancel"
        /\ Step(c, call)
    BY <1>2 DEF StopCancel, At
  <2>2. call \in CallType /\ call.back = calls.of[c].back /\ call.at = "wait"
        /\ call.again = calls.of[c].again
    BY <1>t DEF CallType
  <2> HIDE DEF call
  <2>3. /\ CallsOK' /\ calls'.of[c] = call /\ calls'.made = calls.made
        /\ \A d \in Callers \ {c} : calls'.of[d] = calls.of[d]
    BY <1>t, <2>1, <2>2, Stepped
  <2>4. Starters' = Starters
    BY <1>s, <2>1, <2>2, <2>3 DEF Starters
  <2>5. \A d \in Callers : At(d, "cancel")' => At(d, "cancel") /\ calls'.of[d] = calls.of[d]
    BY <2>2, <2>3 DEF At
  <2>6. cancelled' \subseteq 1 .. run /\ (running => run \notin cancelled')
    BY <1>t, <2>1 DEF RunsOK, At
  <2>7. RunsOK'
    BY <1>t, <2>1, <2>3, <2>4, <2>5, <2>6 DEF RunsOK
  <2> QED BY <1>t, <2>1, <2>3, <2>7 DEF TypeInv, DiskOK, MemoryOK, ProcsOK, disk
<1>3. CASE StopWait(c)
  <2> DEFINE call == [calls.of[c] EXCEPT !.at = "clean"]
  <2>1. /\ UNCHANGED <<disk, table, running, run, cancelled, procs, work, results, overlapped>>
        /\ calls.of[c].at = "wait" /\ Step(c, call)
    BY <1>3 DEF StopWait, At
  <2>2. call \in CallType /\ call.back = calls.of[c].back /\ call.at = "clean"
        /\ call.again = calls.of[c].again
    BY <1>t DEF CallType
  <2> HIDE DEF call
  <2>3. CallsOK' /\ RunsOK'
    BY <1>s, <1>t, <2>1, <2>2, SteppedRuns
  <2> QED BY <1>t, <2>1, <2>3 DEF TypeInv, DiskOK, MemoryOK, ProcsOK, disk
<1>4. CASE StopClean(c)
  <2> DEFINE call == [calls.of[c] EXCEPT !.at = "requeue", !.back = table]
  <2>1. /\ UNCHANGED <<disk, running, run, cancelled, procs, work, results, overlapped>>
        /\ table' = {} /\ calls.of[c].at = "clean" /\ Step(c, call)
    BY <1>4 DEF StopClean, At
  <2>2. call \in CallType /\ call.back = table /\ call.at = "requeue"
        /\ call.again = calls.of[c].again /\ IsFiniteSet(table)
    BY <1>t DEF CallType, MemoryOK
  <2> HIDE DEF call
  <2>3. CallsOK' /\ RunsOK'
    BY <1>s, <1>t, <2>1, <2>2, SteppedRuns
  <2> QED BY <1>t, <1>e, <2>1, <2>3 DEF TypeInv, DiskOK, MemoryOK, ProcsOK, disk
<1>5. CASE StopRequeue(c)
  <2> DEFINE back == calls.of[c].back
  <2>1. /\ UNCHANGED <<leases, seq, table, running, run, cancelled, procs, work, results, overlapped>>
        /\ calls.of[c].at = "requeue" /\ Step(c, AfterStop(c))
        /\ Requeue(back) \/ UNCHANGED <<queue, seen>>
    BY <1>5 DEF StopRequeue, At
  <2>2. CallsOK' /\ RunsOK'
    BY <1>t, <1>e, <2>1, AfterStopType, SteppedRuns
  <2>3. \A u \in Urls : Cardinality({l \in back : l.url = u}) \in Nat
    <3> TAKE u \in Urls
    <3>1. {l \in back : l.url = u} \in SUBSET back
      OBVIOUS
    <3> QED BY <1>t, <3>1, FS_Subset, FS_CardinalityType
  <2> HIDE DEF back
  <2>4. queue' \in [Urls -> Nat] /\ seen' \in [Urls -> {"pending", "done", "dead"}]
    <3>1. CASE Requeue(back)
      BY <1>t, <2>3, <3>1 DEF DiskOK, Requeue
    <3>2. CASE UNCHANGED <<queue, seen>>
      BY <1>t, <3>2 DEF DiskOK
    <3> QED BY <2>1, <3>1, <3>2
  <2> QED BY <1>t, <2>1, <2>2, <2>4 DEF TypeInv, DiskOK, MemoryOK, ProcsOK
<1> QED BY <1>1, <1>2, <1>3, <1>4, <1>5 DEF StopStep

LEMMA NextTypeInv == TypeInv /\ [Next]_vars => TypeInv'
<1>1. TypeInv /\ UNCHANGED vars => TypeInv'
  <2> SUFFICES ASSUME TypeInv, UNCHANGED vars PROVE TypeInv'
    OBVIOUS
  <2>1. CallsOK' /\ RunsOK'
    BY ApiKept DEF vars
  <2> QED BY <2>1 DEF TypeInv, DiskOK, MemoryOK, ProcsOK, vars, disk
<1> QED BY <1>1, GoroutineTypeInv, CallTypeInv, StartTypeInv, StopTypeInv DEF Next

LEMMA TypeInvHolds == Spec => []TypeInv
  BY InitTypeInv, NextTypeInv, PTL DEF Spec

\* TypeOK: in particular no Start numbers a run beyond the calls that were made.
THEOREM TypeCorrect == Spec => []TypeOK
  BY TypeInvHolds, TypeInvImpliesTypeOK, PTL

-----------------------------------------------------------------------------
(* StoppedIsQuiet and the runs alive.                                      *)

Quiet ==
  ~running => \/ procs = {} /\ table = {}
              \/ \E c \in Callers : At(c, "cancel") \/ At(c, "wait")
              \/ procs = {} /\ \E c \in Callers : At(c, "clean")

\* As long as no Start has overlapped a Stop, a crawler that runs has the goroutines of
\* one run, and nobody stops it.
OneRun ==
  running /\ ~overlapped => Stopping = {} /\ \A p \in procs : p.run = run

LEMMA QuietImpliesStopped == Quiet => StoppedIsQuiet
  BY DEF Quiet, StoppedIsQuiet, Stopping, At

LEMMA BecameOf ==
  ASSUME ProcsOK, NEW p \in procs, NEW has, Become(p, has)
  PROVE  \E q : /\ q.run = p.run /\ q.role = p.role /\ q.has = has
                /\ procs' = (procs \ {p}) \union {q}
<1> DEFINE q == [p EXCEPT !.has = has]
<1>1. p \in ProcType
  BY DEF ProcsOK
<1>2. q.run = p.run /\ q.role = p.role /\ q.has = has
  BY <1>1 DEF ProcType
<1>3. procs' = (procs \ {p}) \union {q}
  BY DEF Become
<1> HIDE DEF q
<1> QED BY <1>2, <1>3

\* A goroutine takes its step, or is gone.
LEMMA OneMoves ==
  ASSUME ProcsOK, NEW p \in procs,
         SchedulerStep(p) \/ WorkerStep(p) \/ Leave(p) \/ CollectorStep(p)
  PROVE  /\ UNCHANGED <<running, run, calls, overlapped, cancelled>>
         /\ \/ procs' = procs \/ procs' = procs \ {p}
            \/ \E q : q.run = p.run /\ q.role = p.role /\ procs' = (procs \ {p}) \union {q}
<1>1. ASSUME NEW has, Become(p, has)
      PROVE  \E q : q.run = p.run /\ q.role = p.role /\ procs' = (procs \ {p}) \union {q}
  BY <1>1, BecameOf
<1>2. CASE SchedulerStep(p)
  BY <1>1, <1>2 DEF SchedulerStep, Refill, Pick, Dispatch
<1>3. CASE WorkerStep(p)
  BY <1>1, <1>3 DEF WorkerStep, Take, Fetched, Send
<1>4. CASE CollectorStep(p)
  BY <1>1, <1>4 DEF CollectorStep, Collect, Persist, Drained
<1>5. CASE Leave(p)
  BY <1>5 DEF Leave
<1> QED BY <1>2, <1>3, <1>4, <1>5

\* What the handler's step makes of its place.
LEMMA HandlerMoves ==
  ASSUME TypeInv, NEW c \in Callers, Call(c) \/ Start(c) \/ StopStep(c)
  PROVE  /\ \A d \in Callers \ {c} : calls'.of[d] = calls.of[d]
         /\ Call(c) => ~At(c, "cancel") /\ calls.of[c].at = "idle" /\ calls'.of[c].at \in {"start", "stop"}
         /\ Start(c) => calls.of[c].at = "start" /\ calls'.of[c].at = "idle"
         /\ StopFlag(c) => /\ calls.of[c].at = "stop"
                           /\ calls'.of[c].at \in (IF running THEN {"cancel"} ELSE {"start", "idle"})
         /\ StopCancel(c) => calls.of[c].at = "cancel" /\ calls'.of[c].at = "wait"
         /\ StopWait(c) => calls.of[c].at = "wait" /\ calls'.of[c].at = "clean"
         /\ StopClean(c) => calls.of[c].at = "clean" /\ calls'.of[c].at = "requeue"
         /\ StopRequeue(c) => calls.of[c].at = "requeue" /\ calls'.of[c].at \in {"start", "idle"}
<1>t. /\ CallsOK /\ calls \in [of : [Callers -> CallType], made : Nat]
      /\ calls.of[c] \in CallType
  BY DEF TypeInv, CallsOK
<1>i. Idle.at = "idle" /\ Idle \in CallType
  BY IdleType
<1>a. \A at : [Idle EXCEPT !.at = at].at = at
  BY DEF Idle
<1>b. [Idle EXCEPT !.at = "stop", !.again = TRUE].at = "stop"
  BY DEF Idle
<1>1. ASSUME NEW call, Step(c, call)
      PROVE  calls'.of[c] = call /\ \A d \in Callers \ {c} : calls'.of[d] = calls.of[d]
  <2>1. calls'.of = [calls.of EXCEPT ![c] = call]
    BY <1>1, <1>t DEF Step
  <2> QED BY <1>t, <2>1
<1>2. calls.of[c].at # "start" => AfterStop(c).at \in {"start", "idle"}
  BY <1>t, AfterStopType
<1>3. CASE Call(c)
  <2>1. PICK call \in {[Idle EXCEPT !.at = "start"], [Idle EXCEPT !.at = "stop"],
                       [Idle EXCEPT !.at = "stop", !.again = TRUE]} :
          calls' = [of |-> [calls.of EXCEPT ![c] = call], made |-> calls.made + 1]
    BY <1>3 DEF Call
  <2>2. call.at \in {"start", "stop"}
    BY <1>a, <1>b
  <2>3. calls'.of = [calls.of EXCEPT ![c] = call]
    BY <2>1
  <2>4. calls'.of[c] = call /\ \A d \in Callers \ {c} : calls'.of[d] = calls.of[d]
    BY <1>t, <2>3
  <2>5. calls.of[c].at = "idle"
    BY <1>3 DEF Call, At
  <2> QED BY <2>2, <2>4, <2>5 DEF Start, StopFlag, StopCancel, StopWait, StopClean, StopRequeue, At
<1>4. CASE Start(c)
  <2>1. calls.of[c].at = "start" /\ calls'.of[c] = Idle
        /\ \A d \in Callers \ {c} : calls'.of[d] = calls.of[d]
    BY <1>4, <1>1 DEF Start, At
  <2> QED BY <1>i, <2>1 DEF Call, StopFlag, StopCancel, StopWait, StopClean, StopRequeue, At
<1>5. CASE StopFlag(c)
  <2>1. calls.of[c].at = "stop"
    BY <1>5 DEF StopFlag, At
  <2>2. calls'.of[c] = (IF running THEN [calls.of[c] EXCEPT !.at = "cancel", !.run = run] ELSE AfterStop(c))
        /\ \A d \in Callers \ {c} : calls'.of[d] = calls.of[d]
    BY <1>5, <1>1 DEF StopFlag
  <2>3. [calls.of[c] EXCEPT !.at = "cancel", !.run = run].at = "cancel"
    BY <1>t DEF CallType
  <2> QED BY <1>2, <2>1, <2>2, <2>3 DEF Call, Start, StopCancel, StopWait, StopClean, StopRequeue, At
<1>6. CASE StopCancel(c)
  <2>1. calls.of[c].at = "cancel" /\ calls'.of[c] = [calls.of[c] EXCEPT !.at = "wait"]
        /\ \A d \in Callers \ {c} : calls'.of[d] = calls.of[d]
    BY <1>6, <1>1 DEF StopCancel, At
  <2>2. calls'.of[c].at = "wait"
    BY <1>t, <2>1 DEF CallType
  <2> QED BY <2>1, <2>2 DEF Call, Start, StopFlag, StopWait, StopClean, StopRequeue, At
<1>7. CASE StopWait(c)
  <2>1. calls.of[c].at = "wait" /\ calls'.of[c] = [calls.of[c] EXCEPT !.at = "clean"]
        /\ \A d \in Callers \ {c} : calls'.of[d] = calls.of[d]
    BY <1>7, <1>1 DEF StopWait, At
  <2>2. calls'.of[c].at = "clean"
    BY <1>t, <2>1 DEF CallType
  <2> QED BY <2>1, <2>2 DEF Call, Start, StopFlag, StopCancel, StopClean, StopRequeue, At
<1>8. CASE StopClean(c)
  <2>1. calls.of[c].at = "clean" /\ calls'.of[c] = [calls.of[c] EXCEPT !.at = "requeue", !.back = table]
        /\ \A d \in Callers \ {c} : calls'.of[d] = calls.of[d]
    BY <1>8, <1>1 DEF StopClean, At
  <2>2. calls'.of[c].at = "requeue"
    BY <1>t, <2>1 DEF CallType
  <2> QED BY <2>1, <2>2 DEF Call, Start, StopFlag, StopCancel, StopWait, StopRequeue, At
<1>9. CASE StopRequeue(c)
  <2>1. calls.of[c].at = "requeue" /\ calls'.of[c] = AfterStop(c)
        /\ \A d \in Callers \ {c} : calls'.of[d] = calls.of[d]
    BY <1>9, <1>1 DEF StopRequeue, At
  <2> QED BY <1>2, <2>1 DEF Call, Start, StopFlag, StopCancel, StopWait, StopClean, At
<1> QED BY <1>3, <1>4, <1>5, <1>6, <1>7, <1>8, <1>9 DEF StopStep

LEMMA InitQuiet == Init => Quiet /\ OneRun
  BY DEF Init, Quiet, OneRun

LEMMA NextQuiet == TypeInv /\ Quiet /\ [Next]_vars => Quiet'
<1> SUFFICES ASSUME TypeInv, Quiet, [Next]_vars PROVE Quiet'
  OBVIOUS
<1>t. ProcsOK
  BY DEF TypeInv
<1>1. ASSUME NEW c \in Callers, Call(c) PROVE Quiet'
  <2>1. /\ \A d \in Callers \ {c} : calls'.of[d] = calls.of[d]
        /\ calls.of[c].at = "idle" /\ UNCHANGED <<running, procs, table>>
    BY <1>1, HandlerMoves DEF Call
  <2> QED BY <2>1 DEF Quiet, At
<1>2. ASSUME NEW c \in Callers, Start(c) PROVE Quiet'
  <2>1. running' = TRUE
    BY <1>2 DEF Start
  <2> QED BY <2>1 DEF Quiet
<1>3. ASSUME NEW c \in Callers, StopStep(c) PROVE Quiet'
  <2>h. \A d \in Callers \ {c} : calls'.of[d] = calls.of[d]
    BY <1>3, HandlerMoves
  <2>1. CASE StopFlag(c)
    <3>1. /\ UNCHANGED <<procs, table>>
          /\ calls.of[c].at = "stop" /\ (running => calls'.of[c].at = "cancel")
      BY <1>3, <2>1, HandlerMoves DEF StopFlag
    <3> QED BY <2>h, <3>1 DEF Quiet, At
  <2>2. CASE StopCancel(c)
    <3>1. calls'.of[c].at = "wait"
      BY <1>3, <2>2, HandlerMoves
    <3> QED BY <3>1 DEF Quiet, At
  <2>3. CASE StopWait(c)
    <3>1. calls'.of[c].at = "clean" /\ procs' = {}
      BY <1>3, <2>3, HandlerMoves DEF StopWait
    <3> QED BY <3>1 DEF Quiet, At
  <2>4. CASE StopClean(c)
    <3>1. calls.of[c].at = "clean" /\ table' = {} /\ UNCHANGED <<running, procs>>
      BY <1>3, <2>4, HandlerMoves DEF StopClean
    <3> QED BY <2>h, <3>1 DEF Quiet, At
  <2>5. CASE StopRequeue(c)
    <3>1. calls.of[c].at = "requeue" /\ UNCHANGED <<running, procs, table>>
      BY <1>3, <2>5, HandlerMoves DEF StopRequeue
    <3> QED BY <2>h, <3>1 DEF Quiet, At
  <2> QED BY <1>3, <2>1, <2>2, <2>3, <2>4, <2>5 DEF StopStep
<1>4. ASSUME NEW p \in procs, SchedulerStep(p) \/ WorkerStep(p) \/ Leave(p) \/ CollectorStep(p)
      PROVE  Quiet'
  <2>1. UNCHANGED <<running, calls>>
    BY <1>4, <1>t, OneMoves
  <2> QED BY <2>1 DEF Quiet, At
<1>5. CASE UNCHANGED vars
  BY <1>5 DEF vars, Quiet, At
<1> QED BY <1>1, <1>2, <1>3, <1>4, <1>5 DEF Next

LEMMA NextOneRun == TypeInv /\ Quiet /\ OneRun /\ [Next]_vars => OneRun'
<1> SUFFICES ASSUME TypeInv, Quiet, OneRun, [Next]_vars, running', ~overlapped' PROVE OneRun'
  BY DEF OneRun
<1>t. ProcsOK /\ running \in BOOLEAN
  BY DEF TypeInv, RunsOK
<1>1. ASSUME NEW c \in Callers, Call(c) PROVE OneRun'
  <2>1. /\ \A d \in Callers \ {c} : calls'.of[d] = calls.of[d]
        /\ calls'.of[c].at \in {"start", "stop"} /\ UNCHANGED <<running, run, procs, overlapped>>
    BY <1>1, HandlerMoves DEF Call
  <2> QED BY <2>1 DEF OneRun, Stopping
<1>2. ASSUME NEW c \in Callers, Start(c) PROVE OneRun'
  <2>1. /\ \A d \in Callers \ {c} : calls'.of[d] = calls.of[d]
        /\ calls'.of[c].at = "idle"
    BY <1>2, HandlerMoves
  <2>2. CASE running
    <3>1. UNCHANGED <<running, run, procs, overlapped>>
      BY <1>2, <2>2 DEF Start
    <3> QED BY <2>1, <3>1 DEF OneRun, Stopping
  <2>3. CASE ~running
    <3>1. /\ run' = run + 1 /\ ~overlapped /\ Stopping = {}
          /\ procs' = procs \union {[run |-> run + 1, role |-> x, has |-> {}] : x \in Roles}
      BY <1>2, <2>3 DEF Start
    <3>2. procs = {}
      BY <2>3, <3>1 DEF Quiet, Stopping, At
    <3> QED BY <2>1, <3>1, <3>2 DEF OneRun, Stopping
  <2> QED BY <2>2, <2>3
<1>3. ASSUME NEW c \in Callers, StopStep(c) PROVE OneRun'
  <2>1. ~StopFlag(c)
    BY DEF StopFlag
  <2>2. UNCHANGED <<running, overlapped>>
    BY <1>3, <2>1 DEF StopStep, StopCancel, StopWait, StopClean, StopRequeue
  <2>3. c \in Stopping
    BY <1>3, <2>1 DEF StopStep, StopCancel, StopWait, StopClean, StopRequeue, At, Stopping
  <2> QED BY <2>2, <2>3 DEF OneRun
<1>4. ASSUME NEW p \in procs, SchedulerStep(p) \/ WorkerStep(p) \/ Leave(p) \/ CollectorStep(p)
      PROVE  OneRun'
  <2>1. /\ UNCHANGED <<running, run, calls, overlapped, cancelled>>
        /\ \/ procs' = procs \/ procs' = procs \ {p}
           \/ \E q : q.run = p.run /\ q.role = p.role /\ procs' = (procs \ {p}) \union {q}
    BY <1>4, <1>t, OneMoves
  <2> QED BY <2>1 DEF OneRun, Stopping
<1>5. CASE UNCHANGED vars
  BY <1>5 DEF vars, OneRun, Stopping
<1> QED BY <1>1, <1>2, <1>3, <1>4, <1>5 DEF Next

LEMMA QuietHolds == Spec => [](TypeInv /\ Quiet /\ OneRun)
<1>1. Init => TypeInv /\ Quiet /\ OneRun
  BY InitTypeInv, InitQuiet
<1>2. TypeInv /\ Quiet /\ OneRun /\ [Next]_vars => (TypeInv /\ Quiet /\ OneRun)'
  BY NextTypeInv, NextQuiet, NextOneRun
<1> QED BY <1>1, <1>2, PTL DEF Spec

\* StoppedIsQuiet: when every Stop is through and the crawler is not running, no goroutine
\* is left and no URL in the host table, for any number of handlers that overlap.
THEOREM StoppedStaysQuiet == Spec => []StoppedIsQuiet
  BY QuietHolds, QuietImpliesStopped, PTL

-----------------------------------------------------------------------------
(* NoStuckWork.                                                            *)

\* A result has an outcome.
Decided ==
  /\ \A r \in Runs : \A j \in results[r] : j.outcome # "none"
  /\ \A p \in procs : p.role = Collector => \A j \in p.has : j.outcome # "none"

\* A lease number stands for one URL: Complete releases the lease of the URL it records.
Known(l) == l.n \in Nat /\ l.n <= seq /\ \A k \in leases : k.n = l.n => k.url = l.url

Coherent ==
  /\ \A l \in leases : l.n <= seq
  /\ \A l \in table : Known(l)
  /\ \A r \in Runs : \A l \in work[r] \union results[r] : Known(l)
  /\ \A p \in procs : \A l \in p.has : Known(l)

\* A pending URL is queued or leased on disk, whatever became of the goroutines.
Accounted ==
  \A u \in Urls : seen[u] = "pending" => queue[u] > 0 \/ \E l \in leases : l.url = u

WorkInv == Decided /\ Coherent /\ Accounted /\ NoStuckWork

LEMMA InitWork == Init => WorkInv
<1> SUFFICES ASSUME Init PROVE WorkInv
  OBVIOUS
<1>1. Decided /\ Coherent
  BY DEF Init, Decided, Coherent
<1>2. Accounted /\ NoStuckWork
  BY DEF Init, Accounted, NoStuckWork
<1> QED BY <1>1, <1>2 DEF WorkInv

LEMMA SomeCounted ==
  ASSUME NEW S, IsFiniteSet(S), NEW T \in SUBSET S
  PROVE  Cardinality(T) \in Nat /\ (T # {} => Cardinality(T) > 0)
<1>1. IsFiniteSet(T)
  BY FS_Subset
<1> QED BY <1>1, FS_CardinalityType, FS_EmptySet

\* Complete leaves no URL of its batch pending and out of the queue, and forgets no other.
LEMMA CompleteAccounts ==
  ASSUME DiskOK, NEW batch \in SUBSET LeaseType, IsFiniteSet(batch), Complete(batch),
         \A j \in batch : j.outcome # "none"
  PROVE  /\ leases' \in SUBSET leases /\ seq' = seq
         /\ \A l \in leases \ leases' : \E j \in batch : j.n = l.n
         /\ \A u \in Urls : seen'[u] = "pending" =>
              /\ seen[u] = "pending"
              /\ queue[u] > 0 \/ (\E j \in batch : j.url = u) => queue'[u] > 0
<1>1. /\ leases' = {l \in leases : \A j \in batch : j.n # l.n} /\ seq' = seq
      /\ queue' = [u \in Urls |->
                     queue[u] + Cardinality({j \in batch : j.url = u /\ j.outcome = "retry"})]
  BY DEF Complete
<1>2. ASSUME NEW u \in Urls, seen'[u] = "pending"
      PROVE  /\ seen[u] = "pending"
             /\ queue[u] > 0 \/ (\E j \in batch : j.url = u) => queue'[u] > 0
  <2> DEFINE retries == {j \in batch : j.url = u /\ j.outcome = "retry"}
             of(outcome) == {j.url : j \in {k \in batch : k.outcome = outcome}}
  <2>1. queue'[u] = queue[u] + Cardinality(retries) /\ queue[u] \in Nat
    BY <1>1 DEF DiskOK
  <2>2. Cardinality(retries) \in Nat /\ (retries # {} => Cardinality(retries) > 0)
    <3>1. retries \in SUBSET batch
      OBVIOUS
    <3> HIDE DEF retries
    <3> QED BY <3>1, SomeCounted
  <2>3. seen'[u] = CASE u \in of("done") -> "done"
                     [] u \in of("dead") \union of("cancelled") -> "dead"
                     [] OTHER -> seen[u]
    BY DEF Complete
  <2>4. u \notin of("done") /\ u \notin of("dead") /\ u \notin of("cancelled") /\ seen[u] = "pending"
    <3> HIDE DEF of
    <3> QED BY <1>2, <2>3
  <2>5. \A j \in batch : j.url = u => j \in retries
    <3>1. \A j \in batch : j.outcome \in {"done", "dead", "cancelled", "retry"}
      BY DEF LeaseType, Outcomes
    <3> QED BY <2>4, <3>1
  <2> HIDE DEF retries
  <2> QED BY <2>1, <2>2, <2>4, <2>5
<1> QED BY <1>1, <1>2

\* Fewer leases, and no new number: what was known is known.
LEMMA StillKnown ==
  ASSUME leases' \in SUBSET leases, seq' = seq, NEW l, Known(l)
  PROVE  Known(l)'
  BY DEF Known

LEMMA VisibleNow ==
  ASSUME TypeInv, OneRun, running, ~overlapped, NEW p \in procs
  PROVE  /\ p.run = run /\ Visible(p.run) = {run} /\ run \in Runs /\ p.run \notin cancelled
<1>1. p.run = run /\ run \in Nat /\ run \notin cancelled /\ run > 0
  BY DEF OneRun, TypeInv, RunsOK
<1>2. run \in Runs
  BY <1>1, RunBounded DEF TypeInv, Runs
<1> QED BY <1>1, <1>2 DEF Visible

\* When the hands hold what they held, and the disk is as it was, nothing is stuck.
LEMMA HandsKeep ==
  ASSUME WorkInv, UNCHANGED <<seen, queue, running, overlapped>>,
         running /\ ~overlapped => \A u \in Urls : InHand(u) => InHand(u)'
  PROVE  NoStuckWork'
  BY DEF WorkInv, NoStuckWork

\* Records move in memory, the disk is as it was: all of WorkInv but NoStuckWork.
LEMMA MovesKeep ==
  ASSUME WorkInv, UNCHANGED <<seen, queue, leases, seq>>,
         \A l \in table' : Known(l),
         \A r \in Runs : \A l \in work'[r] : Known(l),
         \A r \in Runs : \A l \in results'[r] : Known(l) /\ l.outcome # "none",
         \A p \in procs' : \A l \in p.has : Known(l),
         \A p \in procs' : p.role = Collector => \A j \in p.has : j.outcome # "none"
  PROVE  Decided' /\ Coherent' /\ Accounted'
<1>1. \A l : Known(l) => Known(l)'
  BY DEF Known
<1>2. Coherent'
  BY <1>1 DEF WorkInv, Coherent
<1> QED BY <1>2 DEF WorkInv, Decided, Accounted

LEMMA GoroutineWork ==
  ASSUME TypeInv, OneRun, WorkInv, NEW p \in procs,
         SchedulerStep(p) \/ WorkerStep(p) \/ Leave(p) \/ CollectorStep(p)
  PROVE  WorkInv'
<1>t. /\ ProcsOK /\ DiskOK /\ p.has \subseteq LeaseType /\ IsFiniteSet(p.has) /\ p \in ProcType
      /\ work \in [Runs -> SUBSET LeaseType] /\ results \in [Runs -> SUBSET LeaseType]
      /\ run \in Nat
  BY DEF TypeInv, ProcsOK, ProcType, MemoryOK, RunsOK
<1>r. Collector \notin 1 .. Workers /\ Collector # Scheduler
  BY SizesAssumption DEF Collector, Scheduler
<1>k. /\ \A l \in leases : l.n <= seq
      /\ \A l \in table : Known(l)
      /\ \A r \in Runs : \A l \in work[r] : Known(l)
      /\ \A r \in Runs : \A l \in results[r] : Known(l) /\ l.outcome # "none"
      /\ \A q \in procs : \A l \in q.has : Known(l)
      /\ \A q \in procs : q.role = Collector => \A j \in q.has : j.outcome # "none"
  BY DEF WorkInv, Coherent, Decided
<1>v. running /\ ~overlapped =>
        p.run = run /\ Visible(p.run) = {run} /\ run \in Runs /\ p.run \notin cancelled
  BY VisibleNow
<1>q. ASSUME NEW has, Become(p, has)
      PROVE  \E q : /\ q.run = p.run /\ q.role = p.role /\ q.has = has
                    /\ procs' = (procs \ {p}) \union {q}
  BY <1>q, <1>t, BecameOf
<1>1. ASSUME NEW u \in Urls, Refill(p, u) PROVE WorkInv'
  <2>1. seq' = seq + 1 /\ seq \in Nat
    BY <1>1, <1>t DEF Refill, DiskOK
  <2>2. PICK l :
          /\ l.n = seq' /\ l.url = u
          /\ leases' = leases \union {l} /\ table' = table \union {l}
          /\ queue' = [queue EXCEPT ![u] = @ - 1]
          /\ UNCHANGED <<seen, running, run, cancelled, procs, work, results, calls, overlapped>>
    BY <1>1 DEF Refill, Lease
  <2>3. \A k : Known(k) => Known(k)'
    <3> SUFFICES ASSUME NEW k, Known(k) PROVE Known(k)'
      OBVIOUS
    <3>1. k.n \in Nat /\ k.n <= seq /\ \A m \in leases : m.n = k.n => m.url = k.url
      BY DEF Known
    <3>2. k.n # l.n /\ k.n <= seq'
      BY <2>1, <2>2, <3>1
    <3> QED BY <2>1, <2>2, <3>1, <3>2 DEF Known
  <2>4. Known(l)'
    <3>1. \A k \in leases : k.n \in Nat /\ k.n <= seq
      BY <1>k, <1>t DEF DiskOK, LeaseType
    <3> QED BY <2>1, <2>2, <3>1 DEF Known
  <2>5. Coherent'
    <3>1. \A k \in leases' : k.n <= seq'
      BY <1>k, <1>t, <2>1, <2>2 DEF DiskOK, LeaseType
    <3> QED BY <1>k, <2>2, <2>3, <2>4, <3>1 DEF Coherent
  <2>6. Decided'
    BY <2>2 DEF WorkInv, Decided
  <2>7. \A v \in Urls : v # u => queue'[v] = queue[v]
    BY <1>t, <2>2 DEF DiskOK
  <2>8. Accounted'
    BY <2>1, <2>2, <2>7 DEF WorkInv, Accounted
  <2>9. \A v \in Urls : (InHand(v) => InHand(v)') /\ InHand(u)'
    BY <2>1, <2>2 DEF InHand
  <2>10. NoStuckWork'
    BY <2>2, <2>7, <2>9 DEF WorkInv, NoStuckWork
  <2> QED BY <2>5, <2>6, <2>8, <2>10 DEF WorkInv
<1>2. ASSUME NEW some \in SUBSET table, Pick(p, some) PROVE WorkInv'
  <2>1. /\ UNCHANGED <<seen, queue, leases, seq, running, run, work, results, overlapped>>
        /\ table' = table \ some /\ p.role = Scheduler /\ p.has = {}
    BY <1>2 DEF Pick, disk
  <2>2. PICK q : /\ q.run = p.run /\ q.role = p.role /\ q.has = some
                 /\ procs' = (procs \ {p}) \union {q}
    BY <1>2, <1>q DEF Pick
  <2>3. Decided' /\ Coherent' /\ Accounted'
    BY <1>k, <1>r, <2>1, <2>2, MovesKeep
  <2>4. \A u : InHand(u) => InHand(u)'
    BY <2>1, <2>2 DEF InHand
  <2>5. NoStuckWork'
    BY <2>1, <2>4, HandsKeep
  <2> QED BY <2>3, <2>5 DEF WorkInv
<1>3. ASSUME NEW l \in p.has, NEW r \in Runs, Dispatch(p, l, r) PROVE WorkInv'
  <2>1. /\ UNCHANGED <<seen, queue, leases, seq, table, running, run, results, overlapped>>
        /\ p.role = Scheduler /\ r \in Visible(p.run)
        /\ work' = [work EXCEPT ![r] = @ \union {l}]
    BY <1>3 DEF Dispatch, disk
  <2>2. PICK q : /\ q.run = p.run /\ q.role = p.role /\ q.has = p.has \ {l}
                 /\ procs' = (procs \ {p}) \union {q}
    BY <1>3, <1>q DEF Dispatch
  <2>3. work'[r] = work[r] \union {l} /\ \A s \in Runs \ {r} : work'[s] = work[s]
    BY <1>t, <2>1
  <2>4. Decided' /\ Coherent' /\ Accounted'
    BY <1>k, <1>r, <2>1, <2>2, <2>3, MovesKeep
  <2>5. ASSUME running, ~overlapped, NEW u, InHand(u) PROVE InHand(u)'
    <3>1. r = run
      BY <1>v, <2>1, <2>5
    <3> QED BY <2>1, <2>2, <2>3, <2>5, <3>1 DEF InHand
  <2>6. NoStuckWork'
    BY <2>1, <2>5, HandsKeep
  <2> QED BY <2>4, <2>6 DEF WorkInv
<1>4. ASSUME NEW r \in Runs, NEW j \in work[r], Take(p, j, r) PROVE WorkInv'
  <2>1. /\ UNCHANGED <<seen, queue, leases, seq, table, running, run, results, overlapped>>
        /\ p.role \in 1 .. Workers /\ p.has = {}
        /\ work' = [work EXCEPT ![r] = @ \ {j}]
    BY <1>4 DEF Take, disk
  <2> DEFINE k == Begun(p, j)
  <2>2. PICK q : /\ q.run = p.run /\ q.role = p.role /\ q.has = {k}
                 /\ procs' = (procs \ {p}) \union {q}
    BY <1>4, <1>q DEF Take
  <2>3. work'[r] = work[r] \ {j} /\ \A s \in Runs \ {r} : work'[s] = work[s]
    BY <1>t, <2>1
  <2>7. k.url = j.url /\ k.n = j.n
    BY <1>t DEF Begun, LeaseType
  <2> HIDE DEF k
  <2>8. Known(k)
    BY <1>k, <2>7 DEF Known
  <2>4. Decided' /\ Coherent' /\ Accounted'
    BY <1>k, <1>r, <2>1, <2>2, <2>3, <2>8, MovesKeep
  <2>5. ASSUME running, ~overlapped, NEW u, InHand(u) PROVE InHand(u)'
    <3>1. run \in Runs
      BY <1>v, <2>5
    <3> QED BY <2>1, <2>2, <2>3, <2>5, <2>7, <3>1 DEF InHand
  <2>6. NoStuckWork'
    BY <2>1, <2>5, HandsKeep
  <2> QED BY <2>4, <2>6 DEF WorkInv
<1>5. ASSUME NEW j \in p.has, NEW outcome \in Outcomes \ {"none"}, Fetched(p, j, outcome) PROVE WorkInv'
  <2> DEFINE k == [j EXCEPT !.outcome = outcome]
  <2>1. /\ UNCHANGED <<seen, queue, leases, seq, table, running, run, work, results, overlapped>>
        /\ p.role \in 1 .. Workers /\ p.has = {j}
    BY <1>5 DEF Fetched, disk
  <2>2. PICK q : /\ q.run = p.run /\ q.role = p.role /\ q.has = {k}
                 /\ procs' = (procs \ {p}) \union {q}
    BY <1>5, <1>q DEF Fetched
  <2>3. k.url = j.url /\ k.n = j.n
    BY <1>t DEF LeaseType
  <2> HIDE DEF k
  <2>4. Known(k)
    BY <1>k, <2>3 DEF Known
  <2>5. Decided' /\ Coherent' /\ Accounted'
    BY <1>k, <1>r, <2>1, <2>2, <2>4, MovesKeep
  <2>6. \A u : InHand(u) => InHand(u)'
    BY <2>1, <2>2, <2>3 DEF InHand
  <2>7. NoStuckWork'
    BY <2>1, <2>6, HandsKeep
  <2> QED BY <2>5, <2>7 DEF WorkInv
<1>6. ASSUME NEW j \in p.has, NEW r \in Runs, Send(p, j, r) PROVE WorkInv'
  <2>1. /\ UNCHANGED <<seen, queue, leases, seq, table, running, run, work, overlapped>>
        /\ p.role \in 1 .. Workers /\ p.has = {j} /\ r \in Visible(p.run) /\ j.outcome # "none"
        /\ results' = [results EXCEPT ![r] = @ \union {j}]
    BY <1>6 DEF Send, disk
  <2>2. PICK q : /\ q.run = p.run /\ q.role = p.role /\ q.has = {}
                 /\ procs' = (procs \ {p}) \union {q}
    BY <1>6, <1>q DEF Send
  <2>3. results'[r] = results[r] \union {j} /\ \A s \in Runs \ {r} : results'[s] = results[s]
    BY <1>t, <2>1
  <2>4. Decided' /\ Coherent' /\ Accounted'
    BY <1>k, <1>r, <2>1, <2>2, <2>3, MovesKeep
  <2>5. ASSUME running, ~overlapped, NEW u, InHand(u) PROVE InHand(u)'
    <3>1. r = run
      BY <1>v, <2>1, <2>5
    <3> QED BY <2>1, <2>2, <2>3, <2>5, <3>1 DEF InHand
  <2>6. NoStuckWork'
    BY <2>1, <2>5, HandsKeep
  <2> QED BY <2>4, <2>6 DEF WorkInv
<1>7. CASE Leave(p)
  <2>1. /\ UNCHANGED <<seen, queue, leases, seq, table, running, run, work, results, overlapped>>
        /\ procs' = procs \ {p} /\ p.run \in cancelled
    BY <1>7 DEF Leave, disk
  <2>2. Decided' /\ Coherent' /\ Accounted'
    BY <1>k, <2>1, MovesKeep
  <2>3. NoStuckWork'
    BY <1>v, <2>1, HandsKeep
  <2> QED BY <2>2, <2>3 DEF WorkInv
<1>8. ASSUME NEW r \in Runs, NEW j \in results[r], Collect(p, j, r) PROVE WorkInv'
  <2>1. /\ UNCHANGED <<seen, queue, leases, seq, table, running, run, work, overlapped>>
        /\ p.role = Collector
        /\ results' = [results EXCEPT ![r] = @ \ {j}]
    BY <1>8 DEF Collect, disk
  <2>2. PICK q : /\ q.run = p.run /\ q.role = p.role /\ q.has = p.has \union {j}
                 /\ procs' = (procs \ {p}) \union {q}
    BY <1>8, <1>q DEF Collect
  <2>3. results'[r] = results[r] \ {j} /\ \A s \in Runs \ {r} : results'[s] = results[s]
    BY <1>t, <2>1
  <2>4. Decided' /\ Coherent' /\ Accounted'
    BY <1>k, <2>1, <2>2, <2>3, MovesKeep
  <2>5. ASSUME running, ~overlapped, NEW u, InHand(u) PROVE InHand(u)'
    <3>1. run \in Runs
      BY <1>v, <2>5
    <3> QED BY <2>1, <2>2, <2>3, <2>5, <3>1 DEF InHand
  <2>6. NoStuckWork'
    BY <2>1, <2>5, HandsKeep
  <2> QED BY <2>4, <2>6 DEF WorkInv
<1>9. ASSUME Complete(p.has), p.role = Collector, UNCHANGED <<table, running, run, work, results, overlapped>>,
             \/ procs' = procs \ {p}
             \/ \E q : q.role = p.role /\ q.has = {} /\ procs' = (procs \ {p}) \union {q}
      PROVE  Decided' /\ Coherent' /\ Accounted'
  <2>1. /\ leases' \in SUBSET leases /\ seq' = seq
        /\ \A l \in leases \ leases' : \E j \in p.has : j.n = l.n
        /\ \A u \in Urls : seen'[u] = "pending" =>
             /\ seen[u] = "pending"
             /\ queue[u] > 0 \/ (\E j \in p.has : j.url = u) => queue'[u] > 0
    BY <1>9, <1>t, <1>k, CompleteAccounts
  <2>2. \A l : Known(l) => Known(l)'
    BY <2>1, StillKnown
  <2>3. Coherent'
    BY <1>9, <1>k, <2>1, <2>2 DEF Coherent
  <2>4. Decided'
    BY <1>9, <1>k DEF Decided
  <2>5. Accounted'
    BY <1>k, <2>1 DEF WorkInv, Accounted, Known
  <2> QED BY <2>3, <2>4, <2>5
<1>10. CASE Persist(p)
  <2>1. /\ Complete(p.has) /\ p.role = Collector
        /\ UNCHANGED <<table, running, run, work, results, overlapped>>
    BY <1>10 DEF Persist
  <2>2. PICK q : /\ q.run = p.run /\ q.role = p.role /\ q.has = {}
                 /\ procs' = (procs \ {p}) \union {q}
    BY <1>10, <1>q DEF Persist
  <2>3. Decided' /\ Coherent' /\ Accounted'
    BY <1>9, <2>1, <2>2
  <2>4. \A u \in Urls : seen'[u] = "pending" =>
          /\ seen[u] = "pending"
          /\ queue[u] > 0 \/ (\E j \in p.has : j.url = u) => queue'[u] > 0
    BY <1>t, <1>k, <2>1, CompleteAccounts
  <2>5. ASSUME NEW u, InHand(u) PROVE InHand(u)' \/ \E j \in p.has : j.url = u
    BY <2>1, <2>2, <2>5 DEF InHand
  <2>6. NoStuckWork'
    BY <2>1, <2>4, <2>5 DEF WorkInv, NoStuckWork
  <2> QED BY <2>3, <2>6 DEF WorkInv
<1>11. ASSUME NEW r \in Runs, Drained(p, r) PROVE WorkInv'
  <2>1. /\ Complete(p.has) /\ p.role = Collector /\ p.run \in cancelled
        /\ UNCHANGED <<table, running, run, work, results, overlapped>>
        /\ procs' = procs \ {p}
    BY <1>11 DEF Drained
  <2>2. Decided' /\ Coherent' /\ Accounted'
    BY <1>9, <2>1
  <2>3. NoStuckWork'
    BY <1>v, <2>1 DEF NoStuckWork
  <2> QED BY <2>2, <2>3 DEF WorkInv
<1> QED
  BY <1>1, <1>2, <1>3, <1>4, <1>5, <1>6, <1>7, <1>8, <1>10, <1>11
  DEF SchedulerStep, WorkerStep, CollectorStep

LEMMA HandlerWork ==
  ASSUME TypeInv, Quiet, OneRun, WorkInv, NEW c \in Callers, Call(c) \/ Start(c) \/ StopStep(c)
  PROVE  WorkInv'
<1>t. /\ DiskOK /\ running \in BOOLEAN /\ IsFiniteSet(leases)
      /\ calls.of[c] \in CallType /\ IsFiniteSet(calls.of[c].back)
  BY DEF TypeInv, DiskOK, RunsOK, CallsOK
<1>k. /\ \A l \in leases : l.n <= seq
      /\ \A l \in table : Known(l)
      /\ \A r \in Runs : \A l \in work[r] : Known(l)
      /\ \A r \in Runs : \A l \in results[r] : Known(l) /\ l.outcome # "none"
      /\ \A q \in procs : \A l \in q.has : Known(l)
      /\ \A q \in procs : q.role = Collector => \A j \in q.has : j.outcome # "none"
  BY DEF WorkInv, Coherent, Decided
<1>1. CASE Call(c)
  <2>1. UNCHANGED <<seen, queue, leases, seq, table, running, run, procs, work, results, overlapped>>
    BY <1>1 DEF Call, disk
  <2>2. Decided' /\ Coherent' /\ Accounted'
    BY <1>k, <2>1, MovesKeep
  <2>3. NoStuckWork'
    BY <2>1, HandsKeep DEF InHand
  <2> QED BY <2>2, <2>3 DEF WorkInv
<1>2. CASE Start(c)
  <2>1. UNCHANGED <<seen, seq, table, cancelled, work, results>>
    BY <1>2 DEF Start
  <2>2. CASE running
    <3>1. UNCHANGED <<queue, leases, running, run, procs, overlapped>>
      BY <1>2, <2>2 DEF Start
    <3>2. Decided' /\ Coherent' /\ Accounted'
      BY <1>k, <2>1, <3>1, MovesKeep
    <3>3. NoStuckWork'
      BY <2>1, <3>1, HandsKeep DEF InHand
    <3> QED BY <3>2, <3>3 DEF WorkInv
  <2>3. CASE ~running
    <3>1. /\ SweepLeases
          /\ procs' = procs \union {[run |-> run + 1, role |-> x, has |-> {}] : x \in Roles}
      BY <1>2, <2>3 DEF Start
    <3>2. leases' = {} /\ \A u \in Urls : seen'[u] = "pending" => queue'[u] > 0
      <4>1. leases' = {}
        BY <3>1 DEF SweepLeases
      <4>2. ASSUME NEW u \in Urls, seen[u] = "pending" PROVE queue'[u] > 0
        <5> DEFINE of == {l \in leases : l.url = u}
        <5>1. queue'[u] = queue[u] + Cardinality(of) /\ queue[u] \in Nat
          BY <1>t, <3>1 DEF SweepLeases, DiskOK
        <5>2. of \in SUBSET leases
          OBVIOUS
        <5>3. queue[u] > 0 \/ of # {}
          BY <4>2 DEF WorkInv, Accounted
        <5> HIDE DEF of
        <5>4. Cardinality(of) \in Nat /\ (of # {} => Cardinality(of) > 0)
          BY <1>t, <5>2, SomeCounted
        <5> QED BY <5>1, <5>3, <5>4
      <4> QED BY <2>1, <4>1, <4>2
    <3>3. \A p \in procs' : p.has = {} \/ p \in procs
      BY <3>1
    <3>4. Coherent' /\ Decided'
      <4>1. \A l : Known(l) => Known(l)'
        BY <2>1, <3>2 DEF Known
      <4> QED BY <1>k, <2>1, <3>2, <3>3, <4>1 DEF Coherent, Decided
    <3> QED BY <3>2, <3>4 DEF WorkInv, Accounted, NoStuckWork
  <2> QED BY <2>2, <2>3
<1>3. CASE StopStep(c)
  <2>1. CASE StopFlag(c)
    <3>1. /\ UNCHANGED <<seen, queue, leases, seq, table, run, procs, work, results, overlapped>>
          /\ running' = FALSE
      BY <2>1 DEF StopFlag, disk
    <3>2. Decided' /\ Coherent' /\ Accounted'
      BY <1>k, <3>1, MovesKeep
    <3> QED BY <3>1, <3>2 DEF WorkInv, NoStuckWork
  <2>2. CASE ~StopFlag(c)
    <3>1. c \in Stopping /\ UNCHANGED <<running, overlapped>>
      BY <1>3, <2>2 DEF StopStep, StopCancel, StopWait, StopClean, StopRequeue, At, Stopping
    <3>2. NoStuckWork'
      BY <3>1 DEF OneRun, NoStuckWork
    <3>3. UNCHANGED <<leases, seq, procs, work, results>> /\ (table' = table \/ table' = {})
      BY <1>3, <2>2 DEF StopStep, StopCancel, StopWait, StopClean, StopRequeue, disk
    <3>4. CASE UNCHANGED <<seen, queue>>
      <4>1. Decided' /\ Coherent' /\ Accounted'
        BY <1>k, <3>3, <3>4, MovesKeep
      <4> QED BY <3>2, <4>1 DEF WorkInv
    <3>5. CASE StopRequeue(c) /\ ~UNCHANGED <<queue, seen>>
      <4>1. Coherent' /\ Decided'
        BY <1>k, <3>3 DEF Coherent, Decided, Known
      <4>2. ASSUME NEW u \in Urls, seen'[u] = "pending"
            PROVE  queue'[u] > 0 \/ (seen[u] = "pending" /\ queue'[u] = queue[u])
        <5> DEFINE back == calls.of[c].back
                   of == {l \in back : l.url = u}
        <5>0. Requeue(back)
          BY <3>5 DEF StopRequeue
        <5>1. queue'[u] = queue[u] + Cardinality(of) /\ queue[u] \in Nat
          BY <1>t, <5>0 DEF Requeue, DiskOK
        <5>2. (\A l \in back : l.url # u) => seen'[u] = seen[u]
          BY <5>0 DEF Requeue
        <5>6. of = {} => \A l \in back : l.url # u
          OBVIOUS
        <5>3. of \in SUBSET back
          OBVIOUS
        <5> HIDE DEF of
        <5>4. Cardinality(of) \in Nat /\ (of # {} => Cardinality(of) > 0)
          BY <1>t, <5>3, SomeCounted
        <5>5. Cardinality({}) = 0
          BY FS_EmptySet
        <5> QED BY <4>2, <5>1, <5>2, <5>4, <5>5, <5>6
      <4>3. Accounted'
        BY <3>3, <4>2 DEF WorkInv, Accounted
      <4> QED BY <3>2, <4>1, <4>3 DEF WorkInv
    <3> QED
      BY <1>3, <2>2, <3>4, <3>5 DEF StopStep, StopCancel, StopWait, StopClean, disk
  <2> QED BY <2>1, <2>2
<1> QED BY <1>1, <1>2, <1>3

LEMMA NextWork == TypeInv /\ Quiet /\ OneRun /\ WorkInv /\ [Next]_vars => WorkInv'
<1>1. ASSUME WorkInv, UNCHANGED vars PROVE WorkInv'
  <2>1. Decided' /\ Coherent' /\ Accounted'
    BY <1>1 DEF vars, disk, WorkInv, Decided, Coherent, Known, Accounted
  <2>2. NoStuckWork'
    BY <1>1, HandsKeep DEF vars, disk, InHand
  <2> QED BY <2>1, <2>2 DEF WorkInv
<1> QED BY <1>1, GoroutineWork, HandlerWork DEF Next

\* NoStuckWork: while the crawler runs, and no Start has come before the last Stop was
\* through, a pending URL is in the queue or in the hands of the current run.
THEOREM NothingIsStuck == Spec => []NoStuckWork
<1>1. WorkInv => NoStuckWork
  BY DEF WorkInv
<1> QED BY <1>1, QuietHolds, InitWork, NextWork, PTL DEF Spec

\* Whatever overlaps, and at any moment of a Stop, a pending URL is in the queue or under a
\* lease on disk: the next Start that finds the crawler stopped has it back.
THEOREM PendingIsAccounted == Spec => []Accounted
<1>1. WorkInv => Accounted
  BY DEF WorkInv
<1> QED BY <1>1, QuietHolds, InitWork, NextWork, PTL DEF Spec
=============================================================================
