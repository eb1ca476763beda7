----------------------------- MODULE Supervisor -----------------------------
(***************************************************************************)
(* The desktop app keeps the engine running: src-tauri/src/engine.rs (adopt*)
(* or launch, health checks, restarts, the user's stop and start) against  *)
(* the life of an engine process (cmd/wsengine/main.go): open the store,   *)
(* which takes its lock, listen, write runtime.json, serve, start the      *)
(* crawl, and undo it in the opposite order; any of it may fail.  The app  *)
(* is quit and opened again while engines go on; engines crash, hang or    *)
(* start slowly.                                                           *)
(*                                                                         *)
(* A session of the app is its port: a fresh one, or the adopted engine's. *)
(***************************************************************************)
EXTENDS Integers, FiniteSets

CONSTANTS
  Engines,           \* process slots
  NoOne, NoFile, Closed,
  MaxSessions,       \* bound: times the app is opened
  MaxPresses,        \* bound: stops and starts by the user
  MaxFaults          \* bound: crashes, hangs, signals, slow starts, steps that fail

ASSUME BoundsAssumption ==
  /\ MaxSessions \in Nat /\ MaxPresses \in Nat /\ MaxFaults \in Nat
ASSUME NoOneAssumption == NoOne \notin Engines

VARIABLES
  eng,               \* the engine processes
  lock,              \* which of them has the store open
  file,              \* runtime.json
  app,               \* the app's EngineHandle, and where its supervisor thread is
  posting,           \* stop_engine has set its flag and not sent the request yet
  missed,            \* history: was an engine on its way when the stop was sent?
  sessions, presses, faults  \* bounds

vars == <<eng, lock, file, app, posting, missed, sessions, presses, faults>>
engines == <<eng, lock, file>>
bounds == <<sessions, presses, faults>>

-----------------------------------------------------------------------------
Ports == 1 .. MaxSessions
EngineType ==
  [pc : {"gone", "opening", "starting", "listening", "answering", "serving", "stopping",
         "closing", "unlisted"},
   port : Ports \union {0}, hung : BOOLEAN, listed : BOOLEAN]
Gone == [pc |-> "gone", port |-> 0, hung |-> FALSE, listed |-> FALSE]
Opening(p) == [Gone EXCEPT !.pc = "opening", !.port = p]

\* On its way up, and not answering yet.
Rising(e) == eng[e].pc \in {"opening", "starting", "listening"}
Up(e) == eng[e].pc \in {"answering", "serving"}
FileType == [port : Ports, owner : Engines]
RuntimeInfo(e, p) == [port |-> p, owner |-> e]
AppType ==
  [port : Ports, endpoint : BOOLEAN, child : Engines \union {NoOne}, stop : BOOLEAN,
   spawned : BOOLEAN, pc : {"probe", "unhealthy", "reap", "spawn"}]

Init ==
  /\ eng = [e \in Engines |-> Gone]
  /\ lock = NoOne /\ file = NoFile
  /\ app = Closed /\ posting = FALSE /\ missed = FALSE
  /\ sessions = 0 /\ presses = 0 /\ faults = 0

\* health_check: something at the port answers and says it is an engine.
Serves(e, p) == eng[e].port = p /\ (Up(e) \/ eng[e].pc = "stopping") /\ ~eng[e].hung
Healthy(p) == \E e \in Engines : Serves(e, p)

-----------------------------------------------------------------------------
(* The engine process                                                      *)

\* kv.Open: a second engine on the same store ends at once.
OpenStore(e) ==
  /\ eng[e].pc = "opening"
  /\ IF lock = NoOne
     THEN /\ lock' = e
          /\ eng' = [eng EXCEPT ![e].pc = "starting"]
     ELSE /\ eng' = [eng EXCEPT ![e] = Gone]
          /\ UNCHANGED lock
  /\ UNCHANGED <<file, app, posting, missed, bounds>>

\* A step of a process that fails: the error ends it, or is logged.
Fault == faults < MaxFaults /\ faults' = faults + 1

Listen(e) ==
  /\ eng[e].pc = "starting"
  /\ eng' = [eng EXCEPT ![e].pc = "listening"]
  /\ UNCHANGED <<lock, file, app, posting, missed, bounds>>

\* The port is taken: what is deferred so far is the closing of the stores.
ListenFails(e) ==
  /\ Fault
  /\ eng[e].pc = "starting"
  /\ eng' = [eng EXCEPT ![e].pc = "unlisted"]
  /\ UNCHANGED <<lock, file, app, posting, missed, sessions, presses>>

\* writeRuntimeInfo, and Serve.
WriteInfo(e) ==
  /\ eng[e].pc = "listening"
  /\ eng' = [eng EXCEPT ![e].pc = "answering", ![e].listed = TRUE]
  /\ file' = RuntimeInfo(e, eng[e].port)
  /\ UNCHANGED <<lock, app, posting, missed, bounds>>

\* The error is logged, and the engine serves with whatever file there is.
WriteInfoFails(e) ==
  /\ Fault
  /\ eng[e].pc = "listening"
  /\ eng' = [eng EXCEPT ![e].pc = "answering"]
  /\ UNCHANGED <<lock, file, app, posting, missed, sessions, presses>>

StartCrawl(e) ==
  /\ eng[e].pc = "answering" /\ ~eng[e].hung
  /\ eng' = [eng EXCEPT ![e].pc = "serving"]
  /\ UNCHANGED <<lock, file, app, posting, missed, bounds>>

StartFails(e) ==
  /\ Fault
  /\ eng[e].pc = "answering" /\ ~eng[e].hung
  /\ eng' = [eng EXCEPT ![e].pc = "closing"]
  /\ UNCHANGED <<lock, file, app, posting, missed, sessions, presses>>

\* Mutated form of StopServing: the store is closed before runtime.json is removed.
StopServingUnlocks(e) ==
  /\ eng[e].pc = "stopping" /\ ~eng[e].hung
  /\ eng' = [eng EXCEPT ![e].pc = "closing"]
  /\ lock' = NoOne
  /\ UNCHANGED <<file, app, posting, missed, bounds>>

\* The crawler has stopped; srv.Shutdown ends the API.
StopServing(e) ==
  /\ eng[e].pc = "stopping" /\ ~eng[e].hung
  /\ eng' = [eng EXCEPT ![e].pc = "closing"]
  /\ UNCHANGED <<lock, file, app, posting, missed, bounds>>

\* The deferred calls run last first: runtime.json goes, whoever wrote it, ...
RemoveFile(e) ==
  /\ eng[e].pc = "closing"
  /\ eng' = [eng EXCEPT ![e].pc = "unlisted"]
  /\ file' = NoFile
  /\ UNCHANGED <<lock, app, posting, missed, bounds>>

\* ... and the store is closed at the end.
CloseStore(e) ==
  /\ eng[e].pc = "unlisted"
  /\ eng' = [eng EXCEPT ![e] = Gone]
  /\ lock' = NoOne
  /\ UNCHANGED <<file, app, posting, missed, bounds>>

\* A process that ends without its deferred calls: the system releases the lock, the file
\* stays.
Ended(e) ==
  /\ eng' = [eng EXCEPT ![e] = Gone]
  /\ lock' = IF lock = e THEN NoOne ELSE lock

CrashEngine(e) ==
  /\ Fault
  /\ eng[e].pc # "gone"
  /\ Ended(e)
  /\ UNCHANGED <<file, app, posting, missed, sessions, presses>>

HangEngine(e) ==
  /\ Fault
  /\ (Up(e) \/ eng[e].pc = "stopping") /\ ~eng[e].hung
  /\ eng' = [eng EXCEPT ![e].hung = TRUE]
  /\ UNCHANGED <<lock, file, app, posting, missed, sessions, presses>>

\* SIGTERM, or an interrupt: the same way out as the shutdown action.
SignalEngine(e) ==
  /\ Fault
  /\ Up(e) /\ ~eng[e].hung
  /\ eng' = [eng EXCEPT ![e].pc = "stopping"]
  /\ UNCHANGED <<lock, file, app, posting, missed, sessions, presses>>

-----------------------------------------------------------------------------
(* The app                                                                 *)

\* The engine named in runtime.json, if it answers.
AdoptRunning == file # NoFile /\ Healthy(file.port)

\* EngineHandle::new: that engine's port, else a new one.
OpenApp ==
  /\ app = Closed /\ sessions < MaxSessions
  /\ sessions' = sessions + 1
  /\ app' = [port |-> IF AdoptRunning THEN file.port ELSE sessions + 1,
             endpoint |-> AdoptRunning, child |-> NoOne, stop |-> FALSE,
             spawned |-> FALSE, pc |-> "probe"]
  /\ missed' = FALSE
  /\ UNCHANGED <<engines, posting, presses, faults>>

\* shutdown: supervision ends with the app, the engine goes on.
QuitApp ==
  /\ app # Closed /\ sessions < MaxSessions
  /\ app' = Closed
  /\ posting' = FALSE
  /\ UNCHANGED <<engines, missed, bounds>>

\* supervise_step, which runs until the app is quit.
Probe ==
  /\ app # Closed /\ app.pc = "probe"
  /\ ~(app.endpoint /\ Healthy(app.port))
  /\ app' = [app EXCEPT !.pc = "unhealthy"]
  /\ UNCHANGED <<engines, posting, missed, bounds>>

\* An engine that was spawned and is on its way to serving.
ComingUp == app.child # NoOne /\ Rising(app.child)

\* Mutated form of Decide: the stop request is not looked at.
DecideRestart ==
  /\ app # Closed /\ app.pc = "unhealthy"
  /\ \/ /\ app.spawned /\ ComingUp
        /\ app' = [app EXCEPT !.pc = "probe"]
        /\ UNCHANGED faults
     \/ /\ app' = [app EXCEPT !.pc = "reap"]
        /\ IF app.spawned /\ ComingUp THEN Fault ELSE UNCHANGED faults
  /\ UNCHANGED <<engines, posting, missed, sessions, presses>>

\* The stop request is looked at before the grace of a fresh engine and any restart.  That
\* a start takes longer than the grace is a fault.
Decide ==
  /\ app # Closed /\ app.pc = "unhealthy"
  /\ \/ /\ app.stop
        /\ app' = [app EXCEPT !.pc = "probe"]
        /\ UNCHANGED faults
     \/ /\ ~app.stop /\ app.spawned /\ ComingUp
        /\ app' = [app EXCEPT !.pc = "probe"]
        /\ UNCHANGED faults
     \/ /\ ~app.stop
        /\ app' = [app EXCEPT !.pc = "reap"]
        /\ IF app.spawned /\ ComingUp THEN Fault ELSE UNCHANGED faults
  /\ UNCHANGED <<engines, posting, missed, sessions, presses>>

\* Mutated form of Reap: the child is waited for and not killed.
ReapWaits ==
  /\ app # Closed /\ app.pc = "reap"
  /\ app.child # NoOne => eng[app.child].pc = "gone"
  /\ app' = [app EXCEPT !.child = NoOne, !.pc = "spawn"]
  /\ UNCHANGED <<engines, posting, missed, bounds>>

\* The child, if there is one, is waited for, and killed if it is still there, whatever it
\* is doing.
Reap ==
  /\ app # Closed /\ app.pc = "reap"
  /\ IF app.child # NoOne THEN Ended(app.child) ELSE UNCHANGED <<eng, lock>>
  /\ app' = [app EXCEPT !.child = NoOne, !.pc = "spawn"]
  /\ UNCHANGED <<file, posting, missed, bounds>>

\* Mutated form of SpawnOnce: a new port is drawn for every engine.
SpawnOnceFreshPort ==
  /\ app # Closed /\ app.pc = "spawn"
  /\ \E e \in Engines :
       /\ eng[e] = Gone
       /\ eng' = [eng EXCEPT ![e] = Opening(sessions + 1)]
       /\ app' = [app EXCEPT !.child = e, !.endpoint = TRUE, !.spawned = TRUE, !.pc = "probe"]
  /\ UNCHANGED <<lock, file, posting, missed, bounds>>

SpawnOnce ==
  /\ app # Closed /\ app.pc = "spawn"
  /\ \E e \in Engines :
       /\ eng[e] = Gone
       /\ eng' = [eng EXCEPT ![e] = Opening(app.port)]
       /\ app' = [app EXCEPT !.child = e, !.endpoint = TRUE, !.spawned = TRUE, !.pc = "probe"]
  /\ UNCHANGED <<lock, file, posting, missed, bounds>>

SpawnFails ==
  /\ app # Closed /\ app.pc = "spawn"
  /\ Fault
  /\ app' = [app EXCEPT !.spawned = FALSE, !.pc = "probe"]
  /\ UNCHANGED <<engines, posting, missed, sessions, presses>>

\* stop_engine: the flag, and then one request, which may find nobody.
StopFlag ==
  /\ app # Closed /\ ~posting /\ presses < MaxPresses
  /\ presses' = presses + 1
  /\ app' = [app EXCEPT !.stop = TRUE]
  /\ posting' = TRUE
  /\ missed' = FALSE
  /\ UNCHANGED <<engines, sessions, faults>>

PostShutdown ==
  /\ posting
  /\ posting' = FALSE
  /\ eng' = [e \in Engines |->
               IF app.endpoint /\ Serves(e, app.port) THEN [eng[e] EXCEPT !.pc = "stopping"]
               ELSE eng[e]]
  /\ missed' = \/ app.pc \in {"reap", "spawn"}
               \/ \E e \in Engines : eng[e].port = app.port /\ Rising(e)
  /\ UNCHANGED <<lock, file, app, bounds>>

\* The commands run one after the other on the app's main thread.
StartEngine ==
  /\ app # Closed /\ ~posting /\ presses < MaxPresses
  /\ app.stop
  /\ presses' = presses + 1
  /\ app' = [app EXCEPT !.stop = FALSE]
  /\ missed' = FALSE
  /\ UNCHANGED <<engines, posting, sessions, faults>>

-----------------------------------------------------------------------------
EngineStep(e) ==
  \/ OpenStore(e) \/ Listen(e) \/ WriteInfo(e) \/ StartCrawl(e)
  \/ StopServing(e) \/ RemoveFile(e) \/ CloseStore(e)
EngineFails(e) ==
  \/ ListenFails(e) \/ WriteInfoFails(e) \/ StartFails(e)
  \/ CrashEngine(e) \/ HangEngine(e) \/ SignalEngine(e)
SuperviseStep == Probe \/ Decide \/ Reap \/ SpawnOnce \/ SpawnFails

Next ==
  \/ \E e \in Engines : EngineStep(e) \/ EngineFails(e)
  \/ OpenApp \/ QuitApp \/ SuperviseStep
  \/ StopFlag \/ PostShutdown \/ StartEngine

Spec == Init /\ [][Next]_vars

\* Processes and threads run; the supervisor looks again after every pause.
Fairness ==
  /\ \A e \in Engines : WF_vars(EngineStep(e))
  /\ WF_vars(SuperviseStep) /\ WF_vars(PostShutdown)

FairSpec == Spec /\ Fairness

-----------------------------------------------------------------------------
(* Properties                                                              *)

\* Every variable holds a value of its kind.
TypeOK ==
  /\ eng \in [Engines -> EngineType]
  /\ lock \in Engines \union {NoOne}
  /\ file \in FileType \union {NoFile}
  /\ app \in AppType \union {Closed}
  /\ posting \in BOOLEAN /\ missed \in BOOLEAN
  /\ sessions \in Nat /\ presses \in Nat /\ faults \in Nat

\* An engine that answers and could write its runtime.json can be found by the next session:
\* the file is its own, and no engine that ends late takes it away.  (One that could not
\* write it serves on all the same.)
ServingIsFindable ==
  \A e \in Engines : Up(e) /\ eng[e].listed => file = RuntimeInfo(e, eng[e].port)

\* "The supervisor will not restart it until start_engine is called": once the stop has been
\* sent, and no engine was on its way just then, the thread is not about to launch one, and
\* what there is at the app's port is on its way out or hangs.
StopHolds ==
  app # Closed /\ app.stop /\ ~posting /\ ~missed =>
    /\ app.pc \notin {"reap", "spawn"}
    /\ \A e \in Engines : eng[e].port = app.port => ~Rising(e) /\ (Up(e) => eng[e].hung)

\* An engine that runs, has the store, and is not the app's own child.
Stranger == lock # NoOne /\ (app = Closed \/ app.child # lock)

Wanted == app # Closed /\ ~app.stop
Connected == app # Closed /\ app.endpoint /\ Healthy(app.port)

\* Whatever crashes, hangs or is slow: an app that stays open and wants an engine comes to
\* have one that answers, unless an engine that is not its child keeps the store.
WantedIsServed == <>[]Wanted => []<>(Connected \/ Stranger)

\* WantedIsServed without the exception: the shell "adopts it or starts it, health-checks it and
\* restarts it with backoff if it dies".
AdoptsOrLaunches == <>[]Wanted => []<>Connected
=============================================================================
