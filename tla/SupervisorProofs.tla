-------------------------- MODULE SupervisorProofs --------------------------
(***************************************************************************)
(* Proofs about Supervisor.tla for any number of process slots, sessions,  *)
(* button presses and faults.                                              *)
(*                                                                         *)
(* ServingIsFindable rests on the lock of the store: every engine between  *)
(* kv.Open and the last deferred call holds it, so runtime.json is written *)
(* and removed by its holder only.  StopHolds rests on where the supervisor*)
(* thread is, for only beyond Decide may it still spawn, and on an engine  *)
(* having the app's port only if the app has an endpoint to ask.           *)
(***************************************************************************)
EXTENDS Supervisor, TLAPS

-----------------------------------------------------------------------------
(* Type correctness: an engine that is there has the port of a session, and *)
(* none has written runtime.json before its time.                           *)

HasPort == \A e \in Engines : /\ eng[e].pc # "gone" => eng[e].port \in Ports
                              /\ Rising(e) => ~eng[e].listed

TypeInv == TypeOK /\ HasPort

EngTyped == eng \in [Engines -> EngineType] /\ HasPort

\* A process that moves on keeps its port.
LEMMA PcMoves ==
  ASSUME TypeInv, NEW e \in Engines, eng[e].pc # "gone",
         NEW pc \in {"starting", "listening", "answering", "serving", "stopping", "closing",
                     "unlisted"},
         pc \in {"starting", "listening"} => Rising(e),
         eng' = [eng EXCEPT ![e].pc = pc]
  PROVE  EngTyped'
  BY DEF EngTyped, TypeInv, TypeOK, EngineType, HasPort, Rising

LEMMA EngGone ==
  ASSUME TypeInv, NEW e \in Engines, eng' = [eng EXCEPT ![e] = Gone]
  PROVE  EngTyped'
  BY DEF EngTyped, TypeInv, TypeOK, EngineType, HasPort, Gone, Rising

LEMMA EngUnchanged == TypeInv /\ UNCHANGED eng => EngTyped'
  BY DEF EngTyped, TypeInv, TypeOK, HasPort, Rising

LEMMA EndedType ==
  ASSUME TypeInv, NEW e \in Engines, Ended(e)
  PROVE  EngTyped' /\ lock' \in Engines \union {NoOne}
  BY EngGone DEF Ended, TypeInv, TypeOK

LEMMA InitTypeInv == Init => TypeInv
<1> SUFFICES ASSUME Init PROVE TypeInv
  OBVIOUS
<1>1. Gone \in EngineType
  BY DEF Gone, EngineType
<1>2. posting \in BOOLEAN /\ missed \in BOOLEAN
  BY Zenon DEF Init
<1>3. TypeOK
  BY <1>1, <1>2 DEF Init, TypeOK
<1>4. HasPort
  BY DEF Init, HasPort, Gone, Rising
<1> QED BY <1>3, <1>4 DEF TypeInv

LEMMA NextTypeInv == TypeInv /\ [Next]_vars => TypeInv'
<1> SUFFICES ASSUME TypeInv, [Next]_vars PROVE TypeInv'
  OBVIOUS
<1> USE BoundsAssumption
<1> DEFINE Rest == /\ file \in FileType \union {NoFile} /\ app \in AppType \union {Closed}
                   /\ posting \in BOOLEAN /\ missed \in BOOLEAN
                   /\ sessions \in Nat /\ presses \in Nat /\ faults \in Nat
<1>0. ASSUME EngTyped', lock' \in Engines \union {NoOne}, Rest' PROVE TypeInv'
  BY <1>0 DEF TypeInv, TypeOK, EngTyped
<1>r. Rest /\ lock \in Engines \union {NoOne}
  BY DEF TypeInv, TypeOK
<1>e. ASSUME UNCHANGED engines PROVE EngTyped' /\ lock' \in Engines \union {NoOne} /\ file' \in FileType \union {NoFile}
  BY <1>e, <1>r, EngUnchanged DEF engines
<1>a. app # Closed => app \in AppType
  BY <1>r
<1>1. ASSUME NEW e \in Engines, EngineStep(e) PROVE TypeInv'
  <2>1. CASE OpenStore(e)
    <3>1. EngTyped'
      BY <2>1, PcMoves, EngGone DEF OpenStore, Rising
    <3>2. lock' \in Engines \union {NoOne} /\ Rest'
      BY <2>1, <1>r DEF OpenStore, bounds
    <3> QED BY <3>1, <3>2, <1>0
  <2>2. CASE Listen(e) \/ StartCrawl(e)
    <3>1. EngTyped'
      BY <2>2, PcMoves DEF Listen, StartCrawl, Rising
    <3>2. lock' \in Engines \union {NoOne} /\ Rest'
      BY <2>2, <1>r DEF Listen, StartCrawl, bounds
    <3> QED BY <3>1, <3>2, <1>0
  <2>6. CASE WriteInfo(e)
    <3>1. EngTyped'
      BY <2>6 DEF WriteInfo, EngTyped, TypeInv, TypeOK, EngineType, HasPort, Rising
    <3>2. RuntimeInfo(e, eng[e].port) \in FileType
      BY <2>6 DEF WriteInfo, TypeInv, HasPort, FileType, RuntimeInfo
    <3>3. lock' \in Engines \union {NoOne} /\ Rest'
      BY <2>6, <3>2, <1>r DEF WriteInfo, bounds
    <3> QED BY <3>1, <3>3, <1>0
  <2>3. CASE StopServing(e)
    <3>1. EngTyped'
      BY <2>3, PcMoves DEF StopServing
    <3>2. lock' \in Engines \union {NoOne} /\ Rest'
      BY <2>3, <1>r DEF StopServing, bounds
    <3> QED BY <3>1, <3>2, <1>0
  <2>4. CASE RemoveFile(e)
    <3>1. EngTyped'
      BY <2>4, PcMoves DEF RemoveFile
    <3>2. lock' \in Engines \union {NoOne} /\ Rest'
      BY <2>4, <1>r DEF RemoveFile, bounds
    <3> QED BY <3>1, <3>2, <1>0
  <2>5. CASE CloseStore(e)
    <3>1. EngTyped'
      BY <2>5, EngGone DEF CloseStore
    <3>2. lock' \in Engines \union {NoOne} /\ Rest'
      BY <2>5, <1>r DEF CloseStore, bounds
    <3> QED BY <3>1, <3>2, <1>0
  <2> QED BY <1>1, <2>1, <2>2, <2>3, <2>4, <2>5, <2>6 DEF EngineStep
<1>2. ASSUME NEW e \in Engines, CrashEngine(e) PROVE TypeInv'
  <2>1. EngTyped' /\ lock' \in Engines \union {NoOne}
    BY <1>2, EndedType DEF CrashEngine
  <2>2. Rest'
    BY <1>2, <1>r DEF CrashEngine, Fault
  <2> QED BY <2>1, <2>2, <1>0
<1>3. ASSUME NEW e \in Engines, HangEngine(e) PROVE TypeInv'
  <2>1. EngTyped'
    BY <1>3 DEF HangEngine, EngTyped, TypeInv, TypeOK, EngineType, HasPort, Rising
  <2>2. lock' \in Engines \union {NoOne} /\ Rest'
    BY <1>3, <1>r DEF HangEngine, Fault
  <2> QED BY <2>1, <2>2, <1>0
<1>4. ASSUME NEW e \in Engines,
             SignalEngine(e) \/ ListenFails(e) \/ WriteInfoFails(e) \/ StartFails(e)
      PROVE  TypeInv'
  <2>1. EngTyped'
    BY <1>4, PcMoves DEF SignalEngine, ListenFails, WriteInfoFails, StartFails, Up
  <2>2. lock' \in Engines \union {NoOne} /\ Rest'
    BY <1>4, <1>r DEF SignalEngine, ListenFails, WriteInfoFails, StartFails, Fault
  <2> QED BY <2>1, <2>2, <1>0
<1>5. CASE OpenApp
  <2>1. AdoptRunning => file.port \in Ports
    BY DEF AdoptRunning, TypeInv, TypeOK, FileType
  <2>2. sessions + 1 \in Ports
    BY <1>5 DEF OpenApp, Ports, TypeInv, TypeOK
  <2>3. AdoptRunning \in BOOLEAN
    BY DEF AdoptRunning, Healthy
  <2>4. app' \in AppType
    BY <1>5, <2>1, <2>2, <2>3 DEF OpenApp, AppType
  <2>m. missed' \in BOOLEAN
    BY <1>5, Zenon DEF OpenApp
  <2>5. Rest'
    BY <1>5, <2>4, <2>m, <1>r, <1>e DEF OpenApp
  <2> QED BY <1>5, <1>e, <2>5, <1>0 DEF OpenApp
<1>6. CASE QuitApp
  <2>1. Rest'
    BY <1>6, <1>r, <1>e DEF QuitApp, bounds
  <2> QED BY <1>6, <1>e, <2>1, <1>0 DEF QuitApp
<1>7. CASE Probe
  <2>1. app' \in AppType
    BY <1>7, <1>a DEF Probe, AppType
  <2>2. Rest'
    BY <1>7, <2>1, <1>r, <1>e DEF Probe, bounds
  <2> QED BY <1>7, <1>e, <2>2, <1>0 DEF Probe
<1>8. CASE Decide
  <2>1. app' \in AppType
    BY <1>8, <1>a DEF Decide, AppType
  <2>2. faults' \in Nat
    BY <1>8, <1>r DEF Decide, Fault
  <2>3. Rest'
    BY <1>8, <2>1, <2>2, <1>r, <1>e DEF Decide
  <2> QED BY <1>8, <1>e, <2>3, <1>0 DEF Decide
<1>9. CASE Reap
  <2>1. app' \in AppType
    BY <1>9, <1>a DEF Reap, AppType
  <2>2. EngTyped' /\ lock' \in Engines \union {NoOne}
    BY <1>9, <1>a, <1>r, EndedType, EngUnchanged DEF Reap, AppType
  <2>3. Rest'
    BY <1>9, <2>1, <1>r DEF Reap, bounds
  <2> QED BY <2>2, <2>3, <1>0
<1>10. CASE SpawnOnce
  <2>1. PICK e \in Engines :
          /\ eng' = [eng EXCEPT ![e] = Opening(app.port)]
          /\ app' = [app EXCEPT !.child = e, !.endpoint = TRUE, !.spawned = TRUE, !.pc = "probe"]
    BY <1>10, Zenon DEF SpawnOnce
  <2>2. app \in AppType
    BY <1>10, <1>a DEF SpawnOnce
  <2>3. app' \in AppType
    BY <2>1, <2>2 DEF AppType
  <2>4. app.port \in Ports
    BY <2>2 DEF AppType
  <2>5. /\ Opening(app.port) \in EngineType /\ Opening(app.port).port = app.port
        /\ ~Opening(app.port).listed
    BY <2>4 DEF Opening, Gone, EngineType
  <2>6. EngTyped'
    BY <2>1, <2>4, <2>5 DEF EngTyped, TypeInv, TypeOK, HasPort, Rising
  <2>7. lock' \in Engines \union {NoOne} /\ Rest'
    BY <1>10, <2>3, <1>r DEF SpawnOnce, bounds
  <2> QED BY <2>6, <2>7, <1>0
<1>11. CASE SpawnFails
  <2>1. app' \in AppType
    BY <1>11, <1>a DEF SpawnFails, AppType
  <2>2. Rest'
    BY <1>11, <2>1, <1>r, <1>e DEF SpawnFails, Fault
  <2> QED BY <1>11, <1>e, <2>2, <1>0 DEF SpawnFails
<1>12. CASE StopFlag
  <2>1. app' \in AppType
    BY <1>12, <1>a DEF StopFlag, AppType
  <2>m. posting' \in BOOLEAN /\ missed' \in BOOLEAN
    BY <1>12, Zenon DEF StopFlag
  <2>2. Rest'
    BY <1>12, <2>1, <2>m, <1>r, <1>e DEF StopFlag
  <2> QED BY <1>12, <1>e, <2>2, <1>0 DEF StopFlag
<1>13. CASE PostShutdown
  <2>1. EngTyped'
    BY <1>13 DEF PostShutdown, Serves, Up, EngTyped, TypeInv, TypeOK, EngineType, HasPort, Rising
  <2>2. missed' \in BOOLEAN
    BY <1>13, Zenon DEF PostShutdown
  <2>3. lock' \in Engines \union {NoOne} /\ Rest'
    BY <1>13, <1>r, <2>2 DEF PostShutdown, bounds
  <2> QED BY <2>1, <2>3, <1>0
<1>14. CASE StartEngine
  <2>1. app' \in AppType
    BY <1>14, <1>a DEF StartEngine, AppType
  <2>m. missed' \in BOOLEAN
    BY <1>14, Zenon DEF StartEngine
  <2>2. Rest'
    BY <1>14, <2>1, <2>m, <1>r, <1>e DEF StartEngine
  <2> QED BY <1>14, <1>e, <2>2, <1>0 DEF StartEngine
<1>15. CASE UNCHANGED vars
  BY <1>15, <1>e, <1>r, <1>0 DEF vars, engines
<1> QED
  BY <1>1, <1>2, <1>3, <1>4, <1>5, <1>6, <1>7, <1>8, <1>9, <1>10, <1>11, <1>12, <1>13,
     <1>14, <1>15 DEF Next, SuperviseStep, EngineFails

\* Whatever the engines and the app do, every variable keeps its kind.
THEOREM TypeCorrect == Spec => []TypeOK
<1>1. TypeInv => TypeOK
  BY DEF TypeInv
<1> QED BY <1>1, InitTypeInv, NextTypeInv, PTL DEF Spec
-----------------------------------------------------------------------------
(* One engine at a time has the store, and runtime.json is its own.        *)

\* The places between kv.Open and the end of its deferred Close, and those between the
\* writing and the removal of runtime.json.
Holding == {"starting", "listening", "answering", "serving", "stopping", "closing", "unlisted"}
Listed  == {"answering", "serving", "stopping", "closing"}

HoldersLock == \A e \in Engines : eng[e].pc \in Holding => lock = e
OwnFile == \A e \in Engines : eng[e].pc \in Listed /\ eng[e].listed => file = RuntimeInfo(e, eng[e].port)

StoreInv == HoldersLock /\ OwnFile

\* A process that ends takes nothing from the others.
LEMMA EndedStoreInv ==
  ASSUME TypeInv, StoreInv, NEW e \in Engines, Ended(e), UNCHANGED file
  PROVE  StoreInv'
<1>1. \A d \in Engines : d # e => eng'[d] = eng[d]
  BY DEF Ended, TypeInv, TypeOK
<1>2. eng'[e].pc = "gone"
  BY DEF Ended, TypeInv, TypeOK, Gone
<1>3. HoldersLock'
  BY <1>1, <1>2 DEF Ended, StoreInv, HoldersLock, Holding
<1>4. OwnFile'
  BY <1>1, <1>2 DEF StoreInv, OwnFile, Listed
<1> QED BY <1>3, <1>4 DEF StoreInv

\* Engines that stay as they are, with the lock and the file, keep the invariant.
LEMMA StoreInvUnchanged == StoreInv /\ UNCHANGED engines => StoreInv'
  BY DEF engines, StoreInv, HoldersLock, OwnFile

LEMMA NextStoreInv == TypeInv /\ StoreInv /\ [Next]_vars => StoreInv'
<1> SUFFICES ASSUME TypeInv, StoreInv, [Next]_vars PROVE StoreInv'
  OBVIOUS
<1> USE NoOneAssumption DEF StoreInv
<1>t. eng \in [Engines -> EngineType]
  BY DEF TypeInv, TypeOK
<1>1. ASSUME NEW e \in Engines, EngineStep(e) PROVE StoreInv'
  <2>0. ASSUME NEW pc, eng' = [eng EXCEPT ![e].pc = pc]
        PROVE  /\ eng'[e].pc = pc /\ eng'[e].port = eng[e].port /\ eng'[e].listed = eng[e].listed
               /\ \A d \in Engines : d # e => eng'[d] = eng[d]
    BY <2>0, <1>t DEF EngineType
  <2>g. ASSUME eng' = [eng EXCEPT ![e] = Gone]
        PROVE  /\ eng'[e].pc = "gone"
               /\ \A d \in Engines : d # e => eng'[d] = eng[d]
    BY <2>g, <1>t DEF Gone
  <2>1. CASE OpenStore(e)
    <3>1. CASE lock = NoOne
      <4>1. \A d \in Engines : eng[d].pc \notin Holding
        BY <3>1 DEF HoldersLock
      <4>2. eng'[e].pc = "starting" /\ \A d \in Engines : d # e => eng'[d] = eng[d]
        BY <2>1, <3>1, <2>0 DEF OpenStore
      <4>3. HoldersLock'
        BY <2>1, <3>1, <4>1, <4>2 DEF OpenStore, HoldersLock
      <4>4. OwnFile'
        BY <2>1, <4>1, <4>2 DEF OwnFile, Listed, Holding
      <4> QED BY <4>3, <4>4
    <3>2. CASE lock # NoOne
      BY <2>1, <3>2, <2>g DEF OpenStore, HoldersLock, OwnFile, Holding, Listed
    <3> QED BY <3>1, <3>2
  <2>2. CASE Listen(e)
    <3>1. lock = e
      BY <2>2 DEF Listen, HoldersLock, Holding
    <3>2. eng'[e].pc = "listening" /\ \A d \in Engines : d # e => eng'[d] = eng[d]
      BY <2>2, <2>0 DEF Listen
    <3> QED BY <2>2, <3>1, <3>2 DEF Listen, HoldersLock, OwnFile, Listed
  <2>6. CASE WriteInfo(e)
    <3>1. lock = e
      BY <2>6 DEF WriteInfo, HoldersLock, Holding
    <3>2. eng'[e].port = eng[e].port /\ \A d \in Engines : d # e => eng'[d] = eng[d]
      BY <2>6, <1>t DEF WriteInfo, EngineType
    <3>3. HoldersLock'
      BY <2>6, <3>1, <3>2 DEF WriteInfo, HoldersLock
    <3>4. OwnFile'
      BY <2>6, <3>1, <3>2 DEF WriteInfo, HoldersLock, OwnFile, Holding, Listed
    <3> QED BY <3>3, <3>4
  <2>3. CASE StopServing(e) \/ StartCrawl(e)
    <3>1. /\ eng'[e].port = eng[e].port /\ eng'[e].listed = eng[e].listed
          /\ eng[e].pc \in Listed /\ eng'[e].pc \in Listed /\ UNCHANGED <<lock, file>>
          /\ \A d \in Engines : d # e => eng'[d] = eng[d]
      BY <2>3, <2>0 DEF StopServing, StartCrawl, Listed
    <3> QED BY <3>1 DEF HoldersLock, OwnFile, Holding, Listed
  <2>4. CASE RemoveFile(e)
    <3>1. lock = e
      BY <2>4 DEF RemoveFile, HoldersLock, Holding
    <3>2. eng'[e].pc = "unlisted" /\ \A d \in Engines : d # e => eng'[d] = eng[d]
      BY <2>4, <2>0 DEF RemoveFile
    <3>3. HoldersLock'
      BY <2>4, <3>1, <3>2 DEF RemoveFile, HoldersLock
    <3>4. OwnFile'
      BY <3>1, <3>2 DEF HoldersLock, OwnFile, Holding, Listed
    <3> QED BY <3>3, <3>4
  <2>5. CASE CloseStore(e)
    <3>1. lock = e
      BY <2>5 DEF CloseStore, HoldersLock, Holding
    <3>2. eng'[e].pc = "gone" /\ \A d \in Engines : d # e => eng'[d] = eng[d]
      BY <2>5, <2>g DEF CloseStore
    <3>3. HoldersLock'
      BY <3>1, <3>2 DEF HoldersLock, Holding
    <3>4. OwnFile'
      BY <2>5, <3>2 DEF CloseStore, OwnFile, Listed
    <3> QED BY <3>3, <3>4
  <2> QED BY <1>1, <2>1, <2>2, <2>3, <2>4, <2>5, <2>6 DEF EngineStep
<1>2. ASSUME NEW e \in Engines, CrashEngine(e) PROVE StoreInv'
  BY <1>2, EndedStoreInv DEF CrashEngine
<1>3. ASSUME NEW e \in Engines,
             \/ HangEngine(e) \/ SignalEngine(e)
             \/ ListenFails(e) \/ WriteInfoFails(e) \/ StartFails(e)
      PROVE  StoreInv'
  <2>1. /\ eng'[e].port = eng[e].port /\ eng'[e].listed = eng[e].listed
        /\ eng[e].pc \in Holding /\ eng'[e].pc \in Holding
        /\ \A d \in Engines : d # e => eng'[d] = eng[d]
    BY <1>3, <1>t
    DEF HangEngine, SignalEngine, ListenFails, WriteInfoFails, StartFails, EngineType, Up, Holding
  <2>2. UNCHANGED <<lock, file>>
    BY <1>3 DEF HangEngine, SignalEngine, ListenFails, WriteInfoFails, StartFails
  <2>3. eng'[e].pc \in Listed /\ eng[e].listed => eng[e].pc \in Listed
    BY <1>3, <2>1 DEF HangEngine, SignalEngine, ListenFails, WriteInfoFails, StartFails, Up,
       Listed, TypeInv, HasPort, Rising
  <2> QED BY <2>1, <2>2, <2>3 DEF HoldersLock, OwnFile
<1>4. CASE Reap
  <2>1. CASE app.child # NoOne
    <3>1. app.child \in Engines
      BY <1>4, <2>1 DEF Reap, TypeInv, TypeOK, AppType
    <3> QED BY <1>4, <2>1, <3>1, EndedStoreInv DEF Reap
  <2>2. CASE app.child = NoOne
    BY <1>4, <2>2, StoreInvUnchanged DEF Reap, engines
  <2> QED BY <2>1, <2>2
<1>5. CASE SpawnOnce
  <2>1. PICK e \in Engines :
          /\ eng[e] = Gone
          /\ eng' = [eng EXCEPT ![e] = Opening(app.port)]
    BY <1>5 DEF SpawnOnce
  <2>2. eng'[e].pc = "opening" /\ \A d \in Engines : d # e => eng'[d] = eng[d]
    BY <2>1, <1>t DEF Opening, Gone
  <2> QED BY <1>5, <2>2 DEF SpawnOnce, HoldersLock, OwnFile, Holding, Listed
<1>6. CASE PostShutdown
  <2>1. \A e \in Engines :
          \/ eng'[e] = eng[e]
          \/ /\ eng[e].pc \in Listed /\ eng'[e].pc = "stopping"
             /\ eng'[e].port = eng[e].port /\ eng'[e].listed = eng[e].listed
    BY <1>6, <1>t DEF PostShutdown, Serves, Up, EngineType, Listed
  <2> QED BY <1>6, <2>1 DEF PostShutdown, HoldersLock, OwnFile, Holding, Listed
<1>7. CASE OpenApp \/ QuitApp \/ Probe \/ Decide \/ SpawnFails \/ StopFlag \/ StartEngine
  BY <1>7, StoreInvUnchanged
     DEF OpenApp, QuitApp, Probe, Decide, SpawnFails, StopFlag, StartEngine
<1>8. CASE UNCHANGED vars
  BY <1>8, StoreInvUnchanged DEF vars, engines
<1> QED
  BY <1>1, <1>2, <1>3, <1>4, <1>5, <1>6, <1>7, <1>8 DEF Next, SuperviseStep, EngineFails

LEMMA SpecStoreInv == Spec => [](TypeInv /\ StoreInv)
<1>1. Init => StoreInv
  BY DEF Init, StoreInv, HoldersLock, OwnFile, Holding, Listed, Gone
<1> QED BY <1>1, InitTypeInv, NextTypeInv, NextStoreInv, PTL DEF Spec

\* However many sessions, engines and crashes there were: an engine that serves is the one
\* runtime.json names, for no other engine can have the store and write or remove the file
\* while it does (main.go's order of Open, Listen and the deferred calls).
THEOREM ServingStaysFindable == Spec => []ServingIsFindable
<1>1. StoreInv => ServingIsFindable
  BY DEF StoreInv, OwnFile, ServingIsFindable, Listed, Up
<1> QED BY <1>1, SpecStoreInv, PTL

-----------------------------------------------------------------------------
(* A stop request and the supervisor thread.                               *)

\* Sessions draw ports nobody had; the app knows of an engine at its port, if there is one.
PortsDrawn ==
  /\ \A e \in Engines : eng[e].pc # "gone" => eng[e].port <= sessions
  /\ app # Closed =>
       /\ app.port <= sessions
       /\ ~app.endpoint => \A e \in Engines : eng[e].pc # "gone" => eng[e].port # app.port

StopInv == PortsDrawn /\ StopHolds

\* What a step of an engine makes of it: it keeps its port or ends, and answers, or is on its
\* way to, only if it was before.
EngineMoves(e) ==
  /\ \A d \in Engines : d # e => eng'[d] = eng[d]
  /\ eng[e].pc # "gone"
  /\ \/ eng'[e].pc = "gone"
     \/ /\ eng'[e].port = eng[e].port
        /\ Rising(e)' \/ Up(e)' => Rising(e) \/ (Up(e) /\ ~eng[e].hung)
  /\ UNCHANGED <<app, posting, missed, sessions>>

LEMMA StepMoves ==
  ASSUME TypeInv, NEW e \in Engines, EngineStep(e) \/ EngineFails(e)
  PROVE  EngineMoves(e)
<1>t. eng \in [Engines -> EngineType]
  BY DEF TypeInv, TypeOK
<1>p. ASSUME NEW pc, eng' = [eng EXCEPT ![e].pc = pc]
      PROVE  /\ eng'[e].pc = pc /\ eng'[e].port = eng[e].port
             /\ \A d \in Engines : d # e => eng'[d] = eng[d]
  BY <1>p, <1>t DEF EngineType
<1>g. ASSUME eng' = [eng EXCEPT ![e] = Gone]
      PROVE  /\ eng'[e].pc = "gone"
             /\ \A d \in Engines : d # e => eng'[d] = eng[d]
  BY <1>g, <1>t DEF Gone
<1>1. CASE OpenStore(e) \/ CloseStore(e) \/ CrashEngine(e)
  BY <1>1, <1>p, <1>g
  DEF OpenStore, CloseStore, CrashEngine, Ended, Fault, EngineMoves, Rising, Up, bounds
<1>2. CASE Listen(e) \/ ListenFails(e) \/ WriteInfoFails(e)
  BY <1>2, <1>p DEF Listen, ListenFails, WriteInfoFails, Fault, EngineMoves, Rising, Up, bounds
<1>3. CASE WriteInfo(e)
  <2>1. eng'[e].pc = "answering" /\ eng'[e].port = eng[e].port /\ \A d \in Engines : d # e => eng'[d] = eng[d]
    BY <1>3, <1>t DEF WriteInfo, EngineType
  <2> QED BY <1>3, <2>1 DEF WriteInfo, EngineMoves, Rising, Up, bounds
<1>4. CASE StartCrawl(e) \/ StartFails(e) \/ SignalEngine(e)
  BY <1>4, <1>p DEF StartCrawl, StartFails, SignalEngine, Fault, EngineMoves, Rising, Up, bounds
<1>5. CASE StopServing(e) \/ RemoveFile(e)
  BY <1>5, <1>p DEF StopServing, RemoveFile, EngineMoves, Rising, Up, bounds
<1>6. CASE HangEngine(e)
  <2>1. eng'[e].pc = eng[e].pc /\ eng'[e].port = eng[e].port /\ \A d \in Engines : d # e => eng'[d] = eng[d]
    BY <1>6, <1>t DEF HangEngine, EngineType
  <2> QED BY <1>6, <2>1 DEF HangEngine, Fault, EngineMoves, Rising, Up
<1> QED BY <1>1, <1>2, <1>3, <1>4, <1>5, <1>6 DEF EngineStep, EngineFails

LEMMA MovesKeepStop ==
  ASSUME TypeInv, StopInv, NEW e \in Engines, EngineMoves(e)
  PROVE  StopInv'
<1>1. PortsDrawn'
  BY DEF EngineMoves, StopInv, PortsDrawn
<1>2. StopHolds'
  <2> SUFFICES ASSUME (app # Closed /\ app.stop /\ ~posting /\ ~missed)'
               PROVE  /\ app'.pc \notin {"reap", "spawn"}
                      /\ \A d \in Engines :
                           eng'[d].port = app'.port => ~Rising(d)' /\ (Up(d)' => eng'[d].hung)
    BY DEF StopHolds
  <2>1. app' = app /\ app # Closed /\ app.stop /\ ~posting /\ ~missed
    BY DEF EngineMoves
  <2> SUFFICES ASSUME NEW d \in Engines, eng'[d].port = app'.port
               PROVE  ~Rising(d)' /\ (Up(d)' => eng'[d].hung)
    BY <2>1 DEF StopInv, StopHolds
  <2>2. /\ app.pc \notin {"reap", "spawn"}
        /\ \A c \in Engines : eng[c].port = app.port => ~Rising(c) /\ (Up(c) => eng[c].hung)
    BY <2>1 DEF StopInv, StopHolds
  <2>3. CASE d # e
    BY <2>1, <2>2, <2>3 DEF EngineMoves, Rising, Up
  <2>4. CASE d = e
    <3>1. ~(Rising(e)' \/ Up(e)')
      BY <2>1, <2>2, <2>4 DEF EngineMoves, Rising, Up
    <3> QED BY <2>1, <2>2, <2>4, <3>1
  <2> QED BY <2>3, <2>4
<1> QED BY <1>1, <1>2 DEF StopInv

LEMMA NextStopInv == TypeInv /\ StopInv /\ [Next]_vars => StopInv'
<1> SUFFICES ASSUME TypeInv, StopInv, [Next]_vars PROVE StopInv'
  OBVIOUS
<1>a. app # Closed => app \in AppType
  BY DEF TypeInv, TypeOK
<1>n. sessions \in Nat /\ eng \in [Engines -> EngineType]
  BY DEF TypeInv, TypeOK
<1>1. CASE OpenApp
  <2>1. \A e \in Engines : eng[e].pc # "gone" => eng[e].port \in Nat /\ eng[e].port <= sessions
    BY DEF StopInv, PortsDrawn, TypeInv, HasPort, Ports
  <2>2. AdoptRunning => \E e \in Engines : eng[e].pc # "gone" /\ eng[e].port = file.port
    BY DEF AdoptRunning, Healthy, Serves, Up
  <2>3. UNCHANGED eng /\ sessions' = sessions + 1
    BY <1>1 DEF OpenApp, engines
  <2>4. /\ app'.port = (IF AdoptRunning THEN file.port ELSE sessions + 1)
        /\ (~app'.endpoint <=> ~AdoptRunning) /\ ~app'.stop
    BY <1>1 DEF OpenApp
  <2>5. app'.port <= sessions'
    BY <1>n, <2>1, <2>2, <2>3, <2>4
  <2>6. ~app'.endpoint => \A e \in Engines : eng[e].pc # "gone" => eng[e].port # app'.port
    BY <1>n, <2>1, <2>4
  <2>7. PortsDrawn'
    BY <1>n, <2>1, <2>3, <2>5, <2>6 DEF PortsDrawn
  <2>8. StopHolds'
    BY <2>4 DEF StopHolds
  <2> QED BY <2>7, <2>8 DEF StopInv
<1>2. CASE QuitApp
  BY <1>2 DEF QuitApp, engines, bounds, StopInv, PortsDrawn, StopHolds
\* The thread moves on without touching an engine.
<1>k. ASSUME UNCHANGED <<eng, posting, missed, sessions>>, app # Closed,
             app'.port = app.port, app'.endpoint = app.endpoint,
             app'.stop => app.stop /\ app'.pc \notin {"reap", "spawn"}
      PROVE  StopInv'
  BY <1>k DEF StopInv, PortsDrawn, StopHolds, Rising, Up
\* Only where no stop holds is the thread about to launch an engine.
<1>s. ASSUME app # Closed, app.pc \in {"reap", "spawn"}, app'.stop = app.stop,
             UNCHANGED <<posting, missed>>, PortsDrawn'
      PROVE  StopInv'
  BY <1>s DEF StopInv, StopHolds
<1>3. CASE Probe \/ Decide
  <2>1. app \in AppType /\ app # Closed
    BY <1>3, <1>a DEF Probe, Decide
  <2>2. PICK pc \in {"unhealthy", "probe", "reap"} :
          /\ app' = [app EXCEPT !.pc = pc]
          /\ app.stop => pc # "reap"
    BY <1>3 DEF Probe, Decide
  <2>3. /\ app'.port = app.port /\ app'.endpoint = app.endpoint /\ app'.stop = app.stop
        /\ app'.pc = pc /\ app' \in AppType
    BY <2>1, <2>2 DEF AppType
  <2>4. UNCHANGED <<eng, posting, missed, sessions>>
    BY <1>3 DEF Probe, Decide, engines, bounds
  <2> QED BY <1>k, <2>1, <2>2, <2>3, <2>4
<1>4. CASE Reap \/ SpawnFails
  <2>1. app \in AppType /\ app # Closed /\ app.pc \in {"reap", "spawn"}
    BY <1>4, <1>a DEF Reap, SpawnFails
  <2>2. /\ app'.port = app.port /\ app'.endpoint = app.endpoint /\ app'.stop = app.stop
        /\ UNCHANGED <<posting, missed, sessions>>
    BY <1>4, <2>1 DEF Reap, SpawnFails, AppType, bounds
  <2>3. \A e \in Engines : eng'[e] = eng[e] \/ eng'[e].pc = "gone"
    <3>1. CASE UNCHANGED eng
      BY <3>1
    <3>2. CASE Reap /\ app.child # NoOne
      BY <1>n, <2>1, <3>2 DEF Reap, Ended, Gone, AppType
    <3> QED BY <1>4, <3>1, <3>2 DEF Reap, SpawnFails, engines
  <2>4. PortsDrawn'
    BY <2>1, <2>2, <2>3 DEF StopInv, PortsDrawn
  <2> QED BY <1>s, <2>1, <2>2, <2>4
<1>5. CASE SpawnOnce
  <2>1. app \in AppType /\ app # Closed /\ app.pc \in {"reap", "spawn"}
    BY <1>5, <1>a DEF SpawnOnce
  <2>2. PICK e \in Engines :
          /\ eng' = [eng EXCEPT ![e] = Opening(app.port)]
          /\ app' = [app EXCEPT !.child = e, !.endpoint = TRUE, !.spawned = TRUE, !.pc = "probe"]
    BY <1>5, Zenon DEF SpawnOnce
  <2>3. /\ app'.port = app.port /\ app'.endpoint = TRUE /\ app'.stop = app.stop
        /\ UNCHANGED <<posting, missed, sessions>>
    BY <1>5, <2>1, <2>2 DEF SpawnOnce, AppType, bounds
  <2>4. eng'[e].port = app.port /\ \A d \in Engines : d # e => eng'[d] = eng[d]
    BY <1>n, <2>2 DEF Opening, Gone
  <2>5. PortsDrawn'
    BY <2>1, <2>3, <2>4 DEF StopInv, PortsDrawn
  <2> QED BY <1>s, <2>1, <2>3, <2>5
<1>6. CASE StopFlag \/ StartEngine
  <2>1. app \in AppType /\ app # Closed
    BY <1>6, <1>a DEF StopFlag, StartEngine
  <2>2. /\ app'.port = app.port /\ app'.endpoint = app.endpoint
        /\ posting' \/ ~app'.stop
    BY <1>6, <2>1 DEF StopFlag, StartEngine, AppType, engines
  <2>3. UNCHANGED <<eng, sessions>>
    BY <1>6 DEF StopFlag, StartEngine, engines
  <2> QED BY <2>1, <2>2, <2>3 DEF StopInv, PortsDrawn, StopHolds
<1>7. CASE PostShutdown
  <2>1. UNCHANGED <<app, sessions>>
    BY <1>7 DEF PostShutdown, bounds
  <2>2. \A e \in Engines :
          IF app.endpoint /\ Serves(e, app.port)
          THEN eng'[e].port = eng[e].port /\ eng'[e].pc = "stopping" /\ eng[e].pc # "gone"
          ELSE eng'[e] = eng[e]
    BY <1>7, <1>n DEF PostShutdown, Serves, Up, EngineType
  <2>3. PortsDrawn'
    BY <2>1, <2>2 DEF StopInv, PortsDrawn
  <2>4. ASSUME app # Closed, ~missed'
        PROVE  /\ app.pc \notin {"reap", "spawn"}
               /\ \A e \in Engines : eng[e].port = app.port => ~Rising(e)
    <3>1. ~(app.pc \in {"reap", "spawn"} \/ \E e \in Engines : eng[e].port = app.port /\ Rising(e))
      BY <1>7, <2>4, Zenon DEF PostShutdown
    <3> QED BY <3>1
  <2>5. ASSUME app # Closed, ~missed', NEW e \in Engines, eng'[e].port = app.port
        PROVE  ~Rising(e)' /\ (Up(e)' => eng'[e].hung)
    <3>1. CASE app.endpoint /\ Serves(e, app.port)
      BY <2>2, <3>1 DEF Rising, Up
    <3>2. CASE ~app.endpoint
      <4>1. eng'[e] = eng[e] /\ eng[e].pc = "gone"
        BY <2>2, <2>5, <3>2 DEF StopInv, PortsDrawn
      <4> QED BY <4>1 DEF Rising, Up
    <3>3. CASE ~Serves(e, app.port)
      <4>1. eng'[e] = eng[e]
        BY <2>2, <3>3
      <4> QED BY <2>4, <2>5, <3>3, <4>1 DEF Serves, Rising, Up
    <3> QED BY <3>1, <3>2, <3>3
  <2>6. StopHolds'
    BY <2>1, <2>4, <2>5 DEF StopHolds
  <2> QED BY <2>3, <2>6 DEF StopInv
<1>8. ASSUME NEW e \in Engines, EngineStep(e) \/ EngineFails(e) PROVE StopInv'
  BY <1>8, StepMoves, MovesKeepStop
<1>9. CASE UNCHANGED vars
  BY <1>9 DEF vars, StopInv, PortsDrawn, StopHolds, Rising, Up
<1> QED
  BY <1>1, <1>2, <1>3, <1>4, <1>5, <1>6, <1>7, <1>8, <1>9 DEF Next, SuperviseStep

\* Whenever the stop comes: unless an engine was on its way just then, none is launched
\* against it, and what there is at the app's port is on its way out or hangs.
THEOREM StopAlwaysHolds == Spec => []StopHolds
<1>1. Init => StopInv
  BY DEF Init, StopInv, PortsDrawn, StopHolds, Gone
<1>2. StopInv => StopHolds
  BY DEF StopInv
<1> QED BY <1>1, <1>2, InitTypeInv, NextTypeInv, NextStopInv, PTL DEF Spec
=============================================================================
