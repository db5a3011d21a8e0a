--------------------------- MODULE CoreEngineProofs ---------------------------
(***************************************************************************)
(* Proofs about the engines and command servers of CoreLifecycle, for one  *)
(* caller that does not call StartService directly and engines that close: *)
(* none leaks, none is served once closed, and the core implements         *)
(* CoreContract.                                                           *)
(***************************************************************************)
EXTENDS CoreLifecycleProofs

\* One caller, no direct StartService, no engine whose Close fails.
Careful ==
  OneCaller /\ Callers # {} /\ "StartService" \notin Ops /\ "boxclose" \notin Faults

\* Labels at which no engine runs, those at which the published one does,
\* those between calls, those on the way to STARTED, and those at which no
\* command server serves an engine.
Clean     == {"start.status", "svc.read", "svc.build", "svc.server", "svc.new", "svc.start",
              "svc.fail", "stop.clear", "stop.server", "stop.unserver", "stop.done",
              "reload.clear", "alert.clear", "alert.server", "alert.done"}
Loaded    == {"stop.tunnel", "stop.detach", "stop.close", "svc.prime", "svc.bind", "svc.started"}
Resting   == {"idle", "start.check", "restart.check", "stop.check", "reload.status"}
Reloading == {"reload.detach", "reload.unserver", "reload.close", "reload.clear"}
Building  == {"svc.build", "svc.server", "svc.new", "svc.start", "svc.publish", "svc.prime",
              "svc.bind", "svc.started"}
Unbound   == {"stop.close", "reload.unserver", "reload.close", "alert.close", "svc.publish"}

\* Which call can be where: a reload never gets past reading its configuration.
CallAt(c) ==
  /\ pc[c] = "start.check" => op[c] = "Start"
  /\ pc[c] \in {"restart.check", "restart.box"} => op[c] = "Restart"
  /\ pc[c] \in {"start.status"} \cup Building => op[c] \in {"Start", "Restart"}
  /\ pc[c] \in {"reload.status", "svc.read"} \cup Reloading =>
       op[c] \in {"Start", "Restart"} \/ req[c].source = "nopath"
  /\ pc[c] # "panicked"

\* What is announced there.
StatusAt(c) ==
  /\ pc[c] \in {"restart.box", "stop.box", "stop.status"} => CoreState = "STARTED"
  /\ pc[c] \in Reloading \cup {"svc.read", "svc.fail"} \cup Building => CoreState = "STARTING"
  /\ pc[c] = "alert.status" => CoreState # "STARTED"

\* And which engine runs.
EngineAt(c) ==
  /\ pc[c] # "svc.publish" => live \subseteq {Box}
  /\ pc[c] = "svc.publish" => live = {instance[c]}
  /\ pc[c] \in Clean => live = {}
  /\ pc[c] \in Loaded => Box \in live
  /\ pc[c] \in Resting /\ CoreState # "STARTED" => live = {}

\* Only the published command server serves, and what it serves runs.
ServiceInv ==
  /\ \A s \in Servers : service[s] # Nil =>
       s = oldCommandServer /\ service[s] = Box /\ Box \in live
  /\ \A c \in Callers : pc[c] \in Unbound => \A s \in Servers : service[s] = Nil

EngineInv == (\A c \in Callers : CallAt(c) /\ StatusAt(c) /\ EngineAt(c)) /\ ServiceInv

-----------------------------------------------------------------------------
\* With one caller, EngineInv is about that caller.
LEMMA AtTheCaller ==
  ASSUME Careful, NEW c \in Callers,
         CallAt(c)', StatusAt(c)', EngineAt(c)',
         (\A s \in Servers : service[s] # Nil =>
            s = oldCommandServer /\ service[s] = Box /\ Box \in live)',
         (pc[c] \in Unbound => \A s \in Servers : service[s] = Nil)'
  PROVE  EngineInv'
  BY DEF Careful, OneCaller, EngineInv, ServiceInv

\* Start and Restart, up to StartService.
LEMMA BeginEngine ==
  ASSUME Careful, TypeOK, SerialInv, EngineInv, NEW c \in Callers, Begin(c)
  PROVE  EngineInv' /\ [Contract!Next]_(Contract!contract)
  <1> USE DEF Clean, Loaded, Resting, Reloading, Building, Unbound, TypeOK, SerialInv, EngineInv,
              ServiceInv, CallAt, StatusAt, EngineAt, Contract!contract, shared, ptrs, opts,
              status, world, frame
  <1>1. CASE StartCheck(c)
    BY <1>1, AtTheCaller DEF StartCheck, Pass, Step, Stable, Transitional
  <1>2. CASE RestartCheck(c)
    BY <1>2, AtTheCaller DEF RestartCheck, Pass, Step, Return
  <1>3. CASE RestartBox(c)
    BY <1>3, AtTheCaller, CoreAssumption DEF RestartBox, Pass, Step, Return
  <1>4. CASE Announce(c, "start.status", "svc.read", "STARTING")
    BY <1>4, AtTheCaller DEF Announce, Step, SetCoreStatus, Contract!Next, Contract!Begin
  <1>5. QED
    BY <1>1, <1>2, <1>3, <1>4 DEF Begin

\* Stop.
LEMMA StopEngine ==
  ASSUME Careful, TypeOK, SerialInv, EngineInv, NEW c \in Callers, Stop(c)
  PROVE  EngineInv' /\ [Contract!Next]_(Contract!contract)
  <1> USE DEF Clean, Loaded, Resting, Reloading, Building, Unbound, TypeOK, SerialInv, EngineInv,
              ServiceInv, CallAt, StatusAt, EngineAt, Contract!contract, shared, ptrs, opts,
              status, world, frame
  <1>1. CASE StopCheck(c)
    BY <1>1, AtTheCaller DEF StopCheck, Pass, Step, StopReturn, ResumesAfterStop, Return
  <1>2. CASE StopBox(c)
    BY <1>2, AtTheCaller, CoreAssumption DEF StopBox, Pass, Step, StopReturn, ResumesAfterStop,
       Return
  <1>3. CASE StopStatus(c)
    BY <1>3, AtTheCaller DEF StopStatus, Announce, Step, SetCoreStatus, Contract!Next,
       Contract!Leave
  <1>4. CASE Deactivate(c, "stop.tunnel", "stop.detach")
    BY <1>4, AtTheCaller DEF Deactivate, Step
  <1>5. CASE Detach(c, "stop.detach", "stop.close")
    BY <1>5, AtTheCaller DEF Detach, Step
  <1>6. CASE StopClose(c)
    BY <1>6, AtTheCaller, CoreAssumption DEF StopClose, CloseBox, BoxCloseFails, Careful, Down,
       Contract!Next, Contract!Cease
  <1>7. CASE ClearBox(c, "stop.clear", "stop.server")
    BY <1>7, AtTheCaller DEF ClearBox, Step
  <1>8. CASE StopServer(c)
    BY <1>8, AtTheCaller DEF StopServer, CloseServer, ServerCloseFails, Pass, Step, Down,
       StopReturn, ResumesAfterStop, Return
  <1>9. CASE ClearServer(c, "stop.unserver", "stop.done")
    BY <1>9, AtTheCaller DEF ClearServer, Step
  <1>10. CASE StopDone(c)
    BY <1>10, AtTheCaller DEF StopDone, SetCoreStatus, Down, Stable, Transitional, StopReturn,
       ResumesAfterStop, Return, Contract!Next, Contract!Halt
  <1>11. QED
    BY <1>1, <1>2, <1>3, <1>4, <1>5, <1>6, <1>7, <1>8, <1>9, <1>10 DEF Stop

\* ServiceReload, up to StartService.
LEMMA ReloadEngine ==
  ASSUME Careful, TypeOK, SerialInv, EngineInv, NEW c \in Callers, Reload(c)
  PROVE  EngineInv' /\ [Contract!Next]_(Contract!contract)
  <1> USE DEF Clean, Loaded, Resting, Reloading, Building, Unbound, TypeOK, SerialInv, EngineInv,
              ServiceInv, CallAt, StatusAt, EngineAt, Contract!contract, shared, ptrs, opts,
              status, world, frame
  <1>1. CASE ReloadStatus(c)
    BY <1>1, AtTheCaller DEF ReloadStatus, Announce, Step, SetCoreStatus, Stable, Transitional,
       Contract!Next, Contract!Begin
  <1>2. CASE Detach(c, "reload.detach",
                 IF oldCommandServer # Nil THEN "reload.unserver" ELSE "reload.close")
    BY <1>2, AtTheCaller DEF Detach, Step
  <1>3. CASE ClearServer(c, "reload.unserver", "reload.close")
    BY <1>3, AtTheCaller DEF ClearServer, Step
  <1>4. CASE CloseIgnored(c, "reload.close", "reload.clear", "svc.read")
    <2>1. CASE Pass(c, "reload.close", "svc.read") /\ Box = Nil
      BY <2>1, AtTheCaller, CoreAssumption DEF Pass, Step
    <2>2. CASE /\ Step(c, "reload.close", "reload.clear") /\ live' = live \ {Box}
               /\ UNCHANGED <<ptrs, opts, status, open, service, frame, fault>>
      <3>1. live \subseteq {Box} /\ live' = {}
        BY <2>2 DEF Step
      <3>2. EngineInv'
        BY <2>2, <3>1, AtTheCaller DEF Step
      <3>3. CoreState # "STARTED"
        BY <2>2 DEF Step, Down
      <3>4. QED
        BY <2>2, <3>1, <3>2, <3>3 DEF Contract!Next, Contract!Cease
    <2>3. QED
      BY <1>4, <2>1, <2>2 DEF CloseIgnored, CloseBox, BoxCloseFails, Careful, Pass
  <1>5. CASE ClearBox(c, "reload.clear", "svc.read")
    BY <1>5, AtTheCaller DEF ClearBox, Step
  <1>6. QED
    BY <1>1, <1>2, <1>3, <1>4, <1>5 DEF Reload

\* StartService.
LEMMA StartServiceEngine ==
  ASSUME Careful, TypeOK, FrameOK, SerialInv, EngineInv, NEW c \in Callers, StartService(c)
  PROVE  EngineInv' /\ [Contract!Next]_(Contract!contract)
  <1> USE DEF Clean, Loaded, Resting, Reloading, Building, Unbound, TypeOK, SerialInv, EngineInv,
              ServiceInv, CallAt, StatusAt, EngineAt, Contract!contract, shared, ptrs, opts,
              status, world, frame
  <1>1. CASE SvcRead(c)
    BY <1>1, AtTheCaller DEF SvcRead, Fails, Pass, Step
  <1>2. CASE SvcBuild(c)
    BY <1>2, AtTheCaller DEF SvcBuild, Pass, Step
  <1>3. CASE SvcServer(c)
    BY <1>3, AtTheCaller DEF SvcServer, Pass, Step
  <1>4. CASE SvcNew(c)
    BY <1>4, AtTheCaller DEF SvcNew, Step
  <1>5. CASE SvcStart(c)
    BY <1>5, AtTheCaller DEF SvcStart, Step, FrameOK, Contract!Next, Contract!Launch
  <1>6. CASE SvcPublish(c)
    BY <1>6, AtTheCaller DEF SvcPublish, Step
  <1>7. CASE SvcPrime(c)
    BY <1>7, AtTheCaller DEF SvcPrime, Pass, Step, Alert
  <1>8. CASE SvcBind(c)
    BY <1>8, AtTheCaller DEF SvcBind, Step
  <1>9. CASE SvcStarted(c)
    BY <1>9, AtTheCaller DEF SvcStarted, SetCoreStatus, Return, Contract!Next, Contract!Ready
  <1>10. CASE SvcFail(c)
    BY <1>10, AtTheCaller DEF SvcFail, SetCoreStatus, Alert, Contract!Next, Contract!Halt
  <1>11. QED
    BY <1>1, <1>2, <1>3, <1>4, <1>5, <1>6, <1>7, <1>8, <1>9, <1>10 DEF StartService

\* StopAndAlert.
LEMMA StopAndAlertEngine ==
  ASSUME Careful, TypeOK, SerialInv, EngineInv, NEW c \in Callers, StopAndAlert(c)
  PROVE  EngineInv' /\ [Contract!Next]_(Contract!contract)
  <1> USE DEF Clean, Loaded, Resting, Reloading, Building, Unbound, TypeOK, SerialInv, EngineInv,
              ServiceInv, CallAt, StatusAt, EngineAt, Contract!contract, shared, ptrs, opts,
              status, world, frame
  <1>1. CASE Announce(c, "alert.status", "alert.tunnel", "STOPPED")
    BY <1>1, AtTheCaller DEF Announce, Step, SetCoreStatus, Stable, Transitional,
       Contract!Next, Contract!Halt
  <1>2. CASE Deactivate(c, "alert.tunnel", "alert.detach")
    BY <1>2, AtTheCaller DEF Deactivate, Step
  <1>3. CASE Detach(c, "alert.detach", "alert.close")
    BY <1>3, AtTheCaller DEF Detach, Step
  <1>4. CASE CloseIgnored(c, "alert.close", "alert.clear", "alert.server")
    <2>1. CASE Pass(c, "alert.close", "alert.server") /\ Box = Nil
      BY <2>1, AtTheCaller, CoreAssumption DEF Pass, Step
    <2>2. CASE /\ Step(c, "alert.close", "alert.clear") /\ live' = live \ {Box}
               /\ UNCHANGED <<ptrs, opts, status, open, service, frame, fault>>
      <3>1. live \subseteq {Box} /\ live' = {}
        BY <2>2 DEF Step
      <3>2. EngineInv'
        BY <2>2, <3>1, AtTheCaller DEF Step
      <3>3. CoreState # "STARTED"
        BY <2>2 DEF Step, Down
      <3>4. QED
        BY <2>2, <3>1, <3>2, <3>3 DEF Contract!Next, Contract!Cease
    <2>3. QED
      BY <1>4, <2>1, <2>2 DEF CloseIgnored, CloseBox, BoxCloseFails, Careful, Pass
  <1>5. CASE ClearBox(c, "alert.clear", "alert.server")
    BY <1>5, AtTheCaller DEF ClearBox, Step
  <1>6. CASE AlertServer(c)
    BY <1>6, AtTheCaller DEF AlertServer, Pass, Step
  <1>7. CASE AlertDone(c)
    BY <1>7, AtTheCaller DEF AlertDone, Down, StopReturn, ResumesAfterStop, Return
  <1>8. QED
    BY <1>1, <1>2, <1>3, <1>4, <1>5, <1>6, <1>7 DEF StopAndAlert

-----------------------------------------------------------------------------
(* The three theorems.                                                     *)

\* A client's call.
LEMMA InvokeEngine ==
  ASSUME Careful, TypeOK, EngineInv, NEW c \in Callers, NEW o \in Ops \cap DOMAIN Entry,
         NEW r \in RequestsOf(o), Invoke(c, o, r)
  PROVE  EngineInv' /\ UNCHANGED Contract!contract
  <1>1. Entry[o] \in {"start.check", "restart.check", "stop.check", "reload.status"}
    BY DEF Careful, Entry
  <1>2. /\ Entry[o] = "start.check" => o = "Start"
        /\ Entry[o] = "restart.check" => o = "Restart"
        /\ Entry[o] = "reload.status" => r.source = "nopath"
    BY DEF Entry, RequestsOf, StartOps, ReloadRequest
  <1>3. CallAt(c)' /\ StatusAt(c)'
    BY <1>1, <1>2 DEF Invoke, Step, TypeOK, EngineInv, CallAt, StatusAt, Building, Reloading,
       shared, status
  <1>4. EngineAt(c)'
    BY <1>1 DEF Invoke, Step, TypeOK, EngineInv, EngineAt, Clean, Loaded, Resting, shared, ptrs,
       status, world
  <1>5. QED
    BY <1>1, <1>3, <1>4, AtTheCaller DEF Invoke, Step, TypeOK, EngineInv, ServiceInv, Unbound,
       shared, ptrs, status, world, Contract!contract

\* Every step keeps EngineInv and is a step, or a stutter, of the contract.
LEMMA StepEngine ==
  ASSUME Careful, CoreInv, SerialInv, EngineInv, [Next]_vars
  PROVE  EngineInv' /\ [Contract!Next]_(Contract!contract)
  <1> USE DEF CoreInv
  <1>1. ASSUME NEW c \in Callers, NEW o \in Ops \cap DOMAIN Entry,
               NEW r \in RequestsOf(o), Invoke(c, o, r)
        PROVE  EngineInv' /\ [Contract!Next]_(Contract!contract)
    BY <1>1, InvokeEngine
  <1>2. ASSUME NEW c \in Callers, GenerateConfig(c)
        PROVE  EngineInv' /\ [Contract!Next]_(Contract!contract)
    BY <1>2 DEF GenerateConfig, EngineInv, ServiceInv, CallAt, StatusAt, EngineAt, ptrs,
       status, world, Contract!contract
  <1>3. CASE ChangeRostovVPNSettings
    BY <1>3 DEF ChangeRostovVPNSettings, EngineInv, ServiceInv, CallAt, StatusAt, EngineAt, ptrs,
       status, world, frame, Contract!contract
  <1>4. ASSUME NEW c \in Callers, Advance(c)
        PROVE  EngineInv' /\ [Contract!Next]_(Contract!contract)
    <2>1. ~Crash(c)
      BY DEF Crash, EngineInv, CallAt
    <2>2. QED
      BY <1>4, <2>1, BeginEngine, StopEngine, ReloadEngine, StartServiceEngine,
         StopAndAlertEngine DEF Advance
  <1>5. CASE UNCHANGED vars
    BY <1>5 DEF vars, EngineInv, ServiceInv, CallAt, StatusAt, EngineAt, shared, ptrs,
       status, world, frame, Contract!contract
  <1>6. QED
    BY <1>1, <1>2, <1>3, <1>4, <1>5 DEF Next

LEMMA EngineInvEver ==
  ASSUME Careful
  PROVE  Spec => []EngineInv /\ [][Contract!Next]_(Contract!contract)
  <1>1. Init => EngineInv
    BY DEF Init, EngineInv, ServiceInv, CallAt, StatusAt, EngineAt, Clean, Loaded, Reloading,
       Building, Unbound
  <1>2. Spec => [](CoreInv /\ SerialInv)
    BY Careful, CoreInvEver, SerialInvEver DEF Careful
  <1>3. ASSUME CoreInv /\ SerialInv, EngineInv, [Next]_vars
        PROVE  EngineInv' /\ [Contract!Next]_(Contract!contract)
    BY <1>3, StepEngine
  <1>4. QED
    BY <1>1, <1>2, <1>3, PTL DEF Spec

\* While one caller uses the core, StartService is not called directly and an
\* engine's Close succeeds, every running engine is the published one or the
\* one about to be, at every step, whatever else fails (custom.go:142-163,
\* 310-318, old_command_server.go:22-27).
THEOREM NoLeakedEngineEver ==
  ASSUME Careful
  PROVE  Spec => []NoLeakedEngine
  <1>1. EngineInv => NoLeakedEngine
    BY DEF Careful, EngineInv, EngineAt, NoLeakedEngine
  <1>2. QED
    BY <1>1, EngineInvEver, PTL

\* Under the same conditions no command server serves an engine that does not
\* run: SetService(nil) precedes every Close (custom.go:38-45, 305-317,
\* old_command_server.go:19-27).
THEOREM NoServiceAfterCloseEver ==
  ASSUME Careful
  PROVE  Spec => []NoServiceAfterClose
  <1>1. EngineInv => NoServiceAfterClose
    BY DEF EngineInv, ServiceInv, NoServiceAfterClose
  <1>2. QED
    BY <1>1, EngineInvEver, PTL

\* Under the same conditions the core implements CoreContract: at most one
\* engine, launched while STARTING, running whenever STARTED is announced, and
\* gone before the next start begins from STOPPED (custom.go:35-174, 278-371).
THEOREM CoreImplementsContract ==
  ASSUME Careful
  PROVE  Spec => ImplementsContract
  <1>1. Init => Contract!Init
    BY DEF Init, Contract!Init
  <1>2. QED
    BY <1>1, EngineInvEver, PTL DEF Spec, ImplementsContract, Contract!Spec
=============================================================================
