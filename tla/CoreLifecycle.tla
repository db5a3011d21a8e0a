---------------------------- MODULE CoreLifecycle ----------------------------
(***************************************************************************)
(* The lifecycle of the core: Start, StartService, Stop, Restart,          *)
(* ServiceReload and StopAndAlert (v2/custom.go, v2/old_command_server.go) *)
(* over the package globals CoreState, Box, oldCommandServer and           *)
(* RostovVPNOptions.  No lock guards them: gRPC handlers, FFI exports and  *)
(* command-server goroutines may run at the same time.  A caller is one    *)
(* such goroutine; it advances one step per access to a shared global, so  *)
(* callers interleave between any two accesses.                            *)
(*                                                                         *)
(* A test "if p # nil { p.m() }" is one step: it is one load of p followed *)
(* by a call on the loaded value.  activeConfigPath is written and read    *)
(* back by the same statement pair and by nothing else, so it is folded    *)
(* into the request's source.                                              *)
(***************************************************************************)
EXTENDS Integers, FiniteSets

CONSTANTS Callers,    \* goroutines that call the core
          Instances,  \* BoxService objects (a pool: bounds those alive at once)
          Servers,    \* libbox.CommandServer objects (a pool, likewise)
          Requests,   \* the StartRequests clients send
          Ops,        \* the entry points clients use
          Faults,     \* the external calls that may fail
          Nil

StartOps   == {"Start", "StartService", "Restart"}
AllOps     == StartOps \cup {"Stop", "Reload", "GenerateConfig", "ChangeRostovVPNSettings"}
AllFaults  == {"read", "build", "server", "new", "start", "boxclose", "serverclose"}
AllRequests == [source : {"content", "path", "nopath"}, raw : BOOLEAN, server : BOOLEAN]

ASSUME CoreAssumption ==
  /\ Nil \notin Callers \cup Instances \cup Servers
  /\ Requests \subseteq AllRequests
  /\ Ops \subseteq AllOps
  /\ Faults \subseteq AllFaults

VARIABLES
  \* package globals
  CoreState, Box, oldCommandServer, RostovVPNOptions, tunnelServiceRunning,
  \* outside the process's own variables
  live,       \* instances whose engine runs
  open,       \* command servers that listen
  service,    \* the instance each command server serves
  \* per caller
  pc, op, req, instance, after,
  \* history: who runs alone, whether a call it depends on failed, how it
  \* ended; whether the last Stop gave up between STOPPING and STOPPED
  solo, fault, verdict, abandoned

ptrs    == <<Box, oldCommandServer>>
opts    == <<RostovVPNOptions, tunnelServiceRunning>>
status  == <<CoreState, abandoned>>
world   == <<live, open, service>>
shared  == <<ptrs, opts, status, world>>
frame   == <<op, req, instance, after, solo, verdict>>
vars    == <<shared, pc, frame, fault>>

-----------------------------------------------------------------------------
Stable       == {"STOPPED", "STARTED"}
Transitional == {"STARTING", "STOPPING"}
Responses    == {"ok", "failed", "recovered", "not_started", "not_found", "error"}
NoRequest    == [source |-> "nopath", raw |-> FALSE, server |-> FALSE]
NoVerdict    == [op |-> "none", req |-> NoRequest, resp |-> "ok", instance |-> Nil]

\* ServiceReload passes neither content nor a path.
ReloadRequest == [source |-> "nopath", raw |-> FALSE, server |-> TRUE]

\* The labels at which a caller still owes the core a stable status, and the rest.
Owing ==
  {"stop.tunnel", "stop.detach", "stop.close", "stop.clear", "stop.server", "stop.unserver",
   "stop.done", "reload.detach", "reload.unserver", "reload.close", "reload.clear",
   "svc.read", "svc.build", "svc.server", "svc.new", "svc.start", "svc.publish", "svc.prime",
   "svc.bind", "svc.started", "svc.fail", "alert.status", "panicked"}
Labels == Owing \cup
  {"idle", "start.check", "start.status", "restart.check", "restart.box", "stop.check",
   "stop.box", "stop.status", "reload.status", "alert.tunnel", "alert.detach", "alert.close",
   "alert.clear", "alert.server", "alert.done"}

TypeOK ==
  /\ CoreState \in Stable \cup Transitional
  /\ Box \in Instances \cup {Nil} /\ oldCommandServer \in Servers \cup {Nil}
  /\ RostovVPNOptions \in {"nil", "plain", "tun"} /\ tunnelServiceRunning \in BOOLEAN
  /\ live \subseteq Instances /\ open \subseteq Servers
  /\ service \in [Servers -> Instances \cup {Nil}]
  /\ pc \in [Callers -> Labels] /\ op \in [Callers -> AllOps \cup {"none"}]
  /\ req \in [Callers -> AllRequests] /\ instance \in [Callers -> Instances \cup {Nil}]
  /\ after \in [Callers -> {"none", "failed", "recovered", "stop"}]
  /\ solo \in Callers \cup {Nil} /\ fault \in BOOLEAN /\ abandoned \in BOOLEAN
  /\ verdict \in [op : AllOps \cup {"none"}, req : AllRequests,
                  resp : Responses, instance : Instances \cup {Nil}]

Init ==
  /\ CoreState = "STOPPED" /\ Box = Nil /\ oldCommandServer = Nil
  /\ RostovVPNOptions = "nil" /\ tunnelServiceRunning = FALSE
  /\ live = {} /\ open = {} /\ service = [s \in Servers |-> Nil]
  /\ pc = [c \in Callers |-> "idle"] /\ op = [c \in Callers |-> "none"]
  /\ req = [c \in Callers |-> NoRequest] /\ instance = [c \in Callers |-> Nil]
  /\ after = [c \in Callers |-> "none"]
  /\ solo = Nil /\ fault = FALSE /\ verdict = NoVerdict /\ abandoned = FALSE

-----------------------------------------------------------------------------
(* Steps shared by the operations.                                         *)

Step(c, from, to) == pc[c] = from /\ pc' = [pc EXCEPT ![c] = to]

\* A step that reads and changes nothing.
Pass(c, from, to) == Step(c, from, to) /\ UNCHANGED <<shared, frame, fault>>

SetCoreStatus(s) == CoreState' = s /\ abandoned' = FALSE

Announce(c, from, to, s) ==
  Step(c, from, to) /\ SetCoreStatus(s) /\ UNCHANGED <<ptrs, opts, world, frame, fault>>

\* A call a start depends on fails (noted for a caller that runs alone), or
\* does not.
Fails(f) == f \in Faults /\ fault' = (solo # Nil)
Holds    == UNCHANGED fault

\* A call returns to its client; one that ran alone leaves a verdict.
Return(c, r) ==
  /\ pc' = [pc EXCEPT ![c] = "idle"] /\ op' = [op EXCEPT ![c] = "none"]
  /\ req' = [req EXCEPT ![c] = NoRequest] /\ instance' = [instance EXCEPT ![c] = Nil]
  /\ after' = [after EXCEPT ![c] = "none"]
  /\ verdict' = IF solo = c
                THEN [op |-> op[c], req |-> req[c], resp |-> r, instance |-> instance[c]]
                ELSE verdict
  /\ UNCHANGED solo

\* Mutant: Start gives up when its Stop fails.
ResumesOnlyAfterSuccess(c, r) == op[c] \in {"Start", "Restart"} /\ r \in {"ok", "recovered"}

\* After Stop, Start goes on whatever the result; Restart unless there was an
\* error (a recovered panic returns nil, nil).
ResumesAfterStop(c, r) ==
  op[c] = "Start" \/ (op[c] = "Restart" /\ r \in {"ok", "recovered"})

StopReturn(c, r) ==
  \/ /\ ResumesAfterStop(c, r)
     /\ pc' = [pc EXCEPT ![c] = "start.status"]
     /\ after' = [after EXCEPT ![c] = "none"]
     /\ UNCHANGED <<op, req, instance, solo, verdict>>
  \/ ~ResumesAfterStop(c, r) /\ Return(c, r)

\* StopAndAlert begins; "a" says where its caller goes on afterwards.
Alert(c, a) ==
  /\ pc' = [pc EXCEPT ![c] = "alert.status"]
  /\ after' = [after EXCEPT ![c] = a]
  /\ UNCHANGED <<op, req, instance, solo, verdict>>

\* DeactivateTunnelService, as far as the core's flag goes.
Deactivate(c, from, to) ==
  /\ Step(c, from, to)
  /\ tunnelServiceRunning' = FALSE
  /\ UNCHANGED <<RostovVPNOptions, ptrs, status, world, frame, fault>>

\* if oldCommandServer != nil { oldCommandServer.SetService(nil) }
Detach(c, from, to) ==
  /\ Step(c, from, to)
  /\ service' = [s \in Servers |-> IF s = oldCommandServer THEN Nil ELSE service[s]]
  /\ UNCHANGED <<ptrs, opts, status, live, open, frame, fault>>

\* An engine's Close.  Closing one that does not run may fail; one whose
\* Close fails may run on.  The same for a command server.
CloseBox == live' = live \ {Box}
BoxCloseFails ==
  ("boxclose" \in Faults \/ Box \notin live) /\ live' \in {live, live \ {Box}}
CloseServer == open' = open \ {oldCommandServer}
ServerCloseFails ==
  /\ "serverclose" \in Faults \/ oldCommandServer \notin open
  /\ open' \in {open, open \ {oldCommandServer}}

\* if Box != nil { Box.Close() ...: the result is ignored.
CloseIgnored(c, from, to, skip) ==
  \/ /\ Box # Nil /\ (CloseBox \/ BoxCloseFails)
     /\ Step(c, from, to)
     /\ UNCHANGED <<ptrs, opts, status, open, service, frame, fault>>
  \/ Box = Nil /\ Pass(c, from, skip)

ClearBox(c, from, to) ==
  /\ Step(c, from, to)
  /\ Box' = Nil
  /\ UNCHANGED <<oldCommandServer, opts, status, world, frame, fault>>

\* oldCommandServer = nil, whether or not the server was closed.
ClearServer(c, from, to) ==
  /\ Step(c, from, to)
  /\ oldCommandServer' = Nil
  /\ UNCHANGED <<Box, opts, status, world, frame, fault>>

-----------------------------------------------------------------------------
(* Calls arrive.                                                           *)

Active == {d \in Callers : pc[d] # "idle"}
FreeInstances == Instances \ (live \cup {Box} \cup {instance[d] : d \in Callers})
FreeServers   == Servers \ (open \cup {oldCommandServer})

\* Bound: a start is admitted while both pools have room for it and for every
\* call in progress.
PoolRoom == /\ Cardinality(FreeInstances) > Cardinality(Active)
            /\ Cardinality(FreeServers) > Cardinality(Active)

Entry == [Start |-> "start.check", StartService |-> "svc.read", Restart |-> "restart.check",
          Stop |-> "stop.check", Reload |-> "reload.status"]

Invoke(c, o, r) ==
  /\ o \in StartOps => PoolRoom
  /\ o = "Reload" => open # {}   \* asked for by a client of a command server
  /\ Step(c, "idle", Entry[o])
  /\ op' = [op EXCEPT ![c] = o] /\ req' = [req EXCEPT ![c] = r]
  /\ solo' = IF Active = {} THEN c ELSE Nil
  /\ fault' = FALSE /\ verdict' = NoVerdict
  /\ UNCHANGED <<instance, after, shared>>

RequestsOf(o) == IF o \in StartOps THEN Requests
                 ELSE IF o = "Reload" THEN {ReloadRequest} ELSE {NoRequest}

\* Defaults first, then what the JSON sets.
ChangeRostovVPNSettings ==
  /\ "ChangeRostovVPNSettings" \in Ops
  /\ RostovVPNOptions' \in {"plain", "tun"}
  /\ UNCHANGED <<tunnelServiceRunning, ptrs, status, world, pc, frame, fault>>

\* BuildConfig, of GenerateConfig as of a start, on the options or on the
\* defaults: it activates the tunnel service if they ask for it.
BuildConfig ==
  LET options == IF RostovVPNOptions = "nil" THEN "plain" ELSE RostovVPNOptions
  IN  /\ RostovVPNOptions' = options
      /\ tunnelServiceRunning' = (tunnelServiceRunning \/ options = "tun")

GenerateConfig(c) ==
  /\ "GenerateConfig" \in Ops /\ pc[c] = "idle"
  /\ BuildConfig
  /\ solo' = Nil /\ fault' = FALSE /\ verdict' = NoVerdict
  /\ UNCHANGED <<ptrs, status, world, pc, op, req, instance, after>>

-----------------------------------------------------------------------------
(* Start and Restart up to StartService.                                   *)

\* Mutant: Start does not stop the instance that runs.
StartCheckSkips(c) == Pass(c, "start.check", "start.status")

StartCheck(c) ==
  Pass(c, "start.check", IF CoreState # "STOPPED" THEN "stop.check" ELSE "start.status")

RestartCheck(c) ==
  \/ CoreState = "STARTED" /\ Pass(c, "restart.check", "restart.box")
  \/ /\ pc[c] = "restart.check" /\ CoreState # "STARTED"
     /\ Return(c, "not_started") /\ UNCHANGED <<shared, fault>>

RestartBox(c) ==
  \/ Box # Nil /\ Pass(c, "restart.box", "stop.check")
  \/ /\ pc[c] = "restart.box" /\ Box = Nil
     /\ Return(c, "not_found") /\ UNCHANGED <<shared, fault>>

Begin(c) ==
  \/ StartCheck(c) \/ RestartCheck(c) \/ RestartBox(c)
  \/ Announce(c, "start.status", "svc.read", "STARTING")

-----------------------------------------------------------------------------
(* Stop.                                                                   *)

\* Mutant: STOPPING is announced before Box is looked at.
StopCheckAnnounces(c) ==
  \/ CoreState = "STARTED" /\ Announce(c, "stop.check", "stop.box", "STOPPING")
  \/ /\ pc[c] = "stop.check" /\ CoreState # "STARTED"
     /\ StopReturn(c, "not_started") /\ UNCHANGED <<shared, fault>>

StopCheck(c) ==
  \/ CoreState = "STARTED" /\ Pass(c, "stop.check", "stop.box")
  \/ /\ pc[c] = "stop.check" /\ CoreState # "STARTED"
     /\ StopReturn(c, "not_started") /\ UNCHANGED <<shared, fault>>

StopBox(c) ==
  \/ Box # Nil /\ Pass(c, "stop.box", "stop.status")
  \/ /\ pc[c] = "stop.box" /\ Box = Nil
     /\ StopReturn(c, "not_found") /\ UNCHANGED <<shared, fault>>

\* Mutant: STOPPING is not announced.
StopStatusForgets(c) == Pass(c, "stop.status", "stop.tunnel")

StopStatus(c) == Announce(c, "stop.status", "stop.tunnel", "STOPPING")

\* A Box that another caller cleared meanwhile is a nil dereference, which
\* the deferred handler turns into StopAndAlert.
StopClose(c) ==
  /\ pc[c] = "stop.close"
  /\ \/ /\ Box # Nil /\ CloseBox
        /\ pc' = [pc EXCEPT ![c] = "stop.clear"] /\ UNCHANGED <<frame, abandoned>>
     \/ /\ Box # Nil /\ BoxCloseFails
        /\ StopReturn(c, "error") /\ abandoned' = TRUE
     \/ Box = Nil /\ Alert(c, "stop") /\ UNCHANGED <<live, abandoned>>
  /\ UNCHANGED <<CoreState, ptrs, opts, open, service, fault>>

StopServer(c) ==
  \/ oldCommandServer = Nil /\ Pass(c, "stop.server", "stop.done")
  \/ /\ pc[c] = "stop.server" /\ oldCommandServer # Nil
     /\ \/ /\ CloseServer
           /\ pc' = [pc EXCEPT ![c] = "stop.unserver"] /\ UNCHANGED <<frame, abandoned>>
        \/ ServerCloseFails /\ StopReturn(c, "error") /\ abandoned' = TRUE
     /\ UNCHANGED <<CoreState, ptrs, opts, live, service, fault>>

StopDone(c) ==
  /\ pc[c] = "stop.done"
  /\ SetCoreStatus("STOPPED") /\ StopReturn(c, "ok")
  /\ UNCHANGED <<ptrs, opts, world, fault>>

Stop(c) ==
  \/ StopCheck(c) \/ StopBox(c) \/ StopStatus(c) \/ Deactivate(c, "stop.tunnel", "stop.detach")
  \/ Detach(c, "stop.detach", "stop.close") \/ StopClose(c)
  \/ ClearBox(c, "stop.clear", "stop.server")
  \/ StopServer(c) \/ ClearServer(c, "stop.unserver", "stop.done") \/ StopDone(c)

-----------------------------------------------------------------------------
(* ServiceReload, asked for through a command server, up to StartService.  *)

\* Mutant: STARTING is not announced.
ReloadStatusForgets(c) == Pass(c, "reload.status", "reload.detach")

ReloadStatus(c) == Announce(c, "reload.status", "reload.detach", "STARTING")

\* The command server is dropped without being closed.
Reload(c) ==
  \/ ReloadStatus(c)
  \/ Detach(c, "reload.detach",
            IF oldCommandServer # Nil THEN "reload.unserver" ELSE "reload.close")
  \/ ClearServer(c, "reload.unserver", "reload.close")
  \/ CloseIgnored(c, "reload.close", "reload.clear", "svc.read")
  \/ ClearBox(c, "reload.clear", "svc.read")

-----------------------------------------------------------------------------
(* StartService.                                                           *)

\* Read and parse the configuration; without a path the read fails.
SvcRead(c) ==
  \/ req[c].source # "nopath" /\ Pass(c, "svc.read", "svc.build")
  \/ req[c].source = "nopath" /\ Pass(c, "svc.read", "svc.fail")
  \/ Step(c, "svc.read", "svc.fail") /\ Fails("read") /\ UNCHANGED <<shared, frame>>

\* BuildConfig activates the tunnel service before the part of it that can
\* fail.
SvcBuild(c) ==
  \/ req[c].raw /\ Pass(c, "svc.build", "svc.server")
  \/ /\ ~req[c].raw /\ BuildConfig
     /\ \/ Step(c, "svc.build", "svc.server") /\ Holds
        \/ Step(c, "svc.build", "svc.fail") /\ Fails("build")
     /\ UNCHANGED <<ptrs, status, world, frame>>

\* startCommandServer: the global is overwritten, whatever it held, and
\* stays set when the new server cannot listen.
SvcServer(c) ==
  \/ ~req[c].server /\ Pass(c, "svc.server", "svc.new")
  \/ /\ req[c].server
     /\ \E s \in FreeServers :
          /\ oldCommandServer' = s
          /\ service' = [service EXCEPT ![s] = Nil]
          /\ \/ Step(c, "svc.server", "svc.new") /\ open' = open \cup {s} /\ Holds
             \/ Step(c, "svc.server", "svc.fail") /\ Fails("server") /\ UNCHANGED open
     /\ UNCHANGED <<Box, opts, status, live, frame>>

\* Mutant: the new instance is not kept.
SvcNewForgets(c) == Pass(c, "svc.new", "svc.start")

SvcNew(c) ==
  /\ \/ /\ Step(c, "svc.new", "svc.start") /\ Holds
        /\ \E i \in FreeInstances : instance' = [instance EXCEPT ![c] = i]
     \/ Step(c, "svc.new", "svc.fail") /\ Fails("new") /\ UNCHANGED instance
  /\ UNCHANGED <<shared, op, req, after, solo, verdict>>

SvcStart(c) ==
  /\ \/ Step(c, "svc.start", "svc.publish") /\ live' = live \cup {instance[c]} /\ Holds
     \/ Step(c, "svc.start", "svc.fail") /\ Fails("start") /\ UNCHANGED live
  /\ UNCHANGED <<ptrs, opts, status, open, service, frame>>

\* Box = instance: the engine Box held before is forgotten, not closed.
SvcPublish(c) ==
  /\ Step(c, "svc.publish", IF req[c].server THEN "svc.prime" ELSE "svc.started")
  /\ Box' = instance[c]
  /\ UNCHANGED <<oldCommandServer, opts, status, world, frame, fault>>

\* primeClashServerAfterStart(Box, RostovVPNOptions.ClashApiPort) panics on a
\* nil Box or nil options; Start and Restart recover, the others do not.
SvcPrime(c) ==
  LET dereferences == Box # Nil /\ RostovVPNOptions # "nil"
      recovers     == op[c] \in {"Start", "Restart"}
  IN  \/ dereferences /\ \E to \in {"svc.bind", "svc.started"} : Pass(c, "svc.prime", to)
      \/ ~dereferences /\ ~recovers /\ Pass(c, "svc.prime", "panicked")
      \/ /\ pc[c] = "svc.prime" /\ ~dereferences /\ recovers
         /\ Alert(c, "recovered") /\ UNCHANGED <<shared, fault>>

\* safeSetCommandService(oldCommandServer, Box), the globals read anew; a
\* panic in it is swallowed and binds nothing.
SvcBind(c) ==
  /\ Step(c, "svc.bind", "svc.started")
  /\ \/ service' = [s \in Servers |-> IF s = oldCommandServer THEN Box ELSE service[s]]
     \/ UNCHANGED service
  /\ UNCHANGED <<ptrs, opts, status, live, open, frame, fault>>

SvcStarted(c) ==
  /\ pc[c] = "svc.started"
  /\ SetCoreStatus("STARTED") /\ Return(c, "ok")
  /\ UNCHANGED <<ptrs, opts, world, fault>>

\* Mutant: an error path returns without a status or a clean-up.
SvcFailSilent(c) == pc[c] = "svc.fail" /\ Return(c, "failed") /\ UNCHANGED <<shared, fault>>

\* Every error path: the cause is announced, then StopAndAlert runs.
SvcFail(c) ==
  /\ pc[c] = "svc.fail"
  /\ SetCoreStatus("STOPPED") /\ Alert(c, "failed")
  /\ UNCHANGED <<ptrs, opts, world, fault>>

StartService(c) ==
  \/ SvcRead(c) \/ SvcBuild(c) \/ SvcServer(c) \/ SvcNew(c) \/ SvcStart(c)
  \/ SvcPublish(c) \/ SvcPrime(c) \/ SvcBind(c) \/ SvcStarted(c) \/ SvcFail(c)

-----------------------------------------------------------------------------
(* StopAndAlert, and a panic nothing recovers.                             *)

\* The server is closed, the global still points at it.
AlertServer(c) ==
  \/ oldCommandServer = Nil /\ Pass(c, "alert.server", "alert.done")
  \/ /\ oldCommandServer # Nil /\ (CloseServer \/ ServerCloseFails)
     /\ Step(c, "alert.server", "alert.done")
     /\ UNCHANGED <<ptrs, opts, status, live, service, frame, fault>>

AlertDone(c) ==
  /\ pc[c] = "alert.done"
  /\ \/ after[c] = "stop" /\ StopReturn(c, "recovered")
     \/ after[c] # "stop" /\ Return(c, after[c])
  /\ UNCHANGED <<shared, fault>>

StopAndAlert(c) ==
  \/ Announce(c, "alert.status", "alert.tunnel", "STOPPED")
  \/ Deactivate(c, "alert.tunnel", "alert.detach")
  \/ Detach(c, "alert.detach", "alert.close")
  \/ CloseIgnored(c, "alert.close", "alert.clear", "alert.server")
  \/ ClearBox(c, "alert.clear", "alert.server")
  \/ AlertServer(c) \/ AlertDone(c)

\* The process dies and is launched anew.
Crash(c) ==
  /\ pc[c] = "panicked"
  /\ CoreState' = "STOPPED" /\ Box' = Nil /\ oldCommandServer' = Nil
  /\ RostovVPNOptions' = "nil" /\ tunnelServiceRunning' = FALSE
  /\ live' = {} /\ open' = {} /\ service' = [s \in Servers |-> Nil]
  /\ pc' = [d \in Callers |-> "idle"] /\ op' = [d \in Callers |-> "none"]
  /\ req' = [d \in Callers |-> NoRequest] /\ instance' = [d \in Callers |-> Nil]
  /\ after' = [d \in Callers |-> "none"]
  /\ solo' = Nil /\ fault' = FALSE /\ verdict' = NoVerdict /\ abandoned' = FALSE

-----------------------------------------------------------------------------
Advance(c) ==
  Begin(c) \/ Stop(c) \/ Reload(c) \/ StartService(c) \/ StopAndAlert(c) \/ Crash(c)

Next ==
  \/ \E c \in Callers, o \in Ops \cap DOMAIN Entry : \E r \in RequestsOf(o) : Invoke(c, o, r)
  \/ \E c \in Callers : GenerateConfig(c) \/ Advance(c)
  \/ ChangeRostovVPNSettings

Spec == Init /\ [][Next]_vars

\* A goroutine that has a step to take takes it.
FairSpec == Spec /\ \A c \in Callers : WF_vars(Advance(c))

-----------------------------------------------------------------------------
(* Properties.                                                             *)

\* However calls interleave, the core is STARTING or STOPPING only while some
\* call is on its way to STARTED or STOPPED; only a Stop whose Close failed
\* leaves it there (custom.go:310-327, where the state would block every
\* later Stop and Restart).
NoOrphanTransition ==
  CoreState \in Transitional => abandoned \/ \E c \in Callers : pc[c] \in Owing

\* A start that ran alone, after whatever calls raced before it, ends either
\* STARTED on the engine it created, which runs, or STOPPED with no engine
\* published, the tunnel service off and no command server left serving
\* (custom.go:85-174 and StopAndAlert's cleanup of every failed step).
SoloStart ==
  /\ verdict.op \in StartOps /\ verdict.resp = "ok" =>
       CoreState = "STARTED" /\ Box = verdict.instance /\ Box \in live
  /\ verdict.op \in StartOps /\ verdict.resp \in {"failed", "recovered"} =>
       /\ CoreState = "STOPPED" /\ Box = Nil /\ ~tunnelServiceRunning
       /\ oldCommandServer # Nil => service[oldCommandServer] = Nil

\* Start is the way out of every state racing or failing calls can leave: run
\* alone, with a readable configuration and no failure in StartService, it
\* succeeds even if the Stop it begins with fails (custom.go:66-77).  A raw
\* request that wants a command server is left out: it builds no options, and
\* panics where they are read unless they were set before (164).
SoloStartRecovers ==
  verdict.op = "Start" /\ ~fault /\ verdict.req.source # "nopath"
    /\ ~(verdict.req.raw /\ verdict.req.server)
  => verdict.resp = "ok"

\* A Stop that ran alone never panics; its success means no engine, no
\* command server and no tunnel service; each refusal or error says what the
\* core was left in (custom.go:282-332).
SoloStop ==
  verdict.op = "Stop" =>
    \/ /\ verdict.resp = "ok" /\ CoreState = "STOPPED"
       /\ Box = Nil /\ oldCommandServer = Nil /\ ~tunnelServiceRunning
    \/ verdict.resp = "not_started" /\ CoreState # "STARTED"
    \/ verdict.resp = "not_found" /\ CoreState = "STARTED" /\ Box = Nil
    \/ verdict.resp = "error" /\ CoreState = "STOPPING" /\ ~tunnelServiceRunning

\* A transition that no failed Close abandoned comes to an end.
TransitionEnds ==
  CoreState \in Transitional ~> (CoreState \in Stable \/ abandoned)

\* While calls do not overlap, STARTED is never announced over an engine that
\* does not run, at any step of any operation (custom.go:35-45, 162-172,
\* 303-318: the order of the status, the Close and the pointer).
StartedMeansRunning ==
  CoreState = "STARTED" => Box \in live

\* While calls do not overlap, nobody calls StartService directly and no
\* engine's Close fails, every running engine is the published one or the one
\* about to be.
NoLeakedEngine ==
  live \subseteq {Box} \cup {instance[c] : c \in Callers}

\* Under the same conditions a command server never serves an engine that was
\* closed: SetService(nil) precedes Close on every path.
NoServiceAfterClose ==
  \A s \in Servers : service[s] # Nil => service[s] \in live

\* While calls do not overlap (and under the same conditions) the core keeps
\* its contract: one engine, running whenever STARTED is announced.
Contract == INSTANCE CoreContract WITH Engines <- Instances, state <- CoreState, running <- live
ImplementsContract == Contract!Spec

\* A reload of a service that runs, with nothing failing, keeps it running.
ReloadKeepsService ==
  verdict.op = "Reload" /\ ~fault => verdict.resp = "ok"
=============================================================================
