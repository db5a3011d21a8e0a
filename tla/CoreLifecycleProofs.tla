-------------------------- MODULE CoreLifecycleProofs --------------------------
(***************************************************************************)
(* Proofs about CoreLifecycle, for every set of callers, pool and set of   *)
(* faults.                                                                 *)
(***************************************************************************)
EXTENDS CoreLifecycle, TLAPS

\* What TypeOK needs to be inductive: a caller that starts or publishes an
\* engine has created it, and one inside StopAndAlert knows where to go on.
AlertLabels == {"alert.status", "alert.tunnel", "alert.detach", "alert.close", "alert.clear",
                "alert.server", "alert.done"}
FrameOK ==
  \A c \in Callers :
    /\ pc[c] \in {"svc.start", "svc.publish"} => instance[c] \in Instances
    /\ pc[c] \in AlertLabels => after[c] \in {"failed", "recovered", "stop"}
CoreInv == TypeOK /\ FrameOK

-----------------------------------------------------------------------------
(* The shared steps preserve CoreInv.                                      *)

\* A step that moves one caller to a label with no obligation of its own, or
\* between labels whose obligation it already met, and keeps the frame.
LEMMA MoveKeepsFrame ==
  ASSUME CoreInv, NEW c \in Callers, NEW from \in Labels, NEW to \in Labels,
         Step(c, from, to), UNCHANGED <<instance, after>>,
         to \in {"svc.start", "svc.publish"} => from \in {"svc.start", "svc.publish"},
         to \in AlertLabels => from \in AlertLabels
  PROVE  FrameOK' /\ pc' \in [Callers -> Labels]
  BY DEF CoreInv, TypeOK, FrameOK, Step

\* A step that changes nothing but its caller's label (Pass).
LEMMA PassKeeps ==
  ASSUME CoreInv, NEW c \in Callers, NEW from \in Labels, NEW to \in Labels,
         Pass(c, from, to),
         to \in {"svc.start", "svc.publish"} => from \in {"svc.start", "svc.publish"},
         to \in AlertLabels => from \in AlertLabels
  PROVE  CoreInv'
  <1>1. FrameOK' /\ pc' \in [Callers -> Labels]
    BY MoveKeepsFrame DEF Pass, frame
  <1>2. QED
    BY <1>1 DEF CoreInv, TypeOK, Pass, shared, ptrs, opts, status, world, frame

\* SetCoreStatus, as a step (Announce).
LEMMA AnnounceKeeps ==
  ASSUME CoreInv, NEW c \in Callers, NEW from \in Labels, NEW to \in Labels,
         NEW s \in Stable \cup Transitional, Announce(c, from, to, s),
         to \in {"svc.start", "svc.publish"} => from \in {"svc.start", "svc.publish"},
         to \in AlertLabels => from \in AlertLabels
  PROVE  CoreInv'
  <1>1. FrameOK' /\ pc' \in [Callers -> Labels]
    BY MoveKeepsFrame DEF Announce, frame
  <1>2. QED
    BY <1>1 DEF CoreInv, TypeOK, Announce, SetCoreStatus, ptrs, opts, world, frame

\* A call that returns to its client keeps everything a caller owns in type.
LEMMA ReturnKeeps ==
  ASSUME CoreInv, NEW c \in Callers, NEW r \in Responses, Return(c, r)
  PROVE  /\ FrameOK' /\ pc' \in [Callers -> Labels]
         /\ op' \in [Callers -> AllOps \cup {"none"}]
         /\ req' \in [Callers -> AllRequests]
         /\ instance' \in [Callers -> Instances \cup {Nil}]
         /\ after' \in [Callers -> {"none", "failed", "recovered", "stop"}]
         /\ solo' \in Callers \cup {Nil}
         /\ verdict' \in [op : AllOps \cup {"none"}, req : AllRequests,
                          resp : Responses, instance : Instances \cup {Nil}]
  <1>1. NoRequest \in AllRequests
    BY DEF NoRequest, AllRequests
  <1>2. "idle" \in Labels /\ "idle" \notin AlertLabels
    BY DEF Labels, Owing, AlertLabels
  <1>3. FrameOK'
    BY <1>2 DEF CoreInv, TypeOK, FrameOK, Return
  <1>4. QED
    BY <1>1, <1>2, <1>3 DEF CoreInv, TypeOK, Return

\* So does a Stop that returns, to a client or to the Start or Restart it serves.
LEMMA StopReturnKeeps ==
  ASSUME CoreInv, NEW c \in Callers, NEW r \in Responses, StopReturn(c, r)
  PROVE  /\ FrameOK' /\ pc' \in [Callers -> Labels]
         /\ op' \in [Callers -> AllOps \cup {"none"}]
         /\ req' \in [Callers -> AllRequests]
         /\ instance' \in [Callers -> Instances \cup {Nil}]
         /\ after' \in [Callers -> {"none", "failed", "recovered", "stop"}]
         /\ solo' \in Callers \cup {Nil}
         /\ verdict' \in [op : AllOps \cup {"none"}, req : AllRequests,
                          resp : Responses, instance : Instances \cup {Nil}]
  <1>1. CASE Return(c, r)
    BY <1>1, ReturnKeeps
  <1>2. CASE ~Return(c, r)
    <2>1. "start.status" \in Labels /\ "start.status" \notin AlertLabels
      BY DEF Labels, Owing, AlertLabels
    <2>2. QED
      BY <1>2, <2>1 DEF StopReturn, CoreInv, TypeOK, FrameOK
  <1>3. QED
    BY <1>1, <1>2

\* So does a call that goes into StopAndAlert.
LEMMA AlertKeeps ==
  ASSUME CoreInv, NEW c \in Callers, NEW a \in {"failed", "recovered", "stop"}, Alert(c, a)
  PROVE  /\ FrameOK' /\ pc' \in [Callers -> Labels]
         /\ after' \in [Callers -> {"none", "failed", "recovered", "stop"}]
  <1>1. "alert.status" \in Labels /\ "alert.status" \notin {"svc.start", "svc.publish"}
    BY DEF Labels, Owing
  <1>2. QED
    BY <1>1 DEF CoreInv, TypeOK, FrameOK, Alert

\* DeactivateTunnelService, as a step.
LEMMA DeactivateKeeps ==
  ASSUME CoreInv, NEW c \in Callers, NEW from \in Labels, NEW to \in Labels,
         Deactivate(c, from, to),
         to \in {"svc.start", "svc.publish"} => from \in {"svc.start", "svc.publish"},
         to \in AlertLabels => from \in AlertLabels
  PROVE  CoreInv'
  <1>1. FrameOK' /\ pc' \in [Callers -> Labels]
    BY MoveKeepsFrame DEF Deactivate, frame
  <1>2. QED
    BY <1>1 DEF CoreInv, TypeOK, Deactivate, ptrs, status, world, frame

\* SetService(nil) on the published command server, as a step.
LEMMA DetachKeeps ==
  ASSUME CoreInv, NEW c \in Callers, NEW from \in Labels, NEW to \in Labels,
         Detach(c, from, to),
         to \in {"svc.start", "svc.publish"} => from \in {"svc.start", "svc.publish"},
         to \in AlertLabels => from \in AlertLabels
  PROVE  CoreInv'
  <1>1. FrameOK' /\ pc' \in [Callers -> Labels]
    BY MoveKeepsFrame DEF Detach, frame
  <1>2. service' \in [Servers -> Instances \cup {Nil}]
    BY DEF Detach, CoreInv, TypeOK
  <1>3. QED
    BY <1>1, <1>2 DEF CoreInv, TypeOK, Detach, ptrs, opts, status, frame

\* A Close whose result is ignored, as a step.
LEMMA CloseIgnoredKeeps ==
  ASSUME CoreInv, NEW c \in Callers, NEW from \in Labels, NEW to \in Labels,
         NEW skip \in Labels, CloseIgnored(c, from, to, skip),
         {to, skip} \cap {"svc.start", "svc.publish"} = {},
         to \in AlertLabels => from \in AlertLabels,
         skip \in AlertLabels => from \in AlertLabels
  PROVE  CoreInv'
  <1>1. CASE Pass(c, from, skip)
    BY <1>1, PassKeeps
  <1>2. CASE ~Pass(c, from, skip)
    <2>1. FrameOK' /\ pc' \in [Callers -> Labels]
      BY <1>2, MoveKeepsFrame DEF CloseIgnored, frame
    <2>2. live' \subseteq Instances
      BY <1>2 DEF CloseIgnored, CloseBox, BoxCloseFails, CoreInv, TypeOK
    <2>3. QED
      BY <1>2, <2>1, <2>2 DEF CoreInv, TypeOK, CloseIgnored, ptrs, opts, status, frame
  <1>3. QED
    BY <1>1, <1>2

\* Box = nil and oldCommandServer = nil, as steps.
LEMMA ClearKeeps ==
  ASSUME CoreInv, NEW c \in Callers, NEW from \in Labels, NEW to \in Labels,
         ClearBox(c, from, to) \/ ClearServer(c, from, to),
         to \in {"svc.start", "svc.publish"} => from \in {"svc.start", "svc.publish"},
         to \in AlertLabels => from \in AlertLabels
  PROVE  CoreInv'
  <1>1. FrameOK' /\ pc' \in [Callers -> Labels]
    BY MoveKeepsFrame DEF ClearBox, ClearServer, frame
  <1>2. QED
    BY <1>1 DEF CoreInv, TypeOK, ClearBox, ClearServer, opts, status, world, frame

-----------------------------------------------------------------------------
(* Each operation preserves CoreInv.                                       *)

\* A call arrives, or one that is a single step runs.
LEMMA ArrivalKeeps ==
  ASSUME CoreInv, CoreAssumption
  PROVE  /\ \A c \in Callers, o \in Ops \cap DOMAIN Entry :
              \A r \in RequestsOf(o) : Invoke(c, o, r) => CoreInv'
         /\ \A c \in Callers : GenerateConfig(c) => CoreInv'
         /\ ChangeRostovVPNSettings => CoreInv'
  <1>1. ASSUME NEW c \in Callers, NEW o \in Ops \cap DOMAIN Entry, NEW r \in RequestsOf(o),
               Invoke(c, o, r)
        PROVE  CoreInv'
    <2>1. r \in AllRequests
      <3>1. ReloadRequest \in AllRequests /\ NoRequest \in AllRequests
        BY DEF AllRequests, ReloadRequest, NoRequest
      <3>2. r \in Requests \/ r = ReloadRequest \/ r = NoRequest
        BY DEF RequestsOf
      <3>3. QED
        BY <3>1, <3>2 DEF CoreAssumption
    <2>2. Entry[o] \in {"start.check", "svc.read", "restart.check", "stop.check", "reload.status"}
      BY DEF Entry
    <2>3. Entry[o] \in Labels /\ Entry[o] \notin {"svc.start", "svc.publish"} \cup AlertLabels
      BY <2>2 DEF Labels, Owing, AlertLabels
    <2>4. FrameOK' /\ pc' \in [Callers -> Labels]
      BY <1>1, <2>3 DEF Invoke, Step, CoreInv, TypeOK, FrameOK
    <2>5. verdict' \in [op : AllOps \cup {"none"}, req : AllRequests,
                        resp : Responses, instance : Instances \cup {Nil}]
      BY <1>1 DEF Invoke, NoVerdict, NoRequest, AllRequests, Responses
    <2>6. QED
      BY <1>1, <2>1, <2>4, <2>5 DEF Invoke, CoreAssumption, CoreInv, TypeOK,
         shared, ptrs, opts, status, world
  <1>2. ASSUME NEW c \in Callers, GenerateConfig(c) PROVE CoreInv'
    <2>1. verdict' \in [op : AllOps \cup {"none"}, req : AllRequests,
                        resp : Responses, instance : Instances \cup {Nil}]
      BY <1>2 DEF GenerateConfig, NoVerdict, NoRequest, AllRequests, Responses
    <2>2. FrameOK'
      BY <1>2 DEF GenerateConfig, CoreInv, FrameOK
    <2>3. QED
      BY <1>2, <2>1, <2>2 DEF GenerateConfig, BuildConfig, CoreInv, TypeOK,
         ptrs, status, world
  <1>3. ASSUME ChangeRostovVPNSettings PROVE CoreInv'
    BY <1>3 DEF ChangeRostovVPNSettings, CoreInv, TypeOK, FrameOK,
       ptrs, status, world, frame
  <1>4. QED
    BY <1>1, <1>2, <1>3

\* Start and Restart up to StartService.
LEMMA BeginKeeps ==
  ASSUME CoreInv, NEW c \in Callers, Begin(c)
  PROVE  CoreInv'
  <1> USE DEF Labels, Owing, AlertLabels
  <1>1. CASE StartCheck(c)
    BY <1>1, PassKeeps DEF StartCheck
  <1>2. ASSUME NEW r \in Responses, Return(c, r), UNCHANGED <<shared, fault>>
        PROVE  CoreInv'
    BY <1>2, ReturnKeeps DEF CoreInv, TypeOK, shared, ptrs, opts, status, world
  <1>3. CASE RestartCheck(c)
    BY <1>2, <1>3, PassKeeps DEF RestartCheck, Responses
  <1>4. CASE RestartBox(c)
    BY <1>2, <1>4, PassKeeps DEF RestartBox, Responses
  <1>5. CASE Announce(c, "start.status", "svc.read", "STARTING")
    BY <1>5, AnnounceKeeps DEF Stable, Transitional
  <1>6. QED
    BY <1>1, <1>3, <1>4, <1>5 DEF Begin

\* Stop, every way it may go.
LEMMA StopKeeps ==
  ASSUME CoreInv, NEW c \in Callers, Stop(c)
  PROVE  CoreInv'
  <1> USE DEF Labels, Owing, AlertLabels
  <1>1. ASSUME NEW r \in Responses, StopReturn(c, r), live' \subseteq Instances,
               open' \subseteq Servers, CoreState' \in Stable \cup Transitional,
               abandoned' \in BOOLEAN, UNCHANGED <<ptrs, opts, service, fault>>
        PROVE  CoreInv'
    BY <1>1, StopReturnKeeps DEF CoreInv, TypeOK, ptrs, opts
  <1>2. CASE StopCheck(c)
    BY <1>1, <1>2, PassKeeps
    DEF StopCheck, Responses, CoreInv, TypeOK, shared, status, world
  <1>3. CASE StopBox(c)
    BY <1>1, <1>3, PassKeeps
    DEF StopBox, Responses, CoreInv, TypeOK, shared, status, world
  <1>4. CASE StopStatus(c)
    BY <1>4, AnnounceKeeps DEF StopStatus, Stable, Transitional
  <1>5. CASE Deactivate(c, "stop.tunnel", "stop.detach")
    BY <1>5, DeactivateKeeps
  <1>6. CASE Detach(c, "stop.detach", "stop.close")
    BY <1>6, DetachKeeps
  <1>7. CASE StopClose(c)
    <2>1. live' \subseteq Instances /\ open' \subseteq Servers
      BY <1>7 DEF StopClose, CloseBox, BoxCloseFails, CoreInv, TypeOK
    <2>2. CASE StopReturn(c, "error") /\ abandoned' = TRUE
      BY <1>1, <1>7, <2>1, <2>2 DEF StopClose, CoreInv, TypeOK, Responses
    <2>3. CASE Alert(c, "stop") /\ UNCHANGED abandoned
      <3>1. /\ FrameOK' /\ pc' \in [Callers -> Labels]
            /\ after' \in [Callers -> {"none", "failed", "recovered", "stop"}]
        BY <2>3, AlertKeeps
      <3>2. QED
        BY <1>7, <2>1, <2>3, <3>1 DEF StopClose, Alert, CoreInv, TypeOK, ptrs, opts
    <2>4. CASE pc' = [pc EXCEPT ![c] = "stop.clear"] /\ UNCHANGED <<frame, abandoned>>
      BY <1>7, <2>1, <2>4 DEF StopClose, CoreInv, TypeOK, FrameOK, frame, ptrs, opts
    <2>5. QED
      BY <1>7, <2>2, <2>3, <2>4 DEF StopClose
  <1>8. CASE ClearBox(c, "stop.clear", "stop.server")
    BY <1>8, ClearKeeps
  <1>9. CASE StopServer(c)
    <2>1. CASE Pass(c, "stop.server", "stop.done")
      BY <2>1, PassKeeps
    <2>2. CASE ~Pass(c, "stop.server", "stop.done")
      <3>1. live' \subseteq Instances /\ open' \subseteq Servers
        BY <1>9, <2>2 DEF StopServer, CloseServer, ServerCloseFails, CoreInv, TypeOK
      <3>2. CASE StopReturn(c, "error") /\ abandoned' = TRUE
        BY <1>1, <1>9, <2>2, <3>1, <3>2 DEF StopServer, CoreInv, TypeOK, Responses
      <3>3. CASE pc' = [pc EXCEPT ![c] = "stop.unserver"] /\ UNCHANGED <<frame, abandoned>>
        BY <1>9, <2>2, <3>1, <3>3
        DEF StopServer, CoreInv, TypeOK, FrameOK, frame, ptrs, opts
      <3>4. QED
        BY <1>9, <2>2, <3>2, <3>3 DEF StopServer
    <2>3. QED
      BY <2>1, <2>2
  <1>10. CASE ClearServer(c, "stop.unserver", "stop.done")
    BY <1>10, ClearKeeps
  <1>11. CASE StopDone(c)
    BY <1>1, <1>11
    DEF StopDone, SetCoreStatus, Stable, Responses, CoreInv, TypeOK, world
  <1>12. QED
    BY <1>2, <1>3, <1>4, <1>5, <1>6, <1>7, <1>8, <1>9, <1>10, <1>11 DEF Stop

\* ServiceReload up to StartService.
LEMMA ReloadKeeps ==
  ASSUME CoreInv, NEW c \in Callers, Reload(c)
  PROVE  CoreInv'
  <1> USE DEF Labels, Owing, AlertLabels
  <1>1. CASE ReloadStatus(c)
    BY <1>1, AnnounceKeeps DEF ReloadStatus, Stable, Transitional
  <1>2. CASE Detach(c, "reload.detach",
               IF oldCommandServer # Nil THEN "reload.unserver" ELSE "reload.close")
    BY <1>2, DetachKeeps
  <1>3. CASE ClearServer(c, "reload.unserver", "reload.close")
    BY <1>3, ClearKeeps
  <1>4. CASE CloseIgnored(c, "reload.close", "reload.clear", "svc.read")
    BY <1>4, CloseIgnoredKeeps
  <1>5. CASE ClearBox(c, "reload.clear", "svc.read")
    BY <1>5, ClearKeeps
  <1>6. QED
    BY <1>1, <1>2, <1>3, <1>4, <1>5 DEF Reload

\* StopAndAlert.
LEMMA StopAndAlertKeeps ==
  ASSUME CoreInv, NEW c \in Callers, StopAndAlert(c)
  PROVE  CoreInv'
  <1> USE DEF Labels, Owing, AlertLabels
  <1>1. CASE Announce(c, "alert.status", "alert.tunnel", "STOPPED")
    BY <1>1, AnnounceKeeps DEF Stable
  <1>2. CASE Deactivate(c, "alert.tunnel", "alert.detach")
    BY <1>2, DeactivateKeeps
  <1>3. CASE Detach(c, "alert.detach", "alert.close")
    BY <1>3, DetachKeeps
  <1>4. CASE CloseIgnored(c, "alert.close", "alert.clear", "alert.server")
    BY <1>4, CloseIgnoredKeeps
  <1>5. CASE ClearBox(c, "alert.clear", "alert.server")
    BY <1>5, ClearKeeps
  <1>6. CASE AlertServer(c)
    <2>1. CASE Pass(c, "alert.server", "alert.done")
      BY <2>1, PassKeeps
    <2>2. CASE ~Pass(c, "alert.server", "alert.done")
      <3>1. FrameOK' /\ pc' \in [Callers -> Labels]
        BY <1>6, <2>2, MoveKeepsFrame DEF AlertServer, frame
      <3>2. open' \subseteq Servers
        BY <1>6, <2>2 DEF AlertServer, CloseServer, ServerCloseFails, CoreInv, TypeOK
      <3>3. QED
        BY <1>6, <2>2, <3>1, <3>2
        DEF AlertServer, CoreInv, TypeOK, frame, ptrs, opts, status
    <2>3. QED
      BY <2>1, <2>2
  <1>7. CASE AlertDone(c)
    <2>1. after[c] \in {"failed", "recovered", "stop"}
      BY <1>7 DEF AlertDone, CoreInv, FrameOK
    <2>2. PICK r \in Responses : StopReturn(c, r) \/ Return(c, r)
      BY <1>7, <2>1 DEF AlertDone, Responses
    <2>3. QED
      BY <1>7, <2>2, StopReturnKeeps, ReturnKeeps
      DEF AlertDone, CoreInv, TypeOK, shared, ptrs, opts, status, world
  <1>8. QED
    BY <1>1, <1>2, <1>3, <1>4, <1>5, <1>6, <1>7 DEF StopAndAlert

\* StartService.
LEMMA StartServiceKeeps ==
  ASSUME CoreInv, NEW c \in Callers, StartService(c)
  PROVE  CoreInv'
  <1> USE DEF Labels, Owing, AlertLabels
  <1>1. CASE SvcRead(c)
    <2>1. CASE \E to \in {"svc.build", "svc.fail"} : Pass(c, "svc.read", to)
      BY <2>1, PassKeeps
    <2>2. CASE Step(c, "svc.read", "svc.fail") /\ Fails("read") /\ UNCHANGED <<shared, frame>>
      <3>1. FrameOK' /\ pc' \in [Callers -> Labels]
        BY <2>2, MoveKeepsFrame DEF frame
      <3>2. QED
        BY <2>2, <3>1 DEF Fails, CoreInv, TypeOK, shared, ptrs, opts, status, world, frame
    <2>3. QED
      BY <1>1, <2>1, <2>2 DEF SvcRead
  <1>2. CASE SvcBuild(c)
    <2>1. CASE Pass(c, "svc.build", "svc.server")
      BY <2>1, PassKeeps
    <2>2. CASE ~Pass(c, "svc.build", "svc.server")
      <3>1. FrameOK' /\ pc' \in [Callers -> Labels]
        BY <1>2, <2>2, MoveKeepsFrame DEF SvcBuild, frame
      <3>2. fault' \in BOOLEAN
        BY <1>2, <2>2 DEF SvcBuild, Holds, Fails, CoreInv, TypeOK
      <3>3. RostovVPNOptions' \in {"nil", "plain", "tun"} /\ tunnelServiceRunning' \in BOOLEAN
        BY <1>2, <2>2 DEF SvcBuild, BuildConfig, CoreInv, TypeOK
      <3>4. QED
        BY <1>2, <2>2, <3>1, <3>2, <3>3
        DEF SvcBuild, CoreInv, TypeOK, ptrs, status, world, frame
    <2>3. QED
      BY <2>1, <2>2
  <1>3. CASE SvcServer(c)
    <2>1. CASE Pass(c, "svc.server", "svc.new")
      BY <2>1, PassKeeps
    <2>2. CASE ~Pass(c, "svc.server", "svc.new")
      <3>1. PICK s \in FreeServers :
              /\ oldCommandServer' = s
              /\ service' = [service EXCEPT ![s] = Nil]
              /\ \/ Step(c, "svc.server", "svc.new") /\ open' = open \cup {s} /\ Holds
                 \/ Step(c, "svc.server", "svc.fail") /\ Fails("server") /\ UNCHANGED open
        BY <1>3, <2>2 DEF SvcServer
      <3>2. UNCHANGED <<Box, opts, status, live, frame>>
        BY <1>3, <2>2 DEF SvcServer
      <3>3. s \in Servers
        BY DEF FreeServers
      <3>4. FrameOK' /\ pc' \in [Callers -> Labels]
        BY <3>1, <3>2, MoveKeepsFrame DEF frame
      <3>5. /\ oldCommandServer' \in Servers \cup {Nil} /\ open' \subseteq Servers
            /\ service' \in [Servers -> Instances \cup {Nil}] /\ fault' \in BOOLEAN
        BY <3>1, <3>3 DEF Holds, Fails, CoreInv, TypeOK
      <3>6. QED
        BY <3>2, <3>4, <3>5 DEF CoreInv, TypeOK, opts, status, frame
    <2>3. QED
      BY <2>1, <2>2
  <1>4. CASE SvcNew(c)
    <2>1. fault' \in BOOLEAN
      BY <1>4 DEF SvcNew, Holds, Fails, CoreInv, TypeOK
    <2>2. FrameOK' /\ pc' \in [Callers -> Labels]
          /\ instance' \in [Callers -> Instances \cup {Nil}]
      BY <1>4 DEF SvcNew, Step, FreeInstances, CoreInv, TypeOK, FrameOK
    <2>3. QED
      BY <1>4, <2>1, <2>2 DEF SvcNew, CoreInv, TypeOK, shared, ptrs, opts, status, world
  <1>5. CASE SvcStart(c)
    <2>1. FrameOK' /\ pc' \in [Callers -> Labels]
      BY <1>5, MoveKeepsFrame DEF SvcStart, frame
    <2>2. live' \subseteq Instances
      BY <1>5 DEF SvcStart, Step, CoreInv, TypeOK, FrameOK
    <2>3. fault' \in BOOLEAN
      BY <1>5 DEF SvcStart, Holds, Fails, CoreInv, TypeOK
    <2>4. QED
      BY <1>5, <2>1, <2>2, <2>3 DEF SvcStart, CoreInv, TypeOK, ptrs, opts, status, frame
  <1>6. CASE SvcPublish(c)
    <2>1. FrameOK' /\ pc' \in [Callers -> Labels]
      BY <1>6, MoveKeepsFrame DEF SvcPublish, frame
    <2>2. QED
      BY <1>6, <2>1 DEF SvcPublish, CoreInv, TypeOK, opts, status, world, frame
  <1>7. CASE SvcPrime(c)
    <2>1. CASE \E to \in {"svc.bind", "svc.started", "panicked"} : Pass(c, "svc.prime", to)
      BY <2>1, PassKeeps
    <2>2. CASE Alert(c, "recovered") /\ UNCHANGED <<shared, fault>>
      <3>1. /\ FrameOK' /\ pc' \in [Callers -> Labels]
            /\ after' \in [Callers -> {"none", "failed", "recovered", "stop"}]
        BY <2>2, AlertKeeps
      <3>2. QED
        BY <2>2, <3>1 DEF Alert, CoreInv, TypeOK, shared, ptrs, opts, status, world
    <2>3. QED
      BY <1>7, <2>1, <2>2 DEF SvcPrime
  <1>8. CASE SvcBind(c)
    <2>1. FrameOK' /\ pc' \in [Callers -> Labels]
      BY <1>8, MoveKeepsFrame DEF SvcBind, frame
    <2>2. service' \in [Servers -> Instances \cup {Nil}]
      BY <1>8 DEF SvcBind, CoreInv, TypeOK
    <2>3. QED
      BY <1>8, <2>1, <2>2 DEF SvcBind, CoreInv, TypeOK, ptrs, opts, status, frame
  <1>9. CASE SvcStarted(c)
    BY <1>9, ReturnKeeps DEF SvcStarted, SetCoreStatus, Stable, Responses,
       CoreInv, TypeOK, ptrs, opts, world
  <1>10. CASE SvcFail(c)
    <2>1. /\ FrameOK' /\ pc' \in [Callers -> Labels]
          /\ after' \in [Callers -> {"none", "failed", "recovered", "stop"}]
      BY <1>10, AlertKeeps DEF SvcFail
    <2>2. QED
      BY <1>10, <2>1 DEF SvcFail, SetCoreStatus, Stable, Alert, CoreInv, TypeOK,
         ptrs, opts, world
  <1>11. QED
    BY <1>1, <1>2, <1>3, <1>4, <1>5, <1>6, <1>7, <1>8, <1>9, <1>10 DEF StartService

\* A panic nothing recovers ends the process; its successor starts afresh.
LEMMA CrashKeeps ==
  ASSUME CoreInv, NEW c \in Callers, Crash(c)
  PROVE  CoreInv'
  <1>1. NoRequest \in AllRequests /\ NoVerdict \in
          [op : AllOps \cup {"none"}, req : AllRequests,
           resp : Responses, instance : Instances \cup {Nil}]
    BY DEF NoRequest, NoVerdict, AllRequests, Responses
  <1>2. QED
    BY <1>1 DEF Crash, CoreInv, TypeOK, FrameOK, Stable, Labels, Owing, AlertLabels

-----------------------------------------------------------------------------
(* The theorems.                                                           *)

\* Every step of every caller preserves CoreInv.
LEMMA CoreInvInductive ==
  /\ Init => CoreInv
  /\ CoreInv /\ [Next]_vars => CoreInv'
  <1>1. Init => CoreInv
    <2>1. NoRequest \in AllRequests /\ NoVerdict \in
            [op : AllOps \cup {"none"}, req : AllRequests,
             resp : Responses, instance : Instances \cup {Nil}]
      BY DEF NoRequest, NoVerdict, AllRequests, Responses
    <2>2. "idle" \in Labels /\ "idle" \notin {"svc.start", "svc.publish"} \cup AlertLabels
      BY DEF Labels, Owing, AlertLabels
    <2>3. Init => FrameOK
      BY <2>2 DEF Init, FrameOK
    <2>4. ASSUME Init PROVE TypeOK
      <3>1. /\ service \in [Servers -> Instances \cup {Nil}] /\ pc \in [Callers -> Labels]
            /\ op \in [Callers -> AllOps \cup {"none"}] /\ req \in [Callers -> AllRequests]
            /\ instance \in [Callers -> Instances \cup {Nil}]
            /\ after \in [Callers -> {"none", "failed", "recovered", "stop"}]
        BY <2>1, <2>2, <2>4 DEF Init
      <3>2. QED
        BY <2>1, <2>4, <3>1 DEF Init, TypeOK, Stable
    <2>5. QED
      BY <2>3, <2>4 DEF CoreInv
  <1>2. ASSUME CoreInv, [Next]_vars PROVE CoreInv'
    <2>1. CASE \E c \in Callers, o \in Ops \cap DOMAIN Entry :
                 \E r \in RequestsOf(o) : Invoke(c, o, r)
      BY <1>2, <2>1, ArrivalKeeps, CoreAssumption
    <2>2. ASSUME NEW c \in Callers, GenerateConfig(c) PROVE CoreInv'
      BY <1>2, <2>2, ArrivalKeeps, CoreAssumption
    <2>3. CASE ChangeRostovVPNSettings
      BY <1>2, <2>3, ArrivalKeeps, CoreAssumption
    <2>4. ASSUME NEW c \in Callers, Advance(c) PROVE CoreInv'
      BY <1>2, <2>4, BeginKeeps, StopKeeps, ReloadKeeps, StartServiceKeeps,
         StopAndAlertKeeps, CrashKeeps DEF Advance
    <2>5. CASE UNCHANGED vars
      BY <1>2, <2>5 DEF vars, shared, ptrs, opts, status, world, frame,
         CoreInv, TypeOK, FrameOK
    <2>6. QED
      BY <1>2, <2>1, <2>2, <2>3, <2>4, <2>5 DEF Next
  <1>3. QED
    BY <1>1, <1>2

LEMMA CoreInvEver == Spec => []CoreInv
  <1>1. QED
    BY CoreInvInductive, PTL DEF Spec

\* Every variable keeps its type, whatever the callers, pools, requests and
\* faults: in particular no operation publishes or starts an instance that
\* NewService did not create (custom.go:142-162).
THEOREM TypeCorrect == Spec => []TypeOK
  <1>1. CoreInv => TypeOK
    BY DEF CoreInv
  <1>2. QED
    BY <1>1, CoreInvEver, PTL

-----------------------------------------------------------------------------
(* NoOrphanTransition: the caller that owes the core a stable status keeps *)
(* owing it until the status is stable, or a failed Close abandons it.     *)

\* A step that leaves the status alone and does not take its caller out of
\* Owing.
LEMMA MoveKeepsOwing ==
  ASSUME TypeOK, NoOrphanTransition, NEW c \in Callers, NEW to,
         pc' = [pc EXCEPT ![c] = to], UNCHANGED status, pc[c] \in Owing => to \in Owing
  PROVE  NoOrphanTransition'
  BY DEF TypeOK, NoOrphanTransition, status

\* SetCoreStatus leaves its caller in Owing, or the status stable.
LEMMA AnnounceKeepsOwing ==
  ASSUME TypeOK, NEW c \in Callers, NEW to, NEW s,
         pc' = [pc EXCEPT ![c] = to], CoreState' = s, s \in Stable \/ to \in Owing
  PROVE  NoOrphanTransition'
  BY DEF TypeOK, NoOrphanTransition, Stable, Transitional

\* A Stop that returns, where nobody owes anything to its caller.
LEMMA StopReturnKeepsOwing ==
  ASSUME TypeOK, NoOrphanTransition, NEW c \in Callers, NEW r, StopReturn(c, r),
         \/ pc[c] \notin Owing /\ UNCHANGED status
         \/ abandoned' = TRUE
         \/ CoreState' \in Stable
  PROVE  NoOrphanTransition'
  <1>1. PICK to \in {"start.status", "idle"} : pc' = [pc EXCEPT ![c] = to]
    BY DEF StopReturn, Return
  <1>2. CASE pc[c] \notin Owing /\ UNCHANGED status
    BY <1>1, <1>2, MoveKeepsOwing
  <1>3. CASE abandoned' = TRUE
    BY <1>3 DEF NoOrphanTransition
  <1>4. CASE CoreState' \in Stable
    BY <1>4 DEF NoOrphanTransition, Stable, Transitional
  <1>5. QED
    BY <1>2, <1>3, <1>4

\* Start and Restart, up to StartService.
LEMMA BeginKeepsOwing ==
  ASSUME TypeOK, NoOrphanTransition, NEW c \in Callers, Begin(c)
  PROVE  NoOrphanTransition'
  <1> USE DEF Owing
  <1>1. CASE StartCheck(c)
    BY <1>1, MoveKeepsOwing DEF StartCheck, Pass, Step, shared
  <1>2. CASE RestartCheck(c)
    BY <1>2, MoveKeepsOwing DEF RestartCheck, Pass, Step, Return, shared
  <1>3. CASE RestartBox(c)
    BY <1>3, MoveKeepsOwing DEF RestartBox, Pass, Step, Return, shared
  <1>4. CASE Announce(c, "start.status", "svc.read", "STARTING")
    BY <1>4, AnnounceKeepsOwing DEF Announce, Step, SetCoreStatus
  <1>5. QED
    BY <1>1, <1>2, <1>3, <1>4 DEF Begin

\* Stop: every early return is taken before STOPPING, or abandons the transition.
LEMMA StopKeepsOwing ==
  ASSUME TypeOK, NoOrphanTransition, NEW c \in Callers, Stop(c)
  PROVE  NoOrphanTransition'
  <1> USE DEF Owing
  <1>1. CASE StopCheck(c)
    BY <1>1, MoveKeepsOwing, StopReturnKeepsOwing DEF StopCheck, Pass, Step, shared
  <1>2. CASE StopBox(c)
    BY <1>2, MoveKeepsOwing, StopReturnKeepsOwing DEF StopBox, Pass, Step, shared
  <1>3. CASE StopStatus(c)
    BY <1>3, AnnounceKeepsOwing DEF StopStatus, Announce, Step, SetCoreStatus
  <1>4. CASE Deactivate(c, "stop.tunnel", "stop.detach")
    BY <1>4, MoveKeepsOwing DEF Deactivate, Step
  <1>5. CASE Detach(c, "stop.detach", "stop.close")
    BY <1>5, MoveKeepsOwing DEF Detach, Step
  <1>6. CASE StopClose(c)
    <2>1. CASE StopReturn(c, "error") /\ abandoned' = TRUE
      BY <2>1, StopReturnKeepsOwing
    <2>2. CASE \E to \in {"stop.clear", "alert.status"} :
                  pc' = [pc EXCEPT ![c] = to] /\ UNCHANGED <<CoreState, abandoned>>
      BY <2>2, MoveKeepsOwing DEF status
    <2>3. QED
      BY <1>6, <2>1, <2>2 DEF StopClose, Alert
  <1>7. CASE ClearBox(c, "stop.clear", "stop.server")
    BY <1>7, MoveKeepsOwing DEF ClearBox, Step
  <1>8. CASE StopServer(c)
    <2>1. CASE StopReturn(c, "error") /\ abandoned' = TRUE
      BY <2>1, StopReturnKeepsOwing
    <2>2. CASE \E to \in {"stop.done", "stop.unserver"} :
                  pc' = [pc EXCEPT ![c] = to] /\ UNCHANGED <<CoreState, abandoned>>
      BY <2>2, MoveKeepsOwing DEF status
    <2>3. QED
      BY <1>8, <2>1, <2>2 DEF StopServer, Pass, Step, shared, status
  <1>9. CASE ClearServer(c, "stop.unserver", "stop.done")
    BY <1>9, MoveKeepsOwing DEF ClearServer, Step
  <1>10. CASE StopDone(c)
    BY <1>10, StopReturnKeepsOwing DEF StopDone, SetCoreStatus, Stable
  <1>11. QED
    BY <1>1, <1>2, <1>3, <1>4, <1>5, <1>6, <1>7, <1>8, <1>9, <1>10 DEF Stop

\* ServiceReload, up to StartService.
LEMMA ReloadKeepsOwing ==
  ASSUME TypeOK, NoOrphanTransition, NEW c \in Callers, Reload(c)
  PROVE  NoOrphanTransition'
  <1> USE DEF Owing
  <1>1. CASE ReloadStatus(c)
    BY <1>1, AnnounceKeepsOwing DEF ReloadStatus, Announce, Step, SetCoreStatus
  <1>2. CASE ~ReloadStatus(c)
    BY <1>2, MoveKeepsOwing
    DEF Reload, Detach, ClearServer, CloseIgnored, ClearBox, Pass, Step, shared
  <1>3. QED
    BY <1>1, <1>2

\* StartService: every error path announces STOPPED; the last step, STARTED.
LEMMA StartServiceKeepsOwing ==
  ASSUME TypeOK, NoOrphanTransition, NEW c \in Callers, StartService(c)
  PROVE  NoOrphanTransition'
  <1> USE DEF Owing
  <1>1. CASE SvcRead(c)
    BY <1>1, MoveKeepsOwing DEF SvcRead, Pass, Step, shared
  <1>2. CASE SvcBuild(c)
    BY <1>2, MoveKeepsOwing DEF SvcBuild, Pass, Step, shared
  <1>3. CASE SvcServer(c)
    BY <1>3, MoveKeepsOwing DEF SvcServer, Pass, Step, shared
  <1>4. CASE SvcNew(c)
    BY <1>4, MoveKeepsOwing DEF SvcNew, Step, shared
  <1>5. CASE SvcStart(c)
    BY <1>5, MoveKeepsOwing DEF SvcStart, Step
  <1>6. CASE SvcPublish(c)
    BY <1>6, MoveKeepsOwing DEF SvcPublish, Step
  <1>7. CASE SvcPrime(c)
    BY <1>7, MoveKeepsOwing DEF SvcPrime, Pass, Step, Alert, shared
  <1>8. CASE SvcBind(c)
    BY <1>8, MoveKeepsOwing DEF SvcBind, Step
  <1>9. CASE SvcStarted(c)
    BY <1>9, AnnounceKeepsOwing DEF SvcStarted, Return, SetCoreStatus, Stable
  <1>10. CASE SvcFail(c)
    BY <1>10, AnnounceKeepsOwing DEF SvcFail, Alert, SetCoreStatus, Stable
  <1>11. QED
    BY <1>1, <1>2, <1>3, <1>4, <1>5, <1>6, <1>7, <1>8, <1>9, <1>10 DEF StartService

\* StopAndAlert announces STOPPED first, and owes nothing afterwards.
LEMMA StopAndAlertKeepsOwing ==
  ASSUME TypeOK, NoOrphanTransition, NEW c \in Callers, StopAndAlert(c)
  PROVE  NoOrphanTransition'
  <1> USE DEF Owing
  <1>1. CASE Announce(c, "alert.status", "alert.tunnel", "STOPPED")
    BY <1>1, AnnounceKeepsOwing DEF Announce, Step, SetCoreStatus, Stable
  <1>2. CASE AlertServer(c)
    BY <1>2, MoveKeepsOwing DEF AlertServer, Pass, Step, shared
  <1>3. CASE AlertDone(c)
    BY <1>3, MoveKeepsOwing, StopReturnKeepsOwing DEF AlertDone, Return, shared
  <1>4. CASE Deactivate(c, "alert.tunnel", "alert.detach")
    BY <1>4, MoveKeepsOwing DEF Deactivate, Step
  <1>5. CASE Detach(c, "alert.detach", "alert.close")
    BY <1>5, MoveKeepsOwing DEF Detach, Step
  <1>6. CASE CloseIgnored(c, "alert.close", "alert.clear", "alert.server")
    BY <1>6, MoveKeepsOwing DEF CloseIgnored, Pass, Step, shared
  <1>7. CASE ClearBox(c, "alert.clear", "alert.server")
    BY <1>7, MoveKeepsOwing DEF ClearBox, Step
  <1>8. QED
    BY <1>1, <1>2, <1>3, <1>4, <1>5, <1>6, <1>7 DEF StopAndAlert

\* For any number of callers in any interleaving, the core is STARTING or
\* STOPPING only while a call is under way that will announce STARTED or
\* STOPPED, or after a Stop whose Close failed (custom.go:35-54, 60-174,
\* 282-371, old_command_server.go:17-34).
THEOREM NoOrphanTransitionEver == Spec => []NoOrphanTransition
  <1>1. Init => NoOrphanTransition
    BY DEF Init, NoOrphanTransition, Transitional
  <1>2. ASSUME TypeOK, NoOrphanTransition, [Next]_vars PROVE NoOrphanTransition'
    <2>1. ASSUME NEW c \in Callers, NEW o \in Ops \cap DOMAIN Entry,
                 NEW r \in RequestsOf(o), Invoke(c, o, r)
          PROVE  NoOrphanTransition'
      BY <1>2, <2>1, MoveKeepsOwing DEF Invoke, Step, Owing, shared
    <2>2. ASSUME NEW c \in Callers, GenerateConfig(c) PROVE NoOrphanTransition'
      BY <1>2, <2>2 DEF GenerateConfig, NoOrphanTransition, status
    <2>3. CASE ChangeRostovVPNSettings
      BY <1>2, <2>3 DEF ChangeRostovVPNSettings, NoOrphanTransition, status
    <2>4. ASSUME NEW c \in Callers, Crash(c) PROVE NoOrphanTransition'
      BY <2>4 DEF Crash, NoOrphanTransition, Transitional
    <2>5. ASSUME NEW c \in Callers, Advance(c) PROVE NoOrphanTransition'
      BY <1>2, <2>4, <2>5, BeginKeepsOwing, StopKeepsOwing, ReloadKeepsOwing,
         StartServiceKeepsOwing, StopAndAlertKeepsOwing DEF Advance
    <2>6. CASE UNCHANGED vars
      BY <1>2, <2>6 DEF vars, shared, status, NoOrphanTransition
    <2>7. QED
      BY <1>2, <2>1, <2>2, <2>3, <2>5, <2>6 DEF Next
  <1>3. QED
    BY <1>1, <1>2, TypeCorrect, PTL DEF Spec

-----------------------------------------------------------------------------
(* StartedMeansRunning, when calls do not overlap.                         *)

OneCaller == \A c, d \in Callers : c = d

\* Labels at which Box is the engine just started, and those from which the
\* core goes down.
Primed == {"svc.prime", "svc.bind", "svc.started"}
Down   == {"stop.tunnel", "stop.detach", "stop.close", "stop.clear", "stop.server",
           "stop.unserver", "stop.done", "reload.detach", "reload.unserver", "reload.close",
           "reload.clear", "alert.tunnel", "alert.detach", "alert.close", "alert.clear",
           "alert.server", "alert.done"}

\* What makes StartedMeansRunning inductive: the engine to be published runs,
\* so does the published one until STARTED, and no call takes the core down
\* under a STARTED status.
SerialInv ==
  /\ \A c \in Callers :
       /\ pc[c] = "svc.publish" => instance[c] \in live
       /\ pc[c] \in Primed => Box \in live
       /\ CoreState = "STARTED" => pc[c] \notin Down
  /\ CoreState = "STARTED" => Box \in live

\* A step that changes neither the status nor Box nor the engines.
LEMMA QuietKeeps ==
  ASSUME OneCaller, TypeOK, SerialInv, NEW c \in Callers, NEW to,
         pc' = [pc EXCEPT ![c] = to], UNCHANGED <<CoreState, Box, live>>,
         to # "svc.publish", to \in Primed => pc[c] \in Primed, to \in Down => pc[c] \in Down
  PROVE  SerialInv'
  BY DEF OneCaller, TypeOK, SerialInv

\* A step that leaves the core in another state than STARTED.
LEMMA DownKeeps ==
  ASSUME OneCaller, TypeOK, NEW c \in Callers, NEW to,
         pc' = [pc EXCEPT ![c] = to], CoreState' # "STARTED", to \notin {"svc.publish"} \cup Primed
  PROVE  SerialInv'
  BY DEF OneCaller, TypeOK, SerialInv

\* A Stop that returns without STARTED, or that never began to go down.
LEMMA StopReturnSerial ==
  ASSUME OneCaller, TypeOK, SerialInv, NEW c \in Callers, NEW r, StopReturn(c, r),
         UNCHANGED <<CoreState, Box, live>> \/ CoreState' # "STARTED"
  PROVE  SerialInv'
  <1>1. PICK to \in {"start.status", "idle"} : pc' = [pc EXCEPT ![c] = to]
    BY DEF StopReturn, Return
  <1>2. to \notin {"svc.publish"} \cup Primed \cup Down
    BY DEF Primed, Down
  <1>3. QED
    BY <1>1, <1>2, QuietKeeps, DownKeeps

\* Start and Restart, up to StartService.
LEMMA BeginSerial ==
  ASSUME OneCaller, TypeOK, SerialInv, NEW c \in Callers, Begin(c)
  PROVE  SerialInv'
  <1> USE DEF Primed, Down
  <1>1. CASE StartCheck(c)
    BY <1>1, QuietKeeps DEF StartCheck, Pass, Step, shared, ptrs, status, world
  <1>2. CASE RestartCheck(c)
    BY <1>2, QuietKeeps DEF RestartCheck, Pass, Step, Return, shared, ptrs, status, world
  <1>3. CASE RestartBox(c)
    BY <1>3, QuietKeeps DEF RestartBox, Pass, Step, Return, shared, ptrs, status, world
  <1>4. CASE Announce(c, "start.status", "svc.read", "STARTING")
    BY <1>4, DownKeeps DEF Announce, Step, SetCoreStatus
  <1>5. QED
    BY <1>1, <1>2, <1>3, <1>4 DEF Begin

\* Stop announces STOPPING before it closes the engine.
LEMMA StopSerial ==
  ASSUME OneCaller, TypeOK, SerialInv, NEW c \in Callers, Stop(c)
  PROVE  SerialInv'
  <1> USE DEF Primed, Down
  <1>1. CASE StopCheck(c)
    BY <1>1, QuietKeeps, StopReturnSerial
    DEF StopCheck, Pass, Step, shared, ptrs, status, world
  <1>2. CASE StopBox(c)
    BY <1>2, QuietKeeps, StopReturnSerial
    DEF StopBox, Pass, Step, shared, ptrs, status, world
  <1>3. CASE StopStatus(c)
    BY <1>3, DownKeeps DEF StopStatus, Announce, Step, SetCoreStatus
  <1>4. CASE pc[c] \in Down
    <2>1. CoreState # "STARTED"
      BY <1>4 DEF SerialInv
    <2>2. CASE StopDone(c)
      BY <2>2, StopReturnSerial DEF StopDone, SetCoreStatus
    <2>3. CASE StopClose(c)
      BY <2>1, <2>3, DownKeeps, StopReturnSerial DEF StopClose, Alert
    <2>4. CASE StopServer(c)
      BY <2>1, <2>4, DownKeeps, StopReturnSerial
      DEF StopServer, Pass, Step, shared, status
    <2>5. CASE Deactivate(c, "stop.tunnel", "stop.detach")
      BY <2>1, <2>5, DownKeeps DEF Deactivate, Step, status
    <2>6. CASE Detach(c, "stop.detach", "stop.close")
      BY <2>1, <2>6, DownKeeps DEF Detach, Step, status
    <2>7. CASE ClearBox(c, "stop.clear", "stop.server")
      BY <2>1, <2>7, DownKeeps DEF ClearBox, Step, status
    <2>8. CASE ClearServer(c, "stop.unserver", "stop.done")
      BY <2>1, <2>8, DownKeeps DEF ClearServer, Step, status
    <2>9. QED
      BY <1>1, <1>2, <1>3, <2>2, <2>3, <2>4, <2>5, <2>6, <2>7, <2>8 DEF Stop
  <1>5. CASE pc[c] \notin Down
    BY <1>1, <1>2, <1>3, <1>5
    DEF Stop, StopClose, StopServer, StopDone, Deactivate, Detach, ClearBox, ClearServer,
        Pass, Step
  <1>6. QED
    BY <1>4, <1>5

\* ServiceReload announces STARTING before it closes the engine.
LEMMA ReloadSerial ==
  ASSUME OneCaller, TypeOK, SerialInv, NEW c \in Callers, Reload(c)
  PROVE  SerialInv'
  <1> USE DEF Primed, Down
  <1>1. CASE ReloadStatus(c)
    BY <1>1, DownKeeps DEF ReloadStatus, Announce, Step, SetCoreStatus
  <1>2. CASE ~ReloadStatus(c)
    <2>1. pc[c] \in Down /\ UNCHANGED CoreState
      BY <1>2 DEF Reload, Detach, ClearServer, CloseIgnored, ClearBox, Pass, Step,
         shared, status
    <2>2. PICK to : /\ pc' = [pc EXCEPT ![c] = to]
                    /\ to \in {"reload.unserver", "reload.close", "reload.clear", "svc.read"}
      BY <1>2 DEF Reload, Detach, ClearServer, CloseIgnored, ClearBox, Pass, Step
    <2>3. QED
      BY <2>1, <2>2, DownKeeps DEF SerialInv
  <1>3. QED
    BY <1>1, <1>2

\* StartService publishes an engine only once it runs.
LEMMA StartServiceSerial ==
  ASSUME OneCaller, TypeOK, SerialInv, NEW c \in Callers, StartService(c)
  PROVE  SerialInv'
  <1> USE DEF Primed, Down
  <1>1. CASE SvcRead(c) \/ SvcBuild(c)
    BY <1>1, QuietKeeps DEF SvcRead, SvcBuild, Pass, Step, shared, ptrs, status, world
  <1>2. CASE SvcServer(c)
    BY <1>2, QuietKeeps DEF SvcServer, Pass, Step, shared, ptrs, status, world
  <1>3. CASE SvcNew(c)
    BY <1>3, QuietKeeps DEF SvcNew, Step, shared, ptrs, status, world
  <1>4. CASE SvcStart(c)
    BY <1>4 DEF SvcStart, Step, OneCaller, TypeOK, SerialInv, ptrs, status, frame
  <1>5. CASE SvcPublish(c)
    BY <1>5 DEF SvcPublish, Step, OneCaller, TypeOK, SerialInv, status, world, frame
  <1>6. CASE SvcPrime(c)
    BY <1>6, QuietKeeps DEF SvcPrime, Pass, Step, Alert, shared, ptrs, status, world
  <1>7. CASE SvcBind(c)
    BY <1>7, QuietKeeps DEF SvcBind, Step, ptrs, status
  <1>8. CASE SvcStarted(c)
    BY <1>8 DEF SvcStarted, SetCoreStatus, Return, OneCaller, TypeOK, SerialInv, ptrs, world
  <1>9. CASE SvcFail(c)
    BY <1>9, DownKeeps DEF SvcFail, SetCoreStatus, Alert
  <1>10. QED
    BY <1>1, <1>2, <1>3, <1>4, <1>5, <1>6, <1>7, <1>8, <1>9 DEF StartService

\* StopAndAlert announces STOPPED before it closes the engine.
LEMMA StopAndAlertSerial ==
  ASSUME OneCaller, TypeOK, SerialInv, NEW c \in Callers, StopAndAlert(c)
  PROVE  SerialInv'
  <1> USE DEF Primed, Down
  <1>1. CASE Announce(c, "alert.status", "alert.tunnel", "STOPPED")
    BY <1>1, DownKeeps DEF Announce, Step, SetCoreStatus
  <1>2. CASE ~Announce(c, "alert.status", "alert.tunnel", "STOPPED")
    <2>1. pc[c] \in Down /\ UNCHANGED CoreState
      BY <1>2 DEF StopAndAlert, Deactivate, Detach, CloseIgnored, ClearBox, AlertServer,
         AlertDone, Pass, Step, shared, status
    <2>2. CoreState' # "STARTED"
      BY <2>1 DEF SerialInv
    <2>3. CASE AlertDone(c)
      BY <2>2, <2>3, StopReturnSerial, DownKeeps DEF AlertDone, Return
    <2>4. CASE ~AlertDone(c)
      <3>1. PICK to : /\ pc' = [pc EXCEPT ![c] = to]
                      /\ to \in {"alert.detach", "alert.close", "alert.clear",
                                 "alert.server", "alert.done"}
        BY <1>2, <2>4 DEF StopAndAlert, Deactivate, Detach, CloseIgnored, ClearBox,
           AlertServer, Pass, Step
      <3>2. QED
        BY <2>2, <3>1, DownKeeps
    <2>5. QED
      BY <2>3, <2>4
  <1>3. QED
    BY <1>1, <1>2

LEMMA SerialInvEver ==
  ASSUME OneCaller
  PROVE  Spec => []SerialInv
  <1>1. Init => SerialInv
    BY DEF Init, SerialInv, Primed
  <1>2. ASSUME TypeOK, SerialInv, [Next]_vars PROVE SerialInv'
    <2>1. ASSUME NEW c \in Callers, NEW o \in Ops \cap DOMAIN Entry,
                 NEW r \in RequestsOf(o), Invoke(c, o, r)
          PROVE  SerialInv'
      <3>1. Entry[o] \notin {"svc.publish"} \cup Primed \cup Down
        BY DEF Entry, Primed, Down
      <3>2. QED
        BY <1>2, <2>1, <3>1, QuietKeeps DEF Invoke, Step, shared, ptrs, status, world
    <2>2. ASSUME NEW c \in Callers, GenerateConfig(c) PROVE SerialInv'
      BY <1>2, <2>2 DEF GenerateConfig, SerialInv, ptrs, status, world
    <2>3. CASE ChangeRostovVPNSettings
      BY <1>2, <2>3 DEF ChangeRostovVPNSettings, SerialInv, ptrs, status, world, frame
    <2>4. ASSUME NEW c \in Callers, Crash(c) PROVE SerialInv'
      BY <2>4 DEF Crash, SerialInv, Primed
    <2>5. ASSUME NEW c \in Callers, Advance(c) PROVE SerialInv'
      BY <1>2, <2>4, <2>5, BeginSerial, StopSerial, ReloadSerial, StartServiceSerial,
         StopAndAlertSerial DEF Advance
    <2>6. CASE UNCHANGED vars
      BY <1>2, <2>6 DEF vars, shared, ptrs, status, world, frame, SerialInv
    <2>7. QED
      BY <1>2, <2>1, <2>2, <2>3, <2>5, <2>6 DEF Next
  <1>3. QED
    BY <1>1, <1>2, TypeCorrect, PTL DEF Spec

\* While one caller at a time uses the core, STARTED is never announced over
\* an engine that does not run, at any step of any operation, whatever fails
\* (custom.go:35-45, 142-172, 303-318, old_command_server.go:19-28).
THEOREM SerialStartedMeansRunning ==
  ASSUME OneCaller
  PROVE  Spec => []StartedMeansRunning
  <1>1. SerialInv => StartedMeansRunning
    BY DEF SerialInv, StartedMeansRunning
  <1>2. QED
    BY <1>1, SerialInvEver, PTL

-----------------------------------------------------------------------------
(* A call that runs alone, after whatever calls raced before it: how Stop   *)
(* and the starts end, and that Start is the way out of every state.        *)

StopLabels == {"stop.check", "stop.box", "stop.status", "stop.tunnel", "stop.detach",
               "stop.close", "stop.clear", "stop.server", "stop.unserver", "stop.done"}
Opening    == {"start.check", "restart.check", "restart.box"}

\* Stop, as far as a caller that runs alone has come with it.
StopAt(c) ==
  /\ pc[c] \in {"stop.box", "stop.status"} => CoreState = "STARTED"
  /\ pc[c] \in {"stop.status", "stop.tunnel", "stop.detach", "stop.close"} => Box # Nil
  /\ pc[c] \in StopLabels \ {"stop.check", "stop.box", "stop.status"} => CoreState = "STOPPING"
  /\ pc[c] \in StopLabels \ {"stop.check", "stop.box", "stop.status", "stop.tunnel"} =>
       ~tunnelServiceRunning
  /\ pc[c] \in {"stop.server", "stop.unserver", "stop.done"} => Box = Nil
  /\ pc[c] = "stop.done" => oldCommandServer = Nil
  /\ op[c] = "Stop" => pc[c] \in StopLabels
  /\ op[c] = "StartService" => pc[c] \notin StopLabels \cup Opening

\* StopAndAlert: it is never a panic of Stop that brought the caller there.
AlertAt(c) ==
  /\ pc[c] \in AlertLabels => after[c] # "stop"
  /\ pc[c] \in AlertLabels \ {"alert.status"} => CoreState = "STOPPED"
  /\ pc[c] \in AlertLabels \ {"alert.status", "alert.tunnel"} => ~tunnelServiceRunning
  /\ pc[c] \in {"alert.close", "alert.clear", "alert.server", "alert.done"} =>
       (oldCommandServer # Nil => service[oldCommandServer] = Nil)
  /\ pc[c] \in {"alert.server", "alert.done"} => Box = Nil

\* A start: the engine it publishes is its own, and runs.
StartAt(c) ==
  /\ pc[c] = "svc.publish" => instance[c] \in live
  /\ pc[c] \in Primed => Box = instance[c] /\ Box \in live

\* And what it takes for a Start to fail.
FailAt(c) ==
  op[c] = "Start" =>
    /\ pc[c] \notin {"restart.check", "restart.box"}
    /\ pc[c] = "svc.fail" \/ (pc[c] \in AlertLabels /\ after[c] = "failed") =>
         fault \/ req[c].source = "nopath"
    /\ pc[c] \in AlertLabels /\ after[c] = "recovered" => req[c].raw /\ req[c].server
    /\ pc[c] = "svc.prime" => req[c].server
    /\ pc[c] \in {"svc.server", "svc.new", "svc.start", "svc.publish", "svc.prime"} =>
         req[c].raw \/ RostovVPNOptions # "nil"

\* Who runs alone is the only one under way; a verdict stands while nobody is.
SoloInv ==
  /\ solo # Nil => \A d \in Callers : pc[d] # "idle" => d = solo
  /\ solo # Nil => StopAt(solo) /\ AlertAt(solo) /\ StartAt(solo) /\ FailAt(solo)
  /\ verdict.op # "none" => \A d \in Callers : pc[d] = "idle"
  /\ SoloStop /\ SoloStart /\ SoloStartRecovers

-----------------------------------------------------------------------------
\* A step of the caller that runs alone, seen from that caller.
LEMMA AtTheSolo ==
  ASSUME SoloInv, NEW c \in Callers, solo = c, c # Nil,
         UNCHANGED solo, \A d \in Callers \ {c} : pc'[d] = pc[d],
         StopAt(c)', AlertAt(c)', StartAt(c)', FailAt(c)',
         \/ verdict'.op = "none"
         \/ pc'[c] = "idle" /\ SoloStop' /\ SoloStart' /\ SoloStartRecovers'
  PROVE  SoloInv'
  BY DEF SoloInv, SoloStop, SoloStart, SoloStartRecovers, StartOps

\* A failing call on the way of the caller that runs alone is noted.
LEMMA FailsSolo ==
  ASSUME CoreInv, SoloInv, NEW c \in Callers, solo = c, NEW f, Fails(f),
         pc[c] \in {"svc.read", "svc.build", "svc.server", "svc.new", "svc.start"},
         pc' = [pc EXCEPT ![c] = "svc.fail"], UNCHANGED <<op, req, after, solo, verdict>>
  PROVE  SoloInv'
  <1>1. solo # Nil
    BY CoreAssumption
  <1>2. fault'
    BY <1>1 DEF Fails
  <1>3. op[c] # "Stop" /\ verdict'.op = "none"
    BY <1>1 DEF SoloInv, StopAt, StopLabels
  <1>4. pc'[c] = "svc.fail"
    BY DEF CoreInv, TypeOK
  <1>5. StopAt(c)' /\ AlertAt(c)' /\ StartAt(c)' /\ FailAt(c)'
    BY <1>2, <1>3, <1>4
    DEF StopAt, AlertAt, StartAt, FailAt, StopLabels, Opening, AlertLabels, Primed
  <1>6. QED
    BY <1>1, <1>3, <1>5, AtTheSolo DEF CoreInv, TypeOK

\* Start and Restart, up to StartService.
LEMMA BeginSolo ==
  ASSUME CoreInv, SoloInv, NEW c \in Callers, solo = c, Begin(c)
  PROVE  SoloInv'
  <1> c # Nil
    BY CoreAssumption
  <1> USE DEF CoreInv, TypeOK, SoloInv, SoloStop, SoloStart, SoloStartRecovers, StopAt, AlertAt,
              StartAt, FailAt, StopLabels, Opening, AlertLabels, Primed, StartOps, shared,
              ptrs, opts, status, world, frame
  <1>1. CASE StartCheck(c)
    BY <1>1, AtTheSolo DEF StartCheck, Pass, Step
  <1>2. CASE RestartCheck(c)
    BY <1>2, AtTheSolo DEF RestartCheck, Pass, Step, Return
  <1>3. CASE RestartBox(c)
    BY <1>3, AtTheSolo DEF RestartBox, Pass, Step, Return
  <1>4. CASE Announce(c, "start.status", "svc.read", "STARTING")
    BY <1>4, AtTheSolo DEF Announce, Step, SetCoreStatus
  <1>5. QED
    BY <1>1, <1>2, <1>3, <1>4 DEF Begin

\* Stop.
LEMMA StopSolo ==
  ASSUME CoreInv, SoloInv, NEW c \in Callers, solo = c, Stop(c)
  PROVE  SoloInv'
  <1> c # Nil
    BY CoreAssumption
  <1> USE DEF CoreInv, TypeOK, SoloInv, SoloStop, SoloStart, SoloStartRecovers, StopAt, AlertAt,
              StartAt, FailAt, StopLabels, Opening, AlertLabels, Primed, StartOps, shared,
              ptrs, opts, status, world, frame
  <1>1. CASE StopCheck(c)
    BY <1>1, AtTheSolo DEF StopCheck, Pass, Step, StopReturn, ResumesAfterStop, Return
  <1>2. CASE StopBox(c)
    BY <1>2, AtTheSolo DEF StopBox, Pass, Step, StopReturn, ResumesAfterStop, Return
  <1>3. CASE StopStatus(c)
    BY <1>3, AtTheSolo DEF StopStatus, Announce, Step, SetCoreStatus
  <1>4. CASE Deactivate(c, "stop.tunnel", "stop.detach")
    BY <1>4, AtTheSolo DEF Deactivate, Step
  <1>5. CASE Detach(c, "stop.detach", "stop.close")
    BY <1>5, AtTheSolo DEF Detach, Step
  <1>6. CASE StopClose(c)
    BY <1>6, AtTheSolo DEF StopClose, StopReturn, ResumesAfterStop, Return
  <1>7. CASE ClearBox(c, "stop.clear", "stop.server")
    BY <1>7, AtTheSolo DEF ClearBox, Step
  <1>8. CASE StopServer(c)
    BY <1>8, AtTheSolo DEF StopServer, Pass, Step, StopReturn, ResumesAfterStop, Return
  <1>9. CASE ClearServer(c, "stop.unserver", "stop.done")
    BY <1>9, AtTheSolo DEF ClearServer, Step
  <1>10. CASE StopDone(c)
    BY <1>10, AtTheSolo DEF StopDone, SetCoreStatus, StopReturn, ResumesAfterStop, Return
  <1>11. QED
    BY <1>1, <1>2, <1>3, <1>4, <1>5, <1>6, <1>7, <1>8, <1>9, <1>10 DEF Stop

\* ServiceReload, up to StartService.
LEMMA ReloadSolo ==
  ASSUME CoreInv, SoloInv, NEW c \in Callers, solo = c, Reload(c)
  PROVE  SoloInv'
  <1> c # Nil
    BY CoreAssumption
  <1> USE DEF CoreInv, TypeOK, SoloInv, SoloStop, SoloStart, SoloStartRecovers, StopAt, AlertAt,
              StartAt, FailAt, StopLabels, Opening, AlertLabels, Primed, StartOps, shared,
              ptrs, opts, status, world, frame
  <1>1. CASE ReloadStatus(c)
    BY <1>1, AtTheSolo DEF ReloadStatus, Announce, Step, SetCoreStatus
  <1>2. CASE ~ReloadStatus(c)
    BY <1>2, AtTheSolo DEF Reload, Detach, ClearServer, CloseIgnored, ClearBox, Pass, Step
  <1>3. QED
    BY <1>1, <1>2

\* StartService.
LEMMA StartServiceSolo ==
  ASSUME CoreInv, SoloInv, NEW c \in Callers, solo = c, StartService(c)
  PROVE  SoloInv'
  <1> c # Nil
    BY CoreAssumption
  <1> USE DEF CoreInv, TypeOK, SoloInv, SoloStop, SoloStart, SoloStartRecovers, StopAt, AlertAt,
              StartAt, FailAt, StopLabels, Opening, AlertLabels, Primed, StartOps, shared,
              ptrs, opts, status, world, frame
  <1>1. CASE SvcRead(c)
    BY <1>1, AtTheSolo, FailsSolo DEF SvcRead, Pass, Step
  <1>2. CASE SvcBuild(c)
    BY <1>2, AtTheSolo, FailsSolo, CoreAssumption DEF SvcBuild, BuildConfig, Holds, Pass, Step
  <1>3. CASE SvcServer(c)
    BY <1>3, AtTheSolo, FailsSolo, CoreAssumption DEF SvcServer, Holds, Pass, Step
  <1>4. CASE SvcNew(c)
    BY <1>4, AtTheSolo, FailsSolo, CoreAssumption DEF SvcNew, Holds, Step
  <1>5. CASE SvcStart(c)
    BY <1>5, AtTheSolo, FailsSolo, CoreAssumption DEF SvcStart, Holds, Step
  <1>6. CASE SvcPublish(c)
    BY <1>6, AtTheSolo DEF SvcPublish, Step
  <1>7. CASE SvcPrime(c)
    BY <1>7, AtTheSolo, CoreAssumption DEF SvcPrime, Pass, Step, Alert
  <1>8. CASE SvcBind(c)
    BY <1>8, AtTheSolo DEF SvcBind, Step
  <1>9. CASE SvcStarted(c)
    BY <1>9, AtTheSolo DEF SvcStarted, SetCoreStatus, Return
  <1>10. CASE SvcFail(c)
    BY <1>10, AtTheSolo DEF SvcFail, SetCoreStatus, Alert
  <1>11. QED
    BY <1>1, <1>2, <1>3, <1>4, <1>5, <1>6, <1>7, <1>8, <1>9, <1>10 DEF StartService

\* StopAndAlert.
LEMMA StopAndAlertSolo ==
  ASSUME CoreInv, SoloInv, NEW c \in Callers, solo = c, StopAndAlert(c)
  PROVE  SoloInv'
  <1> c # Nil
    BY CoreAssumption
  <1> USE DEF CoreInv, TypeOK, SoloInv, SoloStop, SoloStart, SoloStartRecovers, StopAt, AlertAt,
              StartAt, FailAt, StopLabels, Opening, AlertLabels, Primed, StartOps, shared,
              ptrs, opts, status, world, frame
  <1>1. CASE Announce(c, "alert.status", "alert.tunnel", "STOPPED")
    BY <1>1, AtTheSolo DEF Announce, Step, SetCoreStatus
  <1>2. CASE Deactivate(c, "alert.tunnel", "alert.detach")
    BY <1>2, AtTheSolo DEF Deactivate, Step
  <1>3. CASE Detach(c, "alert.detach", "alert.close")
    BY <1>3, AtTheSolo DEF Detach, Step
  <1>4. CASE CloseIgnored(c, "alert.close", "alert.clear", "alert.server")
    BY <1>4, AtTheSolo DEF CloseIgnored, Pass, Step
  <1>5. CASE ClearBox(c, "alert.clear", "alert.server")
    BY <1>5, AtTheSolo DEF ClearBox, Step
  <1>6. CASE AlertServer(c)
    BY <1>6, AtTheSolo DEF AlertServer, Pass, Step
  <1>7. CASE AlertDone(c)
    BY <1>7, AtTheSolo DEF AlertDone, FrameOK, StopReturn, ResumesAfterStop, Return
  <1>8. QED
    BY <1>1, <1>2, <1>3, <1>4, <1>5, <1>6, <1>7 DEF StopAndAlert

-----------------------------------------------------------------------------
(* The other callers, and the three theorems.                              *)

\* A step of a caller that does not run alone: then nobody does.
LEMMA RacingSolo ==
  ASSUME CoreInv, SoloInv, NEW c \in Callers, Advance(c), solo # c
  PROVE  SoloInv'
  <1>1. pc[c] # "idle"
    BY DEF Advance, Begin, Stop, Reload, StartService, StopAndAlert, Crash, StartCheck,
       RestartCheck, RestartBox, StopCheck, StopBox, StopStatus, StopClose, StopServer, StopDone,
       ReloadStatus, SvcRead, SvcBuild, SvcServer, SvcNew, SvcStart, SvcPublish, SvcPrime,
       SvcBind, SvcStarted, SvcFail, AlertServer, AlertDone, Deactivate, Detach, ClearBox,
       ClearServer, CloseIgnored, Announce, Pass, Step
  <1>2. solo = Nil /\ verdict.op = "none"
    BY <1>1 DEF SoloInv
  <1>3. CASE Crash(c)
    BY <1>3 DEF Crash, NoVerdict, SoloInv, SoloStop, SoloStart, SoloStartRecovers, StartOps
  <1>4. CASE UNCHANGED <<solo, verdict>>
    BY <1>2, <1>4 DEF SoloInv, SoloStop, SoloStart, SoloStartRecovers, StartOps
  <1>5. CASE Begin(c) \/ Reload(c)
    BY <1>4, <1>5 DEF Begin, Reload, StartCheck, RestartCheck, RestartBox, ReloadStatus, Detach,
       ClearServer, ClearBox, CloseIgnored, Announce, Pass, Return, frame
  <1>6. CASE Stop(c)
    BY <1>4, <1>6 DEF Stop, StopCheck, StopBox, StopStatus, StopClose, StopServer, StopDone,
       Deactivate, Detach, ClearBox, ClearServer, Announce, Pass, Alert, StopReturn, Return,
       frame
  <1>7. CASE StartService(c)
    BY <1>4, <1>7 DEF StartService, SvcRead, SvcBuild, SvcServer, SvcNew, SvcStart, SvcPublish,
       SvcPrime, SvcBind, SvcStarted, SvcFail, Pass, Alert, Return, frame
  <1>8. CASE StopAndAlert(c)
    BY <1>4, <1>8 DEF StopAndAlert, Deactivate, Detach, ClearBox, CloseIgnored, AlertServer,
       AlertDone, Announce, Pass, StopReturn, Return, frame
  <1>9. QED
    BY <1>3, <1>5, <1>6, <1>7, <1>8 DEF Advance

\* A call arrives: it runs alone if nothing is under way.
LEMMA InvokeSolo ==
  ASSUME CoreInv, SoloInv, NEW c \in Callers, NEW o \in Ops \cap DOMAIN Entry,
         NEW r \in RequestsOf(o), Invoke(c, o, r)
  PROVE  SoloInv'
  <1> USE DEF CoreInv, TypeOK
  <1>1. c # Nil
    BY CoreAssumption
  <1>2. CASE solo' = Nil
    BY <1>2 DEF Invoke, NoVerdict, SoloInv, SoloStop, SoloStart, SoloStartRecovers, StartOps
  <1>3. CASE solo' = c /\ Active = {}
    <2>1. /\ pc'[c] \in {"start.check", "svc.read", "restart.check", "stop.check",
                        "reload.status"}
          /\ op'[c] = "Stop" => pc'[c] = "stop.check"
          /\ op'[c] = "Start" => pc'[c] = "start.check"
          /\ op'[c] = "StartService" => pc'[c] = "svc.read"
      BY DEF Invoke, Step, Entry
    <2>2. StopAt(c)' /\ AlertAt(c)' /\ StartAt(c)' /\ FailAt(c)'
      BY <2>1 DEF StopAt, AlertAt, StartAt, FailAt, StopLabels, Opening, AlertLabels,
         Primed
    <2>3. \A d \in Callers : pc'[d] # "idle" => d = c
      BY <1>3 DEF Invoke, Step, Active
    <2>4. QED
      BY <1>3, <2>2, <2>3
      DEF Invoke, NoVerdict, SoloInv, SoloStop, SoloStart, SoloStartRecovers, StartOps
  <1>4. QED
    BY <1>2, <1>3 DEF Invoke

LEMMA SoloInvEver == Spec => []SoloInv
  <1>1. Init => SoloInv
    BY DEF Init, NoVerdict, SoloInv, SoloStop, SoloStart, SoloStartRecovers, StartOps
  <1>2. ASSUME CoreInv, SoloInv, [Next]_vars PROVE SoloInv'
    <2>1. ASSUME NEW c \in Callers, NEW o \in Ops \cap DOMAIN Entry,
                 NEW r \in RequestsOf(o), Invoke(c, o, r)
          PROVE  SoloInv'
      BY <1>2, <2>1, InvokeSolo
    <2>2. ASSUME NEW c \in Callers, GenerateConfig(c) PROVE SoloInv'
      BY <2>2 DEF GenerateConfig, NoVerdict, SoloInv, SoloStop, SoloStart, SoloStartRecovers,
         StartOps
    <2>3. CASE ChangeRostovVPNSettings
      BY <1>2, <2>3 DEF ChangeRostovVPNSettings, SoloInv, SoloStop, SoloStart,
         SoloStartRecovers, StopAt, AlertAt, StartAt, FailAt, ptrs, status, world, frame
    <2>4. ASSUME NEW c \in Callers, Crash(c) PROVE SoloInv'
      BY <2>4 DEF Crash, NoVerdict, SoloInv, SoloStop, SoloStart, SoloStartRecovers, StartOps
    <2>5. ASSUME NEW c \in Callers, Advance(c) PROVE SoloInv'
      BY <1>2, <2>4, <2>5, RacingSolo, BeginSolo, StopSolo, ReloadSolo, StartServiceSolo,
         StopAndAlertSolo DEF Advance
    <2>6. CASE UNCHANGED vars
      BY <1>2, <2>6 DEF vars, shared, ptrs, opts, status, world, frame, SoloInv, SoloStop,
         SoloStart, SoloStartRecovers, StopAt, AlertAt, StartAt, FailAt
    <2>7. QED
      BY <1>2, <2>1, <2>2, <2>3, <2>5, <2>6 DEF Next
  <1>3. QED
    BY <1>1, <1>2, CoreInvEver, PTL DEF Spec

\* For any number of callers, after whatever calls raced before it and with
\* any call failing, a Stop that runs alone never panics, and its answer says
\* what it left (custom.go:282-332).
THEOREM SoloStopEver == Spec => []SoloStop
  <1>1. SoloInv => SoloStop
    BY DEF SoloInv
  <1>2. QED
    BY <1>1, SoloInvEver, PTL

\* Likewise a Start, a StartService or a Restart ends STARTED on the engine
\* it created or STOPPED with everything undone (custom.go:35-54, 85-174).
THEOREM SoloStartEver == Spec => []SoloStart
  <1>1. SoloInv => SoloStart
    BY DEF SoloInv
  <1>2. QED
    BY <1>1, SoloInvEver, PTL

\* And a Start none of whose own calls fails succeeds, whatever state races
\* and failures left (custom.go:60-79).
THEOREM SoloStartRecoversEver == Spec => []SoloStartRecovers
  <1>1. SoloInv => SoloStartRecovers
    BY DEF SoloInv
  <1>2. QED
    BY <1>1, SoloInvEver, PTL
=============================================================================
