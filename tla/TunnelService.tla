---------------------------- MODULE TunnelService ----------------------------
(***************************************************************************)
(* The tunnel: the client of the tunnel service in the application         *)
(* (config/admin_service_commander.go) and the service, a process of its   *)
(* own that answers on port 18020 (v2/tunnel_service.go).                  *)
(*                                                                         *)
(* An activation runs in a goroutine: it has the service installed if      *)
(* nothing listens, then sends Stop and Start under one deadline, and      *)
(* tries again after a failure.  A deactivation sends Stop.  A request     *)
(* whose caller gave up stays with the service, which may still handle it. *)
(*                                                                         *)
(* The service's own core calls DeactivateTunnelService whenever it stops, *)
(* and in that process the flag is never set: a goroutine of the service   *)
(* then sends a Stop to the service itself, an echo.                       *)
(*                                                                         *)
(* The service's core is its contract: started or not, a handler at a      *)
(* time.  A core left STOPPING by a Close that failed is to its handlers   *)
(* what a stopped one is.  The application makes its calls one after the   *)
(* other.                                                                  *)
(***************************************************************************)
EXTENDS Naturals, FiniteSets

CONSTANTS Jobs,          \* goroutines of the application (bounds them)
          MaxAttempts,   \* retries of an activation, 5 in the code
          MaxCalls,      \* bound on the application's calls
          MaxPending     \* bound on echoes, and on requests given up on

ASSUME TunnelAssumption ==
  /\ MaxAttempts \in Nat \ {0} /\ MaxCalls \in Nat /\ MaxPending \in Nat

VARIABLES
  tunnelServiceRunning,  \* the application's flag
  job,
  listening, tun,        \* the service answers; its core is started
  stray,                 \* an engine of the service whose Close failed may still run
  launch,                \* the service is being installed or restarted
  late,                  \* requests given up on that are still to be handled
  echo,                  \* echoes about to send their first or second Stop
  calls,
  \* history: the flag is unset although the tunnel may be on, or may come
  \* on; how an activation nothing disturbed went
  astray, fresh

app     == <<tunnelServiceRunning, job>>
service == <<listening, tun, stray, launch, late, echo>>
history == <<astray, fresh>>
vars    == <<app, service, calls, history>>

-----------------------------------------------------------------------------
Labels   == {"listen", "dial", "stop", "stopAgain", "start", "exit", "run", "wait", "ready"}
Requests == {"Stop", "Start", "Exit"}
JobType  == [kind : {"none", "activate", "deactivate", "background"},
             pc : Labels, installService : BOOLEAN, attempt : 0 .. MaxAttempts]
NoJob    == [kind |-> "none", pc |-> "dial", installService |-> FALSE, attempt |-> 0]
NoEcho   == [first |-> 0, second |-> 0]

TypeOK ==
  /\ tunnelServiceRunning \in BOOLEAN
  /\ job \in [Jobs -> JobType]
  /\ {listening, tun, stray, launch} \subseteq BOOLEAN
  /\ late \in [Requests -> 0 .. MaxPending]
  /\ echo \in [first : 0 .. MaxPending, second : 0 .. MaxPending]
  /\ calls \in 0 .. MaxCalls
  /\ astray \in BOOLEAN /\ fresh \in {"no", "pending", "ok"}
  /\ tun \/ stray => listening

Free(j)   == job[j].kind = "none"
NoLate    == [r \in Requests |-> 0]
Settled   == (\A j \in Jobs : Free(j)) /\ echo = NoEcho /\ late = NoLate

\* An activation is under way, or a Start nobody waits for.
Activating == (\E j \in Jobs : job[j].kind = "activate") \/ late["Start"] > 0

\* The service may run, with its tunnel on, since an earlier run of the
\* application.
Init ==
  /\ tunnelServiceRunning = FALSE /\ job = [j \in Jobs |-> NoJob]
  /\ listening \in BOOLEAN /\ tun \in BOOLEAN /\ stray \in BOOLEAN
  /\ (tun \/ stray => listening)
  /\ launch = FALSE /\ late = NoLate /\ echo = NoEcho /\ calls = 0
  /\ astray = (tun \/ stray) /\ fresh = "no"

-----------------------------------------------------------------------------
(* The handlers of the service.  e is what is left of the echoes.          *)

Fits(e) == e.first + e.second <= MaxPending

\* Mutant: Stop deactivates before it looks whether the core is started.
StopDeactivatesFirst(e, ok) ==
  /\ tun' = FALSE /\ echo' = [e EXCEPT !.first = @ + 1] /\ Fits(echo')
  /\ ok = tun /\ UNCHANGED stray

\* Stop is refused while the core is not started, before it deactivates; it
\* fails if the engine's Close does, after that.
CoreStop(e, ok) ==
  /\ tun' = FALSE
  /\ \/ /\ tun /\ echo' = [e EXCEPT !.first = @ + 1] /\ Fits(echo')
        /\ stray' = (stray \/ ~ok)
     \/ ~tun /\ ~ok /\ echo' = e /\ UNCHANGED stray

\* Start stops a started core first, and goes on whatever comes of that; a
\* start that fails ends in StopAndAlert, which deactivates too.
CoreStart(ok) ==
  /\ tun' = ok /\ stray' \in {stray, stray \/ tun}
  /\ echo' = [echo EXCEPT !.first = @ + (IF tun THEN 1 ELSE 0) + (IF ok THEN 0 ELSE 1)]
  /\ Fits(echo')

\* Mutant: the tunnel outlives the service.
DownKeepsTunnel ==
  /\ listening' = FALSE /\ tun' = tun /\ late' = NoLate /\ echo' = NoEcho
  /\ stray' = FALSE

\* The process is gone, and what it had to do with it.
Down ==
  /\ listening' = FALSE /\ tun' = FALSE /\ late' = NoLate /\ echo' = NoEcho
  /\ stray' = FALSE

\* A request whose caller gave up is handled, or was lost.
Late(r) ==
  /\ listening /\ late[r] > 0
  /\ \/ r = "Exit" /\ Down
     \/ /\ late' = [late EXCEPT ![r] = @ - 1] /\ UNCHANGED listening
        /\ \/ r = "Stop" /\ \E ok \in BOOLEAN : CoreStop(echo, ok)
           \/ r = "Start" /\ \E ok \in BOOLEAN : CoreStart(ok)
           \/ UNCHANGED <<tun, stray, echo>>
  /\ UNCHANGED <<app, launch, calls, history>>

\* stopTunnelRequest in the service itself: a Stop, and one more if the first
\* was refused or failed; or it fails before.
Echo ==
  /\ \/ /\ echo.first > 0
        /\ \/ CoreStop([echo EXCEPT !.first = @ - 1], TRUE)
           \/ CoreStop([first |-> echo.first - 1, second |-> echo.second + 1], FALSE)
           \/ echo' = [echo EXCEPT !.first = @ - 1] /\ UNCHANGED <<tun, stray>>
     \/ /\ echo.second > 0
        /\ \/ \E ok \in BOOLEAN : CoreStop([echo EXCEPT !.second = @ - 1], ok)
           \/ echo' = [echo EXCEPT !.second = @ - 1] /\ UNCHANGED <<tun, stray>>
  /\ UNCHANGED <<app, listening, launch, late, calls, history>>

\* The service crashes, is stopped or uninstalled; it may be started again.
Kill ==
  /\ listening /\ Down /\ launch' \in BOOLEAN
  /\ fresh' = "no" /\ UNCHANGED <<app, calls, astray>>

\* What was to start the service has done so, or failed.
Launched ==
  /\ launch /\ launch' = FALSE
  /\ listening' \in {listening, TRUE}
  /\ UNCHANGED <<app, tun, stray, late, echo, calls, history>>

-----------------------------------------------------------------------------
(* The goroutines of the application.                                      *)

Step(j, a)  == job' = [job EXCEPT ![j] = a]
Goto(j, l)  == Step(j, [job[j] EXCEPT !.pc = l])

Few(l) == l["Stop"] + l["Start"] + l["Exit"] <= MaxPending

\* Its caller gives up on a request, which may reach the service all the same.
GiveUp(r) ==
  /\ late' = [late EXCEPT ![r] = @ + 1] /\ Few(late')
  /\ fresh' = "no" /\ UNCHANGED <<listening, tun, stray, launch, echo, astray>>

\* startTunnelRequest has returned false: the first time, the service is
\* waited for; then it is called again while there are attempts left.
AfterFailure(a) ==
  IF a.attempt = 0 THEN [a EXCEPT !.pc = "ready", !.installService = FALSE]
  ELSE IF a.attempt < MaxAttempts THEN [a EXCEPT !.pc = "listen", !.attempt = @ + 1]
  ELSE NoJob

\* A failing call has the service exit and run anew, the first time.
AfterError(a) ==
  IF a.installService THEN [a EXCEPT !.pc = "exit"] ELSE AfterFailure(a)

\* Whether the service listens; it may be too slow to tell.
Listen(j) ==
  /\ job[j].pc = "listen"
  /\ \/ listening /\ Goto(j, "dial")
     \/ job[j].installService /\ Goto(j, "run")
     \/ ~job[j].installService /\ Step(j, AfterFailure(job[j]))
  /\ UNCHANGED <<service, history>>

Dial(j) ==
  /\ job[j].pc = "dial"
  /\ (listening /\ Goto(j, "stop")) \/ Step(j, AfterError(job[j]))
  /\ UNCHANGED <<service, history>>

\* Stop, whether or not it is answered; past the deadline Start is not sent.
StopFirst(j) ==
  /\ job[j].pc = "stop"
  /\ \/ /\ listening /\ \E ok \in BOOLEAN : CoreStop(echo, ok)
        /\ Goto(j, "start") \/ Step(j, AfterError(job[j]))
        /\ UNCHANGED <<listening, launch, late, history>>
     \/ listening /\ GiveUp("Stop") /\ Step(j, AfterError(job[j]))
     \/ Goto(j, "start") /\ UNCHANGED <<service, history>>

\* Start.  A panic of the start is recovered, and answered like a success.
StartTunnel(j) ==
  /\ job[j].pc = "start"
  /\ \/ /\ listening /\ Step(j, NoJob)
        /\ \/ /\ CoreStart(TRUE)
              /\ fresh' = (IF fresh = "pending" THEN "ok" ELSE fresh)
           \/ CoreStart(FALSE) /\ fresh' = "no"
        /\ UNCHANGED <<listening, launch, late, astray>>
     \/ /\ listening /\ \E ok \in BOOLEAN : CoreStart(ok)
        /\ Step(j, AfterError(job[j])) /\ fresh' = "no"
        /\ UNCHANGED <<listening, launch, late, astray>>
     \/ listening /\ GiveUp("Start") /\ Step(j, AfterError(job[j]))
     \/ Step(j, AfterError(job[j])) /\ UNCHANGED <<service, history>>

\* ExitTunnelService, whatever comes of it.
ExitService(j) ==
  /\ job[j].pc = "exit" /\ Goto(j, "run")
  /\ \/ listening /\ Down /\ UNCHANGED <<launch, history>>
     \/ listening /\ GiveUp("Exit")
     \/ UNCHANGED <<service, history>>

\* runTunnelService: the installer is only started.
Run(j) ==
  /\ job[j].pc = "run"
  /\ \/ Step(j, [job[j] EXCEPT !.pc = "wait", !.installService = FALSE]) /\ launch' = TRUE
     \/ Step(j, AfterFailure(job[j])) /\ UNCHANGED launch
  /\ UNCHANGED <<listening, tun, stray, late, echo, history>>

\* waitForServiceReady, in runTunnelService and before the attempts.
Wait(j) ==
  /\ \/ /\ job[j].pc = "wait"
        /\ (listening /\ Goto(j, "listen")) \/ Step(j, AfterFailure(job[j]))
     \/ /\ job[j].pc = "ready"
        /\ \/ listening /\ Step(j, [job[j] EXCEPT !.pc = "listen", !.attempt = 1])
           \/ Step(j, NoJob)
  /\ UNCHANGED <<service, history>>

\* startTunnelRequestWithFailover.
Activation(j) ==
  /\ job[j].kind = "activate"
  /\ \/ Listen(j) \/ Dial(j) \/ StopFirst(j) \/ StartTunnel(j)
     \/ ExitService(j) \/ Run(j) \/ Wait(j)
  /\ UNCHANGED <<tunnelServiceRunning, calls>>

\* stopTunnelRequest has returned; a deactivation that called it returns too.
Return(j, ok) ==
  /\ Step(j, NoJob)
  /\ IF job[j].kind = "deactivate"
       THEN tunnelServiceRunning' = FALSE /\ astray' = (~ok \/ stray \/ Activating)
       ELSE UNCHANGED <<tunnelServiceRunning, astray>>

StopDial(j) ==
  /\ job[j].pc = "dial"
  /\ \/ listening /\ Goto(j, "stop") /\ UNCHANGED <<tunnelServiceRunning, astray>>
     \/ Return(j, FALSE)
  /\ UNCHANGED <<service, fresh>>

\* A Stop that is refused or fails, or does not reach the service, is sent
\* again.
StopSend(j) ==
  /\ job[j].pc = "stop"
  /\ \/ /\ listening
        /\ \/ CoreStop(echo, TRUE) /\ Return(j, TRUE)
           \/ /\ CoreStop(echo, FALSE) /\ Goto(j, "stopAgain")
              /\ UNCHANGED <<tunnelServiceRunning, astray>>
           \/ (\E ok \in BOOLEAN : CoreStop(echo, ok)) /\ Return(j, FALSE)
        /\ UNCHANGED <<listening, launch, late, fresh>>
     \/ /\ listening /\ Return(j, FALSE)
        /\ late' = [late EXCEPT !["Stop"] = @ + 1] /\ Few(late')
        /\ UNCHANGED <<listening, tun, stray, launch, echo, fresh>>
     \/ /\ Goto(j, "stopAgain")
        /\ UNCHANGED <<service, tunnelServiceRunning, history>>

\* The second Stop; its answer is not looked at.
StopAgain(j) ==
  /\ job[j].pc = "stopAgain" /\ Return(j, FALSE)
  /\ \/ listening /\ (\E ok \in BOOLEAN : CoreStop(echo, ok)) /\ UNCHANGED late
     \/ /\ listening /\ late' = [late EXCEPT !["Stop"] = @ + 1] /\ Few(late')
        /\ UNCHANGED <<tun, stray, echo>>
     \/ UNCHANGED <<tun, stray, late, echo>>
  /\ UNCHANGED <<listening, launch, fresh>>

\* stopTunnelRequest, for a deactivation or in a goroutine of its own.
Stopper(j) ==
  /\ job[j].kind \in {"deactivate", "background"}
  /\ StopDial(j) \/ StopSend(j) \/ StopAgain(j)
  /\ UNCHANGED calls

-----------------------------------------------------------------------------
(* The application's calls.                                                *)

Called ==
  /\ calls < MaxCalls /\ calls' = calls + 1
  /\ \A j \in Jobs : job[j].kind # "deactivate"

NewJob(k) ==
  [kind |-> k, pc |-> IF k = "activate" THEN "listen" ELSE "dial",
   installService |-> k = "activate", attempt |-> 0]

\* Mutant: the flag is not set.
ActivateForgets(j) ==
  /\ Called /\ Free(j) /\ Step(j, NewJob("activate"))
  /\ fresh' = (IF Settled /\ ~tun /\ ~stray THEN "pending" ELSE "no")
  /\ astray' = FALSE /\ UNCHANGED <<tunnelServiceRunning, service>>

\* ActivateTunnelService.
Activate(j) ==
  /\ Called /\ Free(j) /\ Step(j, NewJob("activate"))
  /\ tunnelServiceRunning' = TRUE
  /\ fresh' = (IF Settled /\ ~tun /\ ~stray THEN "pending" ELSE "no")
  /\ astray' = FALSE /\ UNCHANGED service

\* DeactivateTunnelService: with the flag unset it does not wait for the stop.
Deactivate(j) ==
  /\ Called /\ Free(j)
  /\ Step(j, NewJob(IF tunnelServiceRunning THEN "deactivate" ELSE "background"))
  /\ fresh' = "no" /\ UNCHANGED <<tunnelServiceRunning, service, astray>>

\* DeactivateTunnelServiceForce.
DeactivateForce(j) ==
  /\ Called /\ Free(j) /\ Step(j, NewJob("deactivate"))
  /\ fresh' = "no" /\ UNCHANGED <<tunnelServiceRunning, service, astray>>

Sending(r) ==
  {j \in Jobs : /\ ~Free(j)
                /\ job[j].pc \in (CASE r = "Stop"  -> {"stop", "stopAgain"}
                                    [] r = "Start" -> {"start"}
                                    [] r = "Exit"  -> {"exit"})}

\* The application ends and is started again; what it had sent may still be
\* handled.  `tunnel activate` ends so one second after it began.
Quit ==
  /\ Called
  /\ tunnelServiceRunning' = FALSE /\ job' = [j \in Jobs |-> NoJob]
  /\ late' \in [Requests -> 0 .. MaxPending]
  /\ \A r \in Requests : late'[r] \in late[r] .. late[r] + Cardinality(Sending(r))
  /\ listening \/ late' = late
  /\ late' = late \/ Few(late')
  /\ astray' = TRUE /\ fresh' = "no"
  /\ UNCHANGED <<listening, tun, stray, launch, echo>>

Next ==
  \/ \E j \in Jobs : \/ Activation(j) \/ Stopper(j)
                     \/ Activate(j) \/ Deactivate(j) \/ DeactivateForce(j)
  \/ \E r \in Requests : Late(r)
  \/ Echo \/ Kill \/ Launched \/ Quit

\* Goroutines run on, calls time out and handlers return.
Fairness ==
  /\ \A j \in Jobs : WF_vars(Activation(j)) /\ WF_vars(Stopper(j))
  /\ \A r \in Requests : WF_vars(Late(r))
  /\ WF_vars(Echo)

Spec == Init /\ [][Next]_vars /\ Fairness

-----------------------------------------------------------------------------
(* Properties.                                                             *)

\* While the application's flag is unset the tunnel is off, for it takes the
\* flag to have the next deactivation wait for the stop.  The exceptions: a
\* deactivation that failed, or found an activation still under way or an
\* engine whose Close had failed, and an application that was started anew
\* (admin_service_commander.go:58-98, custom.go:303-317).
DeactivateHolds == tun \/ stray => tunnelServiceRunning \/ astray

\* An activation that began with the tunnel off and nothing under way, and
\* met no failing or overdue request, leaves the tunnel on until the next
\* call: no echo of the service's own reaches it, nor a second Start of its
\* own (admin_service_commander.go:100-165, custom.go:288-304).
FreshActivationHolds == fresh = "ok" => tun

\* Retries, requests given up on and the service's echoes come to an end: the
\* Stops the service sends itself die out because one that is refused
\* deactivates nothing (admin_service_commander.go:100-117, custom.go:288-304).
Settles == <>[]Settled
=============================================================================
