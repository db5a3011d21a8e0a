------------------------- MODULE TunnelServiceProofs -------------------------
(***************************************************************************)
(* Theorems about TunnelService, for any goroutines, attempts, calls and   *)
(* pending requests: the flag tells when the tunnel is off, and an         *)
(* undisturbed activation holds.                                           *)
(***************************************************************************)
EXTENDS TunnelService, TLAPS

\* Whatever may turn the tunnel on is known to the flag, or astray.
FlagKnows == tun \/ stray \/ Activating => tunnelServiceRunning \/ astray

\* While an undisturbed activation is under way there is nothing but it, and
\* the tunnel is off; once it has succeeded there is nothing.
Undisturbed ==
  /\ fresh = "pending" =>
       /\ ~tun /\ echo = NoEcho /\ late = NoLate
       /\ \A j \in Jobs : Free(j) \/ job[j].kind = "activate"
       /\ \A j, k \in Jobs : ~Free(j) /\ ~Free(k) => j = k
  /\ fresh = "ok" => tun /\ Settled

TypeInv == TypeOK /\ Fits(echo)

IInv == TypeInv /\ FlagKnows /\ Undisturbed

-----------------------------------------------------------------------------
(* Types of the parts.                                                     *)

Echoes == {e \in [first : 0 .. MaxPending, second : 0 .. MaxPending] : Fits(e)}

LEMMA Parts ==
  /\ NoJob \in JobType /\ NoEcho \in Echoes /\ NoLate \in [Requests -> 0 .. MaxPending]
  /\ \A k \in {"activate", "deactivate", "background"} : NewJob(k) \in JobType
  BY TunnelAssumption DEF NoJob, NoEcho, NoLate, NewJob, JobType, Echoes, Fits, Labels, Requests

LEMMA JobTypes ==
  ASSUME NEW a \in JobType, NEW l \in Labels
  PROVE  /\ [a EXCEPT !.pc = l] \in JobType
         /\ [a EXCEPT !.pc = l, !.installService = FALSE] \in JobType
         /\ [a EXCEPT !.pc = l, !.attempt = 1] \in JobType
         /\ AfterFailure(a) \in JobType /\ AfterError(a) \in JobType
         /\ [a EXCEPT !.pc = l].kind = a.kind
         /\ [a EXCEPT !.pc = l, !.installService = FALSE].kind = a.kind
         /\ [a EXCEPT !.pc = l, !.attempt = 1].kind = a.kind
         /\ AfterFailure(a).kind \in {"none", a.kind}
         /\ AfterError(a).kind \in {"none", a.kind}
<1>1. NoJob \in JobType /\ NoJob.kind = "none"
  BY Parts DEF NoJob
<1>2. /\ AfterFailure(a) \in JobType
      /\ AfterFailure(a).kind \in {"none", a.kind}
  <2>1. CASE a.attempt = 0
    BY <2>1 DEF AfterFailure, JobType, Labels
  <2>2. CASE a.attempt # 0 /\ a.attempt < MaxAttempts
    <3>1. /\ AfterFailure(a) = [a EXCEPT !.pc = "listen", !.attempt = @ + 1]
          /\ a.attempt + 1 \in 0 .. MaxAttempts
      BY <2>2, TunnelAssumption DEF AfterFailure, JobType
    <3>2. QED
      BY <3>1 DEF JobType, Labels
  <2>3. CASE a.attempt # 0 /\ ~(a.attempt < MaxAttempts)
    BY <1>1, <2>3 DEF AfterFailure
  <2>4. QED
    BY <2>1, <2>2, <2>3
<1>3. /\ AfterError(a) \in JobType
      /\ AfterError(a).kind \in {"none", a.kind}
  BY <1>2 DEF AfterError, JobType, Labels
<1>4. 1 \in 0 .. MaxAttempts
  BY TunnelAssumption
<1>5. /\ [a EXCEPT !.pc = l] \in JobType
      /\ [a EXCEPT !.pc = l, !.installService = FALSE] \in JobType
      /\ [a EXCEPT !.pc = l, !.attempt = 1] \in JobType
  BY <1>4 DEF JobType
<1>6. /\ [a EXCEPT !.pc = l].kind = a.kind
      /\ [a EXCEPT !.pc = l, !.installService = FALSE].kind = a.kind
      /\ [a EXCEPT !.pc = l, !.attempt = 1].kind = a.kind
  BY DEF JobType
<1>7. QED
  BY <1>2, <1>3, <1>5, <1>6

\* The handlers keep the types, and a Stop leaves the tunnel off.
LEMMA StopTyped ==
  ASSUME NEW e \in [first : Nat, second : Nat], NEW ok \in BOOLEAN, CoreStop(e, ok), TypeOK,
         ~tun => Fits(e)
  PROVE  /\ echo' \in Echoes /\ tun' = FALSE /\ (~tun => echo' = e /\ stray' = stray)
         /\ stray' \in BOOLEAN /\ (stray' => stray \/ tun) /\ (ok => stray' = stray)
  BY TunnelAssumption DEF CoreStop, Fits, Echoes, TypeOK

LEMMA StartTyped ==
  ASSUME NEW ok \in BOOLEAN, CoreStart(ok), TypeOK
  PROVE  /\ echo' \in Echoes /\ tun' = ok /\ (~tun /\ ok => echo' = echo)
         /\ stray' \in BOOLEAN /\ (stray' => stray \/ tun)
  BY TunnelAssumption DEF CoreStart, Fits, Echoes, TypeOK

LEMMA DownTyped ==
  ASSUME Down
  PROVE  /\ listening' = FALSE /\ tun' = FALSE /\ stray' = FALSE
         /\ late' = NoLate /\ late' \in [Requests -> 0 .. MaxPending]
         /\ echo' = NoEcho /\ echo' \in Echoes
  BY Parts DEF Down

LEMMA StepTyped ==
  ASSUME TypeInv, NEW j \in Jobs, NEW a \in JobType, Step(j, a)
  PROVE  /\ job' \in [Jobs -> JobType] /\ job'[j] = a
         /\ \A k \in Jobs \ {j} : job'[k] = job[k]
  BY DEF TypeInv, TypeOK, Step

\* A goroutine that runs on changes no other, and not what it is for.
Shrinks == \A k \in Jobs : job'[k].kind \in {"none", job[k].kind}

LEMMA StepShrinks ==
  ASSUME TypeInv, NEW j \in Jobs, NEW a \in JobType, Step(j, a),
         a.kind \in {"none", job[j].kind}
  PROVE  job' \in [Jobs -> JobType] /\ Shrinks
  BY StepTyped DEF Shrinks

LEMMA LateTyped ==
  ASSUME late \in [Requests -> 0 .. MaxPending], NEW r \in Requests,
         late' = [late EXCEPT ![r] = @ + 1], Few(late')
  PROVE  late' \in [Requests -> 0 .. MaxPending] /\ \A q \in Requests \ {r} : late'[q] = late[q]
<1>1. late' \in [Requests -> Nat] /\ \A q \in Requests \ {r} : late'[q] = late[q]
  BY TunnelAssumption
<1>2. late'["Stop"] \in Nat /\ late'["Start"] \in Nat /\ late'["Exit"] \in Nat
  BY <1>1 DEF Requests
<1>3. late'["Stop"] <= MaxPending /\ late'["Start"] <= MaxPending /\ late'["Exit"] <= MaxPending
  BY <1>2, TunnelAssumption DEF Few
<1>4. QED
  BY <1>1, <1>3, TunnelAssumption DEF Requests

LEMMA GiveUpTyped ==
  ASSUME TypeInv, NEW r \in Requests, GiveUp(r)
  PROVE  /\ late' \in [Requests -> 0 .. MaxPending] /\ fresh' = "no"
         /\ UNCHANGED <<listening, tun, stray, launch, echo, astray>>
<1>1. /\ late \in [Requests -> 0 .. MaxPending] /\ late' = [late EXCEPT ![r] = @ + 1] /\ Few(late')
      /\ fresh' = "no" /\ UNCHANGED <<listening, tun, stray, launch, echo, astray>>
  BY DEF GiveUp, TypeInv, TypeOK
<1>2. QED
  BY <1>1, LateTyped

-----------------------------------------------------------------------------
(* An activation.                                                          *)

Quiet == ~tun /\ echo = NoEcho /\ late = NoLate

\* What the steps of an activation have in common.
LEMMA ActivationParts ==
  ASSUME TypeInv, NEW j \in Jobs, Activation(j)
  PROVE  /\ job' \in [Jobs -> JobType] /\ Shrinks
         /\ listening' \in BOOLEAN /\ tun' \in BOOLEAN /\ launch' \in BOOLEAN
         /\ stray' \in BOOLEAN /\ (tun' \/ stray' => listening')
         /\ late' \in [Requests -> 0 .. MaxPending] /\ echo' \in Echoes
         /\ astray' = astray
         /\ \/ fresh' = "no"
            \/ fresh' = fresh /\ (fresh = "pending" /\ Quiet => Quiet')
            \/ /\ fresh = "pending" /\ fresh' = "ok" /\ job'[j].kind = "none"
               /\ Quiet => tun' /\ echo' = NoEcho /\ late' = NoLate
<1> DEFINE P == /\ listening' \in BOOLEAN /\ tun' \in BOOLEAN /\ launch' \in BOOLEAN
                /\ stray' \in BOOLEAN /\ (tun' \/ stray' => listening')
                /\ late' \in [Requests -> 0 .. MaxPending] /\ echo' \in Echoes
                /\ astray' = astray
           Q == \/ fresh' = "no"
                \/ fresh' = fresh /\ (fresh = "pending" /\ Quiet => Quiet')
                \/ /\ fresh = "pending" /\ fresh' = "ok" /\ job'[j].kind = "none"
                   /\ Quiet => tun' /\ echo' = NoEcho /\ late' = NoLate
           a == job[j]
<1>0. /\ job \in [Jobs -> JobType] /\ a \in JobType /\ echo \in Echoes
      /\ late \in [Requests -> 0 .. MaxPending]
      /\ echo \in [first : Nat, second : Nat] /\ Fits(echo)
      /\ listening \in BOOLEAN /\ tun \in BOOLEAN /\ launch \in BOOLEAN
      /\ stray \in BOOLEAN /\ (tun \/ stray => listening)
  BY TunnelAssumption DEF TypeInv, TypeOK, Echoes
<1>1. ASSUME UNCHANGED <<service, history>>
      PROVE  P /\ Q
  BY <1>0, <1>1 DEF service, history, Quiet
<1>2. \A l \in Labels : Goto(j, l) => Step(j, [a EXCEPT !.pc = l])
  BY DEF Goto
<1>3. NoJob \in JobType /\ NoJob.kind = "none"
  BY Parts DEF NoJob
<1> HIDE DEF a
<1>4. CASE Listen(j)
  <2>1. /\ UNCHANGED <<service, history>>
        /\ \/ Step(j, [a EXCEPT !.pc = "dial"]) \/ Step(j, [a EXCEPT !.pc = "run"])
           \/ Step(j, AfterFailure(a))
    BY <1>4 DEF Listen, Goto, a
  <2>2. job' \in [Jobs -> JobType] /\ Shrinks
    BY <1>0, <2>1, JobTypes, StepShrinks DEF Labels, a
  <2>3. QED
    BY <1>1, <2>1, <2>2
<1>5. CASE Dial(j)
  <2>1. /\ UNCHANGED <<service, history>>
        /\ Step(j, [a EXCEPT !.pc = "stop"]) \/ Step(j, AfterError(a))
    BY <1>5 DEF Dial, Goto, a
  <2>2. job' \in [Jobs -> JobType] /\ Shrinks
    BY <1>0, <2>1, JobTypes, StepShrinks DEF Labels, a
  <2>3. QED
    BY <1>1, <2>1, <2>2
<1>6. CASE StopFirst(j)
  <2>1. Step(j, [a EXCEPT !.pc = "start"]) \/ Step(j, AfterError(a))
    BY <1>6 DEF StopFirst, Goto, a
  <2>2. job' \in [Jobs -> JobType] /\ Shrinks
    BY <1>0, <2>1, JobTypes, StepShrinks DEF Labels, a
  <2>3. CASE /\ listening /\ \E ok \in BOOLEAN : CoreStop(echo, ok)
             /\ UNCHANGED <<listening, launch, late, history>>
    <3>1. /\ echo' \in Echoes /\ tun' = FALSE /\ (~tun => echo' = echo)
          /\ stray' \in BOOLEAN /\ listening'
      BY <1>0, <2>3, StopTyped DEF TypeInv
    <3>2. QED
      BY <1>0, <2>2, <2>3, <3>1 DEF history, Quiet
  <2>4. CASE GiveUp("Stop")
    BY <1>0, <2>2, <2>4, GiveUpTyped DEF Requests
  <2>5. CASE UNCHANGED <<service, history>>
    BY <1>1, <2>2, <2>5
  <2>6. QED
    BY <1>6, <2>3, <2>4, <2>5 DEF StopFirst
<1>7. CASE StartTunnel(j)
  <2>1. Step(j, NoJob) \/ Step(j, AfterError(a))
    BY <1>7 DEF StartTunnel, a
  <2>2. job' \in [Jobs -> JobType] /\ Shrinks
    <3>1. CASE Step(j, NoJob)
      BY <1>3, <3>1, StepShrinks
    <3>2. CASE Step(j, AfterError(a))
      <4>1. AfterError(a) \in JobType /\ AfterError(a).kind \in {"none", a.kind}
        BY <1>0, JobTypes DEF Labels
      <4>2. QED
        BY <3>2, <4>1, StepShrinks DEF a
    <3>3. QED
      BY <2>1, <3>1, <3>2
  <2>3. CASE /\ listening /\ Step(j, NoJob) /\ CoreStart(TRUE)
             /\ fresh' = IF fresh = "pending" THEN "ok" ELSE fresh
             /\ UNCHANGED <<listening, launch, late, astray>>
    <3>1. job'[j].kind = "none"
      BY <1>3, <2>3, StepTyped
    <3>2. echo' \in Echoes /\ tun' = TRUE /\ (~tun => echo' = echo) /\ stray' \in BOOLEAN
      BY <2>3, StartTyped DEF TypeInv
    <3>3. CASE fresh = "pending"
      BY <1>0, <2>2, <2>3, <3>1, <3>2, <3>3 DEF Quiet
    <3>4. CASE fresh # "pending"
      BY <1>0, <2>2, <2>3, <3>2, <3>4
    <3>5. QED
      BY <3>3, <3>4
  <2>4. CASE /\ listening /\ \E ok \in BOOLEAN : CoreStart(ok)
             /\ fresh' = "no" /\ UNCHANGED <<listening, launch, late, astray>>
    BY <1>0, <2>2, <2>4, StartTyped DEF TypeInv
  <2>5. CASE GiveUp("Start")
    BY <1>0, <2>2, <2>5, GiveUpTyped DEF Requests
  <2>6. CASE UNCHANGED <<service, history>>
    BY <1>1, <2>2, <2>6
  <2>7. QED
    BY <1>7, <2>3, <2>4, <2>5, <2>6 DEF StartTunnel
<1>8. CASE ExitService(j)
  <2>1. Step(j, [a EXCEPT !.pc = "run"])
    BY <1>8 DEF ExitService, Goto, a
  <2>2. job' \in [Jobs -> JobType] /\ Shrinks
    BY <1>0, <2>1, JobTypes, StepShrinks DEF Labels, a
  <2>3. CASE Down /\ UNCHANGED <<launch, history>>
    BY <1>0, <2>2, <2>3, DownTyped DEF history, Quiet
  <2>4. CASE GiveUp("Exit")
    BY <1>0, <2>2, <2>4, GiveUpTyped DEF Requests
  <2>5. CASE UNCHANGED <<service, history>>
    BY <1>1, <2>2, <2>5
  <2>6. QED
    BY <1>8, <2>3, <2>4, <2>5 DEF ExitService
<1>9. CASE Run(j)
  <2>1. /\ \/ Step(j, [a EXCEPT !.pc = "wait", !.installService = FALSE])
           \/ Step(j, AfterFailure(a))
        /\ launch' \in BOOLEAN /\ UNCHANGED <<listening, tun, stray, late, echo, history>>
    BY <1>0, <1>9 DEF Run, a
  <2>2. job' \in [Jobs -> JobType] /\ Shrinks
    BY <1>0, <2>1, JobTypes, StepShrinks DEF Labels, a
  <2>3. QED
    BY <1>0, <2>1, <2>2 DEF history, Quiet
<1>10. CASE Wait(j)
  <2>1. /\ \/ Step(j, [a EXCEPT !.pc = "listen"]) \/ Step(j, AfterFailure(a))
           \/ Step(j, [a EXCEPT !.pc = "listen", !.attempt = 1]) \/ Step(j, NoJob)
        /\ UNCHANGED <<service, history>>
    BY <1>10 DEF Wait, Goto, a
  <2>2. job' \in [Jobs -> JobType] /\ Shrinks
    BY <1>0, <1>3, <2>1, JobTypes, StepShrinks DEF Labels, a
  <2>3. QED
    BY <1>1, <2>1, <2>2
<1>11. QED
  BY <1>4, <1>5, <1>6, <1>7, <1>8, <1>9, <1>10 DEF Activation

LEMMA ActivationInv ==
  ASSUME IInv, NEW j \in Jobs, Activation(j)
  PROVE  IInv'
<1>1. job[j].kind = "activate" /\ ~Free(j) /\ UNCHANGED <<tunnelServiceRunning, calls>>
  BY DEF Activation, Free
<1>2. TypeInv' /\ Shrinks
  BY <1>1, ActivationParts DEF IInv, TypeInv, TypeOK, Echoes
<1>3. FlagKnows'
  BY <1>1, ActivationParts DEF IInv, FlagKnows, Activating
<1>4. fresh # "ok"
  BY <1>1 DEF IInv, Undisturbed, Settled
<1>5. fresh = "pending" => Quiet
  BY DEF IInv, Undisturbed, Quiet
<1>6. CASE fresh' = "no"
  BY <1>2, <1>3, <1>6 DEF IInv, Undisturbed
<1>7. CASE fresh' = fresh /\ (fresh = "pending" /\ Quiet => Quiet')
  <2>1. /\ \A k \in Jobs : Free(k)' \/ ~Free(k)
        /\ \A k \in Jobs : job'[k].kind \in {"none", job[k].kind}
    BY <1>2 DEF Shrinks, Free
  <2>2. Undisturbed'
    BY <1>4, <1>5, <1>7, <2>1 DEF IInv, Undisturbed, Quiet, Free
  <2>3. QED
    BY <1>2, <1>3, <2>2 DEF IInv
<1>8. CASE /\ fresh = "pending" /\ fresh' = "ok" /\ job'[j].kind = "none"
           /\ Quiet => tun' /\ echo' = NoEcho /\ late' = NoLate
  <2>1. \A k \in Jobs : k # j => job[k].kind = "none"
    BY <1>1, <1>8 DEF IInv, Undisturbed, Free
  <2>2. \A k \in Jobs : job'[k].kind = "none"
    BY <1>2, <1>8, <2>1 DEF Shrinks
  <2>3. Undisturbed'
    BY <1>5, <1>8, <2>2 DEF Undisturbed, Settled, Free
  <2>4. QED
    BY <1>2, <1>3, <2>3 DEF IInv
<1>9. QED
  BY <1>6, <1>7, <1>8, ActivationParts DEF IInv

-----------------------------------------------------------------------------
(* A stop.                                                                 *)

\* What the steps of a stop have in common.
LEMMA StopperParts ==
  ASSUME TypeInv, NEW j \in Jobs, Stopper(j)
  PROVE  /\ job' \in [Jobs -> JobType] /\ Shrinks
         /\ UNCHANGED <<listening, launch, calls, fresh>>
         /\ tun' \in BOOLEAN /\ (tun' => tun)
         /\ stray' \in BOOLEAN /\ (stray' => stray \/ tun)
         /\ late' \in [Requests -> 0 .. MaxPending] /\ echo' \in Echoes
         /\ late'["Start"] = late["Start"]
         /\ \/ UNCHANGED <<tunnelServiceRunning, astray>>
            \/ /\ tunnelServiceRunning' = FALSE /\ astray' \in BOOLEAN
               /\ astray' \/ (~tun' /\ ~stray' /\ ~Activating)
<1> DEFINE a == job[j]
           R == \/ UNCHANGED <<tunnelServiceRunning, astray>>
                \/ /\ tunnelServiceRunning' = FALSE /\ astray' \in BOOLEAN
                   /\ astray' \/ (~tun' /\ ~stray' /\ ~Activating)
<1>0. /\ job \in [Jobs -> JobType] /\ a \in JobType /\ echo \in Echoes
      /\ late \in [Requests -> 0 .. MaxPending]
      /\ echo \in [first : Nat, second : Nat] /\ Fits(echo)
      /\ listening \in BOOLEAN /\ tun \in BOOLEAN /\ stray \in BOOLEAN
  BY TunnelAssumption DEF TypeInv, TypeOK, Echoes
<1>1. NoJob \in JobType /\ NoJob.kind = "none"
  BY Parts DEF NoJob
<1> HIDE DEF a
<1>2. ASSUME NEW l \in {"stop", "stopAgain"}, Goto(j, l)
      PROVE  job' \in [Jobs -> JobType] /\ Shrinks
  <2>1. Step(j, [a EXCEPT !.pc = l]) /\ l \in Labels
    BY <1>2 DEF Goto, a, Labels
  <2>2. QED
    BY <1>0, <2>1, JobTypes, StepShrinks DEF a
<1>3. ASSUME NEW ok \in BOOLEAN, Return(j, ok)
      PROVE  /\ job' \in [Jobs -> JobType] /\ Shrinks
             /\ \/ UNCHANGED <<tunnelServiceRunning, astray>>
                \/ /\ tunnelServiceRunning' = FALSE /\ astray' \in BOOLEAN
                   /\ astray' \/ (ok /\ ~stray /\ ~Activating)
  BY <1>0, <1>1, <1>3, StepShrinks DEF Return
<1>4. ASSUME late' = [late EXCEPT !["Stop"] = @ + 1], Few(late')
      PROVE  late' \in [Requests -> 0 .. MaxPending] /\ late'["Start"] = late["Start"]
  BY <1>0, <1>4, LateTyped DEF Requests
<1>5. CASE StopDial(j)
  <2>1. \/ Goto(j, "stop") /\ UNCHANGED <<tunnelServiceRunning, astray>>
        \/ Return(j, FALSE)
    BY <1>5 DEF StopDial
  <2>2. UNCHANGED <<listening, tun, stray, launch, late, echo, fresh>>
    BY <1>5 DEF StopDial, service
  <2>3. QED
    BY <1>0, <1>2, <1>3, <2>1, <2>2 DEF Stopper
<1>6. CASE StopSend(j)
  <2>1. CASE /\ UNCHANGED <<listening, launch, late, fresh>>
             /\ \/ CoreStop(echo, TRUE) /\ Return(j, TRUE)
                \/ /\ CoreStop(echo, FALSE) /\ Goto(j, "stopAgain")
                   /\ UNCHANGED <<tunnelServiceRunning, astray>>
                \/ (\E ok \in BOOLEAN : CoreStop(echo, ok)) /\ Return(j, FALSE)
    <3>1. CASE CoreStop(echo, TRUE) /\ Return(j, TRUE)
      <4>1. echo' \in Echoes /\ tun' = FALSE /\ stray' = stray
        BY <1>0, <3>1, StopTyped DEF TypeInv
      <4>2. QED
        BY <1>0, <1>3, <2>1, <3>1, <4>1 DEF Stopper
    <3>2. CASE /\ CoreStop(echo, FALSE) /\ Goto(j, "stopAgain")
               /\ UNCHANGED <<tunnelServiceRunning, astray>>
      <4>1. /\ echo' \in Echoes /\ tun' = FALSE
            /\ stray' \in BOOLEAN /\ (stray' => stray \/ tun)
        BY <1>0, <3>2, StopTyped DEF TypeInv
      <4>2. QED
        BY <1>0, <1>2, <2>1, <3>2, <4>1 DEF Stopper
    <3>3. CASE (\E ok \in BOOLEAN : CoreStop(echo, ok)) /\ Return(j, FALSE)
      <4>1. /\ echo' \in Echoes /\ tun' = FALSE
            /\ stray' \in BOOLEAN /\ (stray' => stray \/ tun)
        BY <1>0, <3>3, StopTyped DEF TypeInv
      <4>2. QED
        BY <1>0, <1>3, <2>1, <3>3, <4>1 DEF Stopper
    <3>4. QED
      BY <2>1, <3>1, <3>2, <3>3
  <2>2. CASE /\ Return(j, FALSE)
             /\ late' = [late EXCEPT !["Stop"] = @ + 1] /\ Few(late')
             /\ UNCHANGED <<listening, tun, stray, launch, echo, fresh>>
    BY <1>0, <1>3, <1>4, <2>2 DEF Stopper
  <2>3. CASE /\ Goto(j, "stopAgain")
             /\ UNCHANGED <<service, tunnelServiceRunning, history>>
    BY <1>0, <1>2, <2>3 DEF Stopper, service, history
  <2>4. QED
    BY <1>6, <2>1, <2>2, <2>3 DEF StopSend
<1>7. CASE StopAgain(j)
  <2>1. Return(j, FALSE) /\ UNCHANGED <<listening, launch, fresh>>
    BY <1>7 DEF StopAgain
  <2>2. CASE (\E ok \in BOOLEAN : CoreStop(echo, ok)) /\ UNCHANGED late
    <3>1. /\ echo' \in Echoes /\ tun' = FALSE
          /\ stray' \in BOOLEAN /\ (stray' => stray \/ tun)
      BY <1>0, <2>2, StopTyped DEF TypeInv
    <3>2. QED
      BY <1>0, <1>3, <2>1, <2>2, <3>1 DEF Stopper
  <2>3. CASE /\ late' = [late EXCEPT !["Stop"] = @ + 1] /\ Few(late')
             /\ UNCHANGED <<tun, stray, echo>>
    BY <1>0, <1>3, <1>4, <2>1, <2>3 DEF Stopper
  <2>4. CASE UNCHANGED <<tun, stray, late, echo>>
    BY <1>0, <1>3, <2>1, <2>4 DEF Stopper
  <2>5. QED
    BY <1>7, <2>2, <2>3, <2>4 DEF StopAgain
<1>8. QED
  BY <1>5, <1>6, <1>7 DEF Stopper

LEMMA StopperInv ==
  ASSUME IInv, NEW j \in Jobs, Stopper(j)
  PROVE  IInv'
<1>1. job[j].kind \in {"deactivate", "background"} /\ ~Free(j)
  BY DEF Stopper, Free
<1>2. TypeInv' /\ Shrinks
  BY StopperParts DEF IInv, TypeInv, TypeOK, Echoes
<1>3. Activating' => Activating
  BY StopperParts DEF IInv, Activating, Shrinks
<1>4. FlagKnows'
  BY <1>3, StopperParts DEF IInv, FlagKnows
<1>5. fresh = "no" /\ fresh' = "no"
  BY <1>1, StopperParts DEF IInv, TypeInv, TypeOK, Undisturbed, Settled
<1>6. QED
  BY <1>2, <1>4, <1>5 DEF IInv, Undisturbed

-----------------------------------------------------------------------------
(* The service.                                                            *)

LEMMA ServiceInv ==
  ASSUME IInv, (\E r \in Requests : Late(r)) \/ Echo \/ Kill \/ Launched
  PROVE  IInv'
<1> USE DEF IInv
<1>0. /\ echo \in Echoes /\ echo \in [first : Nat, second : Nat] /\ Fits(echo)
      /\ late \in [Requests -> 0 .. MaxPending] /\ tun \in BOOLEAN /\ listening \in BOOLEAN
      /\ stray \in BOOLEAN
  BY TunnelAssumption DEF TypeInv, TypeOK, Echoes
<1>1. ASSUME NEW r \in Requests, Late(r)
      PROVE  IInv'
  <2>1. UNCHANGED <<tunnelServiceRunning, job, launch, calls, astray, fresh>>
    BY <1>1 DEF Late, app, history
  <2>2. late # NoLate
    BY <1>0, <1>1 DEF Late, NoLate
  <2>3. fresh = "no"
    BY <2>2 DEF Undisturbed, TypeInv, TypeOK, Settled
  <2>4. CASE Down
    <3>1. TypeInv'
      BY <2>1, <2>4, DownTyped DEF TypeInv, TypeOK, Echoes
    <3>2. late'["Start"] = 0
      BY <2>4 DEF Down, NoLate, Requests
    <3>3. FlagKnows'
      BY <1>0, <2>1, <2>4, <3>2 DEF FlagKnows, Activating, Down, Requests
    <3>4. QED
      BY <2>1, <2>3, <3>1, <3>3 DEF Undisturbed
  <2>5. CASE /\ late' = [late EXCEPT ![r] = @ - 1] /\ UNCHANGED listening
             /\ \/ r = "Stop" /\ \E ok \in BOOLEAN : CoreStop(echo, ok)
                \/ r = "Start" /\ \E ok \in BOOLEAN : CoreStart(ok)
                \/ UNCHANGED <<tun, stray, echo>>
    <3>1. /\ late' \in [Requests -> 0 .. MaxPending]
          /\ late'["Start"] > 0 => late["Start"] > 0
          /\ r = "Start" => late["Start"] > 0
      BY <1>0, <1>1, <2>5, TunnelAssumption DEF Late, Requests
    <3>2. /\ echo' \in Echoes /\ tun' \in BOOLEAN /\ (tun' => tun \/ r = "Start")
          /\ stray' \in BOOLEAN /\ (stray' => stray \/ tun)
      <4>1. CASE r = "Stop" /\ \E ok \in BOOLEAN : CoreStop(echo, ok)
        BY <1>0, <4>1, StopTyped DEF TypeInv
      <4>2. CASE r = "Start" /\ \E ok \in BOOLEAN : CoreStart(ok)
        BY <4>2, StartTyped DEF TypeInv
      <4>3. CASE UNCHANGED <<tun, stray, echo>>
        BY <1>0, <4>3
      <4>4. QED
        BY <2>5, <4>1, <4>2, <4>3
    <3>3. listening
      BY <1>1 DEF Late
    <3>4. TypeInv'
      BY <2>1, <2>5, <3>1, <3>2, <3>3 DEF TypeInv, TypeOK, Echoes
    <3>5. FlagKnows'
      BY <2>1, <3>1, <3>2 DEF FlagKnows, Activating
    <3>6. QED
      BY <2>1, <2>3, <3>4, <3>5 DEF Undisturbed
  <2>6. QED
    BY <1>1, <2>4, <2>5 DEF Late
<1>2. CASE Echo
  <2>1. UNCHANGED <<tunnelServiceRunning, job, listening, launch, late, calls, astray, fresh>>
    BY <1>2 DEF Echo, app, history
  <2>2. echo # NoEcho
    <3>1. echo.first > 0 \/ echo.second > 0
      BY <1>2 DEF Echo
    <3>2. NoEcho.first = 0 /\ NoEcho.second = 0 /\ ~(0 > 0)
      BY DEF NoEcho
    <3>3. QED
      BY <3>1, <3>2
  <2>3. fresh = "no"
    BY <2>2 DEF Undisturbed, TypeInv, TypeOK, Settled
  <2>4. PICK e \in [first : Nat, second : Nat] :
          \/ /\ \E ok \in BOOLEAN : CoreStop(e, ok)
             /\ ~tun => Fits(e)
          \/ e \in Echoes /\ echo' = e /\ UNCHANGED <<tun, stray>>
    <3>0. /\ echo.first \in Nat /\ echo.second \in Nat
          /\ echo.first + echo.second <= MaxPending
      BY <1>0 DEF Fits
    <3>1. ASSUME echo.first > 0
          PROVE  /\ [echo EXCEPT !.first = @ - 1] \in Echoes
                 /\ [first |-> echo.first - 1, second |-> echo.second + 1] \in Echoes
      BY <1>0, <3>0, <3>1, TunnelAssumption DEF Echoes, Fits
    <3>2. ASSUME echo.second > 0
          PROVE  [echo EXCEPT !.second = @ - 1] \in Echoes
      BY <1>0, <3>0, <3>2, TunnelAssumption DEF Echoes, Fits
    <3>3. \A e \in Echoes : e \in [first : Nat, second : Nat] /\ Fits(e)
      BY TunnelAssumption DEF Echoes
    <3>4. QED
      BY <1>2, <3>1, <3>2, <3>3 DEF Echo
  <2>6. /\ echo' \in Echoes /\ tun' \in BOOLEAN /\ (tun' => tun)
        /\ stray' \in BOOLEAN /\ (stray' => stray \/ tun)
    <3>1. CASE /\ \E ok \in BOOLEAN : CoreStop(e, ok)
               /\ ~tun => Fits(e)
      BY <1>0, <3>1, StopTyped DEF TypeInv
    <3>2. CASE e \in Echoes /\ echo' = e /\ UNCHANGED <<tun, stray>>
      BY <1>0, <3>2
    <3>3. QED
      BY <2>4, <3>1, <3>2
  <2>7. TypeInv'
    BY <2>1, <2>6 DEF TypeInv, TypeOK, Echoes
  <2>8. FlagKnows' /\ Undisturbed'
    BY <2>1, <2>3, <2>6 DEF FlagKnows, Activating, Undisturbed
  <2>9. QED
    BY <2>7, <2>8
<1>3. CASE Kill
  <2>1. UNCHANGED <<tunnelServiceRunning, job, calls, astray>> /\ fresh' = "no"
    BY <1>3 DEF Kill, app
  <2>2. Down /\ launch' \in BOOLEAN
    BY <1>3 DEF Kill
  <2>3. TypeInv'
    BY <2>1, <2>2, DownTyped DEF TypeInv, TypeOK, Echoes
  <2>4. late'["Start"] = 0
    BY <2>2 DEF Down, NoLate, Requests
  <2>5. FlagKnows'
    BY <1>0, <2>1, <2>2, <2>4 DEF FlagKnows, Activating, Down
  <2>6. QED
    BY <2>1, <2>3, <2>5 DEF Undisturbed
<1>4. CASE Launched
  <2>1. TypeInv'
    <3>1. /\ launch' = FALSE
          /\ UNCHANGED <<tunnelServiceRunning, job, tun, stray, late, echo, calls, astray, fresh>>
      BY <1>4 DEF Launched, app, history
    <3>2. listening' = listening \/ listening' = TRUE
      BY <1>4 DEF Launched
    <3>3. QED
      BY <1>0, <3>1, <3>2 DEF TypeInv, TypeOK, Fits
  <2>2. FlagKnows' /\ Undisturbed'
    BY <1>4 DEF Launched, FlagKnows, Activating, Undisturbed, Settled, Free, app, history
  <2>3. QED
    BY <2>1, <2>2
<1>5. QED
  BY <1>1, <1>2, <1>3, <1>4

-----------------------------------------------------------------------------
(* The calls.                                                              *)

LEMMA CallInv ==
  ASSUME IInv, NEW j \in Jobs, Activate(j) \/ Deactivate(j) \/ DeactivateForce(j)
  PROVE  IInv'
<1>1. calls' \in 0 .. MaxCalls /\ Free(j) /\ UNCHANGED <<listening, tun, stray, launch, late, echo>>
  BY TunnelAssumption DEF IInv, TypeInv, TypeOK, Activate, Deactivate, DeactivateForce, Called, service
<1>2. PICK k \in {"activate", "deactivate", "background"} : Step(j, NewJob(k))
  BY DEF Activate, Deactivate, DeactivateForce
<1>3. NewJob(k) \in JobType /\ NewJob(k).kind = k
  BY Parts DEF NewJob
<1>4. /\ job' \in [Jobs -> JobType] /\ job'[j].kind = k
      /\ \A i \in Jobs \ {j} : job'[i] = job[i]
  BY <1>2, <1>3, StepTyped DEF IInv
<1>5. CASE Activate(j)
  <2>1. /\ tunnelServiceRunning' = TRUE /\ astray' = FALSE
        /\ fresh' = IF Settled /\ ~tun /\ ~stray THEN "pending" ELSE "no"
        /\ Step(j, NewJob("activate"))
    BY <1>5 DEF Activate
  <2>2. NewJob("activate") \in JobType /\ NewJob("activate").kind = "activate"
    BY Parts DEF NewJob
  <2>3. job'[j].kind = "activate"
    BY <2>1, <2>2, StepTyped DEF IInv
  <2>4. TypeInv'
    BY <1>1, <1>4, <2>1 DEF IInv, TypeInv, TypeOK, Fits
  <2>5. FlagKnows'
    BY <2>1 DEF FlagKnows
  <2>6. CASE Settled /\ ~tun /\ ~stray
    <3>1. \A i \in Jobs \ {j} : job'[i].kind = "none"
      BY <1>4, <2>6 DEF Settled, Free
    <3>2. fresh' = "pending" /\ ~tun' /\ echo' = NoEcho /\ late' = NoLate
      BY <1>1, <2>1, <2>6 DEF Settled
    <3>3. QED
      BY <2>3, <2>4, <2>5, <3>1, <3>2 DEF IInv, Undisturbed, Free
  <2>7. CASE ~(Settled /\ ~tun /\ ~stray)
    <3>1. fresh' = "no"
      BY <2>1, <2>7
    <3>2. QED
      BY <2>4, <2>5, <3>1 DEF IInv, Undisturbed
  <2>8. QED
    BY <2>6, <2>7
<1>6. CASE Deactivate(j) \/ DeactivateForce(j)
  <2>1. /\ fresh' = "no" /\ UNCHANGED <<tunnelServiceRunning, astray>>
        /\ \E l \in {"deactivate", "background"} : Step(j, NewJob(l))
    BY <1>6 DEF Deactivate, DeactivateForce
  <2>2. PICK l \in {"deactivate", "background"} : Step(j, NewJob(l))
    BY <2>1
  <2>3. NewJob(l) \in JobType /\ NewJob(l).kind = l
    BY Parts DEF NewJob
  <2>4. job'[j].kind = l
    BY <2>2, <2>3, StepTyped DEF IInv
  <2>5. TypeInv'
    BY <1>1, <1>4, <2>1 DEF IInv, TypeInv, TypeOK, Fits
  <2>6. Activating' => Activating
    BY <1>1, <1>4, <2>4 DEF Activating
  <2>7. FlagKnows' /\ Undisturbed'
    BY <1>1, <2>1, <2>6 DEF IInv, FlagKnows, Undisturbed
  <2>8. QED
    BY <2>5, <2>7 DEF IInv
<1>7. QED
  BY <1>5, <1>6

LEMMA QuitInv ==
  ASSUME IInv, Quit
  PROVE  IInv'
<1>1. calls' \in 0 .. MaxCalls
  BY TunnelAssumption DEF IInv, TypeInv, TypeOK, Quit, Called
<1>2. job' \in [Jobs -> JobType]
  BY Parts DEF Quit
<1>3. TypeInv'
  BY <1>1, <1>2 DEF IInv, TypeInv, TypeOK, Quit, Fits
<1>4. FlagKnows' /\ Undisturbed'
  BY DEF Quit, FlagKnows, Undisturbed
<1>5. QED
  BY <1>3, <1>4 DEF IInv

-----------------------------------------------------------------------------
LEMMA InitInv == Init => IInv
<1> SUFFICES ASSUME Init PROVE IInv
  OBVIOUS
<1>1. /\ job \in [Jobs -> JobType] /\ echo \in Echoes
      /\ late \in [Requests -> 0 .. MaxPending] /\ calls \in 0 .. MaxCalls
  BY Parts, TunnelAssumption DEF Init
<1>4. astray \in BOOLEAN /\ fresh \in {"no", "pending", "ok"}
  BY DEF Init
<1>5. TypeInv
  BY <1>1, <1>4 DEF Init, TypeInv, TypeOK, Echoes
<1>2. ~Activating
  BY DEF Init, Activating, NoJob, NoLate, Requests
<1>3. FlagKnows /\ Undisturbed
  BY <1>2 DEF Init, FlagKnows, Undisturbed
<1>6. QED
  BY <1>3, <1>5 DEF IInv

LEMMA NextInv == IInv /\ [Next]_vars => IInv'
<1> SUFFICES ASSUME IInv, [Next]_vars PROVE IInv'
  OBVIOUS
<1>1. CASE UNCHANGED vars
  BY <1>1
  DEF vars, app, service, history, IInv, TypeInv, TypeOK, FlagKnows, Activating,
      Undisturbed, Settled, Free
<1>2. CASE Next
  BY <1>2, ActivationInv, StopperInv, CallInv, ServiceInv, QuitInv DEF Next
<1>3. QED
  BY <1>1, <1>2

\* Whatever calls come, however requests are lost or late and however often
\* the service or the application ends, the invariant holds.
THEOREM Invariance == Spec => []IInv
  BY InitInv, NextInv, PTL DEF Spec

\* Every variable keeps its type; a service that does not answer has no
\* tunnel.
THEOREM TypeCorrect == Spec => []TypeOK
<1>1. IInv => TypeOK
  BY DEF IInv, TypeInv
<1>2. QED
  BY <1>1, Invariance, PTL

\* The tunnel is off while the flag is unset, but for what went astray
\* (admin_service_commander.go:58-98).
THEOREM DeactivateHoldsEver == Spec => []DeactivateHolds
<1>1. IInv => DeactivateHolds
  BY DEF IInv, FlagKnows, DeactivateHolds
<1>2. QED
  BY <1>1, Invariance, PTL

\* An activation nothing disturbed leaves the tunnel on
\* (admin_service_commander.go:100-165, custom.go:288-304).
THEOREM FreshActivationHoldsEver == Spec => []FreshActivationHolds
<1>1. IInv => FreshActivationHolds
  BY DEF IInv, Undisturbed, FreshActivationHolds
<1>2. QED
  BY <1>1, Invariance, PTL
=============================================================================
