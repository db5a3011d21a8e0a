----------------------------- MODULE CoreContract -----------------------------
(***************************************************************************)
(* What the core promises a client that makes one call at a time: a state  *)
(* the client can read, at most one running engine behind it, the engine   *)
(* running whenever the state says STARTED, and no engine left behind when *)
(* a new start begins from STOPPED.                                        *)
(***************************************************************************)
CONSTANT Engines
VARIABLES state,    \* the announced CoreState
          running   \* the engines that run

contract == <<state, running>>

Init == state = "STOPPED" /\ running = {}

\* A start, or a reload of the service that runs.
Begin ==
  /\ state \in {"STOPPED", "STOPPING"} => running = {}
  /\ state' = "STARTING"
  /\ UNCHANGED running

\* The only engine starts, and only while the core is STARTING.
Launch ==
  /\ state = "STARTING" /\ running = {}
  /\ \E e \in Engines : running' = {e}
  /\ UNCHANGED state

Ready ==
  /\ state = "STARTING" /\ running # {}
  /\ state' = "STARTED"
  /\ UNCHANGED running

Leave == state = "STARTED" /\ state' = "STOPPING" /\ UNCHANGED running

\* An engine never ends under a STARTED core.
Cease == state # "STARTED" /\ running # {} /\ running' = {} /\ UNCHANGED state

\* STOPPED is announced on the way down, or when a start fails.
Halt == state \in {"STARTING", "STOPPING"} /\ state' = "STOPPED" /\ UNCHANGED running

Next == Begin \/ Launch \/ Ready \/ Leave \/ Cease \/ Halt

Spec == Init /\ [][Next]_contract
=============================================================================
